--------------------------- MODULE ProjectsProofs ---------------------------
(***************************************************************************)
(* Proofs about Projects, for every cap, every set of requests and every   *)
(* number of projects, calls and faults: the types, how far a workspace    *)
(* can pass its cap, that a revocation is for good, that no announced      *)
(* project goes unannounced, and that a claim moves the project's key.     *)
(*                                                                         *)
(* Shape is what the types need of a call in flight.  Bounded is the       *)
(* account of the slots: it counts the projects that are active together   *)
(* with those that a call in flight may still make active from what it     *)
(* checked or read before (Pending).  A call that takes a slot sees fewer  *)
(* than Cap active projects, and no more than one project is pending for   *)
(* each request; every other step moves a project from one set to the      *)
(* other or drops it.  Account is about what the outbox is told, Placed    *)
(* about where the keys are; both are explained where they are defined.    *)
(***************************************************************************)
EXTENDS Projects, FiniteSetTheorems, SequenceTheorems, TLAPS

\* A call that is under way names a project, and the keys it works on exist.
Fits(call) ==
    /\ call.at = "undo" => call.op \in {"create", "provision"}
    /\ call.at # "idle" => call.p \in Project
    /\ call.at = "rotate" => call.k \in DOMAIN keys
    /\ call.at = "replace" => call.key \in KeyRow

Shape == \A c \in Caller : Fits(calls[c])

\* The call may make its project active by a step that checks nothing.
Pends(call) ==
    \/ call.at = "save" /\ call.op = "create"
    \/ call.at = "find"
    \/ call.at = "write" /\ call.op # "archive"

PendingIn(now) == {now[c].p : c \in {d \in Request : Pends(now[d])}}

Pending == PendingIn(calls)

\* The reconciler only issues keys.
WritesRow(call) == call.at \in {"save", "find", "write"}

SweeperWritesNoRow == ~WritesRow(calls[Sweeper])

Bounded == Cardinality(Active \cup Pending) <= Cap + Cardinality(Request) - 1

Inv == TypeOK /\ Shape /\ SweeperWritesNoRow /\ Bounded

-----------------------------------------------------------------------------
(* What a step may do to each part of the state *)

CallsKept ==
    /\ calls' \in [Caller -> Call]
    /\ Shape' /\ SweeperWritesNoRow' /\ Pending' \subseteq Active \cup Pending

RowsKept == rows' \in [Project -> Row] /\ Active' \subseteq Active \cup Pending

KeysKept ==
    /\ keys' \in Seq(KeyRow) /\ DOMAIN keys \subseteq DOMAIN keys'
    /\ \A k \in DOMAIN keys : keys[k].state = "revoked" => keys'[k].state = "revoked"

OthersKept ==
    /\ minted' \in 0..MaxProject /\ offered' \in SUBSET Project
    /\ facts' \in SUBSET ({"made", "deleted"} \X Project)
    /\ faults' \in Nat /\ begun' \in Nat

-----------------------------------------------------------------------------
(* Types *)

LEMMA IdleIsCall == Idle \in Call /\ Idle.at = "idle" /\ Idle.p = NoProject
BY DEF Idle, Call, Step, Op, NoRow, Row, NoKey

LEMMA CallOfIsCall ==
    ASSUME NEW op \in Op, NEW p \in Project, NEW at \in Step
    PROVE  /\ CallOf(op, p, at) \in Call
           /\ CallOf(op, p, at).at = at /\ CallOf(op, p, at).op = op
           /\ CallOf(op, p, at).p = p
BY IdleIsCall DEF CallOf, Idle, Call, NoRow, Row, NoKey

LEMMA RowTypes ==
    /\ NoRow \in Row /\ NoRow.archived = TRUE
    /\ \A b \in BOOLEAN : Created(b) \in Row /\ Created(b).claimed = b
BY DEF NoRow, Row, Created

LEMMA DecidedIsRow ==
    ASSUME NEW op, NEW row \in Row
    PROVE  Decided(op, row) \in Row /\ (op = "archive" => Decided(op, row).archived = TRUE)
<1>1. CASE op = "claim"
  <2>1. Decided(op, row) = [row EXCEPT !.claimed = TRUE]
    BY <1>1, Zenon DEF Decided
  <2> QED BY <1>1, <2>1 DEF Row
<1>2. CASE op = "archive"
  <2>1. Decided(op, row) = [row EXCEPT !.archived = TRUE]
    BY <1>2, Zenon DEF Decided
  <2> QED BY <2>1 DEF Row
<1>3. CASE op \notin {"claim", "archive"}
  <2>1. Decided(op, row) = [row EXCEPT !.archived = FALSE]
    BY <1>3, Zenon DEF Decided
  <2> QED BY <1>3, <2>1 DEF Row
<1> QED BY <1>1, <1>2, <1>3

LEMMA StateIsSet ==
    ASSUME keys \in Seq(KeyRow), NEW k,
           NEW s \in {"active", "expiring", "expired", "revoked"},
           k \in DOMAIN keys /\ keys[k].state = "revoked" => s = "revoked",
           keys' = [keys EXCEPT ![k].state = s]
    PROVE  KeysKept
<1>1. DOMAIN keys = 1..Len(keys) /\ \A i \in DOMAIN keys : keys[i] \in KeyRow
  OBVIOUS
<1>2. /\ DOMAIN keys' = DOMAIN keys
      /\ \A i \in DOMAIN keys : keys'[i] = IF i = k THEN [keys[i] EXCEPT !.state = s] ELSE keys[i]
  BY <1>1
<1>3. \A i \in DOMAIN keys : keys'[i] \in KeyRow /\ (keys[i].state = "revoked" => keys'[i].state = "revoked")
  BY <1>1, <1>2 DEF KeyRow
<1>4. keys' \in [1..Len(keys) -> KeyRow]
  BY <1>1, <1>2, <1>3
<1> QED BY <1>2, <1>3, <1>4 DEF KeysKept

LEMMA KeyIsAdded ==
    ASSUME keys \in Seq(KeyRow), NEW key \in KeyRow, keys' = Append(keys, key)
    PROVE  KeysKept
<1>1. keys' \in Seq(KeyRow) /\ Len(keys') = Len(keys) + 1
      /\ \A i \in 1..Len(keys) : keys'[i] = keys[i]
  BY AppendProperties
<1> QED BY <1>1 DEF KeysKept

LEMMA KeysMove ==
    ASSUME keys \in Seq(KeyRow), NEW p,
           keys' = [k \in DOMAIN keys |-> Reassigned(keys[k], p)]
    PROVE  KeysKept
<1>1. DOMAIN keys = 1..Len(keys) /\ \A i \in DOMAIN keys : keys[i] \in KeyRow
  OBVIOUS
<1>2. \A key \in KeyRow : Reassigned(key, p) \in KeyRow /\ Reassigned(key, p).state = key.state
  BY DEF Reassigned, KeyRow
<1>3. keys' \in [1..Len(keys) -> KeyRow]
  BY <1>1, <1>2
<1> QED BY <1>1, <1>2, <1>3 DEF KeysKept

-----------------------------------------------------------------------------
(* Calls *)

\* One call moves; it writes a row later only if it is a request's, and its
\* project is pending afterwards only if it was, or is active.
LEMMA CallMoves ==
    ASSUME Inv, NEW c \in Caller, NEW call \in Call,
           calls' = [calls EXCEPT ![c] = call], Fits(call), KeysKept,
           WritesRow(call) => c \in Request,
           Pends(call) => call.p \in Active \/ (Pends(calls[c]) /\ call.p = calls[c].p)
    PROVE  CallsKept
<1>1. /\ calls' \in [Caller -> Call] /\ calls'[c] = call
      /\ \A d \in Caller \ {c} : calls'[d] = calls[d]
  BY DEF Inv, TypeOK
<1>2. ASSUME NEW d \in Caller PROVE Fits(calls[d])'
  <2>1. Fits(calls'[d])
    BY <1>1 DEF Inv, Shape
  <2> QED BY <2>1 DEF Fits, KeysKept
<1>3. Shape'
  BY <1>2 DEF Shape
<1>4. SweeperWritesNoRow'
  BY <1>1, ProjectsAssumption DEF Inv, SweeperWritesNoRow, Caller
<1>5. ASSUME NEW d \in Request, Pends(calls'[d])
      PROVE  calls'[d].p \in Active \/ (Pends(calls[d]) /\ calls'[d].p = calls[d].p)
  BY <1>1, <1>5 DEF Caller
<1>6. Pending' \subseteq Active \cup Pending
  BY <1>5 DEF Pending, PendingIn, Pends
<1> QED BY <1>1, <1>3, <1>4, <1>6 DEF CallsKept

LEMMA CallAnswers ==
    ASSUME Inv, NEW c \in Caller, Answers(c), KeysKept
    PROVE  CallsKept
<1>1. Idle \in Call /\ Fits(Idle) /\ ~WritesRow(Idle) /\ ~Pends(Idle)
  BY IdleIsCall DEF Fits, WritesRow, Pends
<1> QED BY <1>1, CallMoves DEF Answers

LEMMA CallGoes ==
    ASSUME Inv, NEW c \in Caller, NEW at \in Step, Goes(c, at), KeysKept,
           at \notin {"idle", "save", "find", "write", "rotate", "replace"},
           calls[c].at # "idle",
           at = "undo" => calls[c].op \in {"create", "provision"}
    PROVE  CallsKept
<1> DEFINE call == [calls[c] EXCEPT !.at = at]
<1>1. calls[c] \in Call /\ calls[c].p \in Project
  BY DEF Inv, TypeOK, Shape, Fits
<1>2. /\ call \in Call /\ call.at = at /\ call.p = calls[c].p /\ call.op = calls[c].op
      /\ call.k = calls[c].k /\ call.key = calls[c].key
  BY <1>1 DEF Call
<1>3. calls' = [calls EXCEPT ![c] = call]
  BY DEF Goes
<1> HIDE DEF call
<1>4. Fits(call) /\ ~WritesRow(call) /\ ~Pends(call)
  BY <1>1, <1>2 DEF Fits, WritesRow, Pends
<1> QED BY <1>2, <1>3, <1>4, CallMoves

LEMMA CallFallsBack ==
    ASSUME Inv, NEW c \in Caller, AfterRefusal(c), KeysKept, calls[c].at # "idle"
    PROVE  CallsKept
<1>1. CASE calls[c].op \in {"create", "provision"}
  BY <1>1, CallGoes DEF AfterRefusal, Step
<1>2. CASE calls[c].op \notin {"create", "provision"}
  BY <1>2, CallAnswers DEF AfterRefusal
<1> QED BY <1>1, <1>2

-----------------------------------------------------------------------------
(* Slots *)

LEMMA ActiveIsFinite == IsFiniteSet(Active) /\ Cardinality(Active) \in Nat
<1>1. IsFiniteSet(Project) /\ Active \subseteq Project
  BY FS_Interval, ProjectsAssumption DEF Project, Active
<1> QED BY <1>1, FS_Subset, FS_CardinalityType

LEMMA PendingIsFinite ==
    ASSUME NEW now
    PROVE  /\ IsFiniteSet(PendingIn(now)) /\ Cardinality(PendingIn(now)) \in Nat
           /\ Cardinality(PendingIn(now)) <= Cardinality(Request)
           /\ Cardinality(Request) \in Nat
<1> DEFINE D == {d \in Request : Pends(now[d])}
           f == [d \in D |-> now[d].p]
<1>1. IsFiniteSet(Request) /\ D \subseteq Request
  BY ProjectsAssumption
<1>2. IsFiniteSet(D) /\ Cardinality(D) <= Cardinality(Request) /\ Cardinality(D) \in Nat
      /\ Cardinality(Request) \in Nat
  <2> HIDE DEF D
  <2> QED BY <1>1, FS_Subset, FS_CardinalityType
<1>3. f \in Surjection(D, PendingIn(now))
  BY DEF Surjection, PendingIn
<1>4. IsFiniteSet(PendingIn(now)) /\ Cardinality(PendingIn(now)) <= Cardinality(D)
  <2> HIDE DEF D, f
  <2> QED BY <1>2, <1>3, FS_Surjection
<1>5. Cardinality(PendingIn(now)) \in Nat
  BY <1>4, FS_CardinalityType
<1> QED BY <1>2, <1>4, <1>5

\* However many calls are in flight, they pass the cap by one project each.
LEMMA SlotsSuffice ==
    ASSUME HasSlot, NEW now
    PROVE  Cardinality(Active \cup PendingIn(now)) <= Cap + Cardinality(Request) - 1
<1> DEFINE P == PendingIn(now)
<1>1. /\ IsFiniteSet(P) /\ Cardinality(P) \in Nat
      /\ Cardinality(P) <= Cardinality(Request) /\ Cardinality(Request) \in Nat
  BY PendingIsFinite
<1> HIDE DEF P
<1>2. Cardinality(Active \cup P)
          = Cardinality(Active) + Cardinality(P) - Cardinality(Active \cap P)
  BY <1>1, ActiveIsFinite, FS_Union
<1>3. Active \cap P \subseteq P
  OBVIOUS
<1>4. Cardinality(Active \cap P) \in Nat
  BY <1>1, <1>3, FS_Subset, FS_CardinalityType
<1>5. Cardinality(Active) < Cap /\ Cap \in Nat
  BY ProjectsAssumption DEF HasSlot
<1>6. Cardinality(Active \cup P) <= Cap + Cardinality(Request) - 1
  BY <1>1, <1>2, <1>4, <1>5, ActiveIsFinite
<1> QED BY <1>6 DEF P

LEMMA SlotIsTaken ==
    ASSUME Inv, HasSlot, NEW c \in Request, NEW call \in Call,
           calls' = [calls EXCEPT ![c] = call], Fits(call),
           UNCHANGED <<rows, keys>>, OthersKept
    PROVE  Inv'
<1>1. /\ calls' \in [Caller -> Call] /\ calls'[c] = call
      /\ \A d \in Caller \ {c} : calls'[d] = calls[d]
  BY DEF Inv, TypeOK, Caller
<1>2. ASSUME NEW d \in Caller PROVE Fits(calls[d])'
  <2>1. Fits(calls'[d])
    BY <1>1 DEF Inv, Shape
  <2> QED BY <2>1 DEF Fits
<1>3. TypeOK' /\ Shape'
  BY <1>1, <1>2 DEF Inv, OthersKept, TypeOK, Shape, Fits
<1>4. SweeperWritesNoRow'
  BY <1>1, ProjectsAssumption DEF Inv, SweeperWritesNoRow, Caller
<1>5. Active' = Active /\ Pending' = PendingIn(calls')
  BY DEF Active, InWorkspace, Exists, Pending, PendingIn, Pends
<1>6. Bounded'
  BY <1>5, SlotsSuffice DEF Bounded
<1> QED BY <1>3, <1>4, <1>6 DEF Inv

LEMMA Kept ==
    ASSUME Inv, CallsKept, RowsKept, KeysKept, OthersKept
    PROVE  Inv'
<1>1. TypeOK'
  BY DEF CallsKept, RowsKept, KeysKept, OthersKept, TypeOK, Shape, Fits
<1>2. Bounded'
  <2>1. Active' \cup Pending' \subseteq Active \cup Pending
    BY DEF CallsKept, RowsKept
  <2>2. IsFiniteSet(Active \cup Pending) /\ Cardinality(Active \cup Pending) \in Nat
    BY ActiveIsFinite, PendingIsFinite, FS_Union, FS_CardinalityType DEF Pending
  <2>3. Cardinality(Active' \cup Pending') <= Cardinality(Active \cup Pending)
        /\ Cardinality(Active' \cup Pending') \in Nat
    BY <2>1, <2>2, FS_Subset, FS_CardinalityType
  <2>4. Cap \in Nat /\ Cardinality(Request) \in Nat
    BY ProjectsAssumption, PendingIsFinite
  <2> QED BY <2>2, <2>3, <2>4 DEF Inv, Bounded
<1> QED BY <1>1, <1>2 DEF Inv, CallsKept

-----------------------------------------------------------------------------
(* A call begins *)

LEMMA Same ==
    ASSUME Inv
    PROVE  /\ UNCHANGED rows => RowsKept
           /\ UNCHANGED keys => KeysKept
           /\ UNCHANGED <<minted, offered, facts, faults>> /\ begun' \in Nat => OthersKept
           /\ UNCHANGED <<minted, offered, facts, begun>> /\ faults' \in Nat => OthersKept
BY DEF Inv, TypeOK, RowsKept, KeysKept, OthersKept, Active, InWorkspace, Exists

LEMMA Begun ==
    ASSUME Inv, NEW c \in Caller, NEW call, Begin(c, call)
    PROVE  begun' \in Nat /\ calls[c] = Idle /\ calls' = [calls EXCEPT ![c] = call]
BY DEF Inv, TypeOK, Begin

LEMMA SlotStepsKeep ==
    ASSUME Inv, NEW c \in Request, NEW p \in Project,
           ReserveSlot(c, p) \/ ClaimSlot(c, p) \/ RestoreSlot(c, p)
    PROVE  Inv'
<1>1. /\ c \in Caller /\ HasSlot
      /\ \E op \in {"create", "claim", "restore"}, at \in {"save", "find"} :
             Begin(c, CallOf(op, p, at))
  BY DEF ReserveSlot, ClaimSlot, RestoreSlot, Caller
<1>2. PICK op \in {"create", "claim", "restore"}, at \in {"save", "find"} :
          Begin(c, CallOf(op, p, at))
  BY <1>1
<1> DEFINE call == CallOf(op, p, at)
<1>3. call \in Call /\ call.at = at /\ call.p = p
  BY CallOfIsCall DEF Op, Step
<1>4. Begin(c, call)
  BY <1>2
<1> HIDE DEF call
<1>5. Fits(call) /\ calls' = [calls EXCEPT ![c] = call] /\ begun' \in Nat
  BY <1>1, <1>3, <1>4, Begun DEF Fits
<1>6. UNCHANGED <<rows, keys, offered, facts, faults>> /\ minted' \in {minted, p}
  BY DEF ReserveSlot, ClaimSlot, RestoreSlot, projectVars
<1>7. OthersKept
  <2>1. p \in 0..MaxProject
    BY ProjectsAssumption DEF Project
  <2> QED BY <1>5, <1>6, <2>1 DEF OthersKept, Inv, TypeOK
<1> QED BY <1>1, <1>3, <1>5, <1>6, <1>7, SlotIsTaken

LEMMA CallBegins ==
    ASSUME Inv, NEW c \in Caller, NEW call \in Call, Begin(c, call),
           UNCHANGED <<rows, offered, facts, keys, faults>>, minted' \in 0..MaxProject,
           Fits(call), WritesRow(call) => c \in Request,
           Pends(call) => call.p \in Active
    PROVE  Inv'
<1>1. RowsKept /\ KeysKept
  BY Same
<1>2. begun' \in Nat /\ calls' = [calls EXCEPT ![c] = call]
  BY Begun
<1>3. OthersKept
  BY <1>2 DEF Inv, TypeOK, OthersKept
<1>4. CallsKept
  BY <1>1, <1>2, CallMoves
<1> QED BY <1>1, <1>3, <1>4, Kept

LEMMA BeginsKeeps ==
    ASSUME Inv, NEW c \in Request, Begins(c)
    PROVE  Inv'
<1>1. c \in Caller /\ TypeOK
  BY DEF Caller, Inv
<1>2. ASSUME NEW p \in Project, ReserveSlot(c, p) \/ ClaimSlot(c, p) \/ RestoreSlot(c, p)
      PROVE  Inv'
  BY <1>2, SlotStepsKeep
<1>3. ASSUME NEW p \in Project, ProvisionUnclaimed(c, p) PROVE Inv'
  <2> DEFINE call == CallOf("provision", p, "save")
  <2>1. call \in Call /\ call.at = "save" /\ call.op = "provision" /\ call.p = p
    BY CallOfIsCall DEF Op, Step
  <2>2. Begin(c, call) /\ minted' \in 0..MaxProject
        /\ UNCHANGED <<rows, offered, facts, keys, faults>>
    BY <1>3 DEF ProvisionUnclaimed, Project
  <2> HIDE DEF call
  <2>3. Fits(call) /\ ~Pends(call)
    BY <2>1 DEF Fits, Pends
  <2> QED BY <1>1, <2>1, <2>2, <2>3, CallBegins
<1>4. ASSUME NEW p \in Project, NEW op \in Op, Edit(c, op, p) PROVE Inv'
  <2> DEFINE call == [CallOf(op, p, "write") EXCEPT !.row = rows[p]]
  <2>1. rows[p] \in Row /\ CallOf(op, p, "write") \in Call
    BY <1>1, CallOfIsCall DEF TypeOK, Step
  <2>2. call \in Call /\ call.at = "write" /\ call.op = op /\ call.p = p
    BY <2>1, CallOfIsCall DEF Call, Step
  <2>3. ~Refuses(op, rows[p]) /\ op \notin {"claim", "restore"}
    BY <1>4 DEF Edit
  <2>4. p \in Active
    <3>1. rows[p] # NoRow /\ ~rows[p].archived /\ rows[p].claimed
      BY <2>3, Zenon DEF Refuses
    <3> QED BY <3>1 DEF Active, InWorkspace, Exists
  <2>5. Begin(c, call) /\ UNCHANGED <<rows, minted, offered, facts, keys, faults>>
    BY <1>4 DEF Edit, projectVars
  <2> HIDE DEF call
  <2>6. Fits(call) /\ call.p \in Active
    BY <2>2, <2>4 DEF Fits
  <2> QED BY <1>1, <2>2, <2>5, <2>6, CallBegins DEF TypeOK
<1>5. ASSUME NEW p \in Project, DeleteBegins(c, p) PROVE Inv'
  <2> DEFINE listed == {k \in KeysOf(p) : keys[k].state # "revoked"}
      call == [CallOf("delete", p, "revokeListed") EXCEPT !.list = listed]
  <2>1. listed \in SUBSET Nat /\ CallOf("delete", p, "revokeListed") \in Call
    BY <1>1, CallOfIsCall DEF TypeOK, Step, Op, Live, KeysOf
  <2>2. call \in Call /\ call.at = "revokeListed" /\ call.p = p
    BY <2>1, CallOfIsCall DEF Call, Step, Op
  <2>3. Begin(c, call) /\ UNCHANGED <<rows, minted, offered, facts, keys, faults>>
    BY <1>5 DEF DeleteBegins, projectVars
  <2> HIDE DEF call
  <2>4. Fits(call) /\ ~Pends(call) /\ ~WritesRow(call)
    BY <2>2 DEF Fits, Pends, WritesRow
  <2> QED BY <1>1, <2>2, <2>3, <2>4, CallBegins DEF TypeOK
<1>6. ASSUME NEW p \in Project, NEW op \in Op, IssueBegins(c, op, p) PROVE Inv'
  <2> DEFINE call == CallOf(op, p, "issue")
  <2>1. call \in Call /\ call.at = "issue" /\ call.p = p
    BY CallOfIsCall DEF Op, Step
  <2>2. Begin(c, call) /\ UNCHANGED <<rows, minted, offered, facts, keys, faults>>
    BY <1>6 DEF IssueBegins, projectVars
  <2> HIDE DEF call
  <2>3. Fits(call) /\ ~Pends(call) /\ ~WritesRow(call)
    BY <2>1 DEF Fits, Pends, WritesRow
  <2> QED BY <1>1, <2>1, <2>2, <2>3, CallBegins DEF TypeOK
<1>7. ASSUME NEW k \in DOMAIN keys, RevokeBegins(c, k) \/ RotateBegins(c, k) PROVE Inv'
  <2>1. PICK op \in {"revoke", "rotate"} :
            Begin(c, [CallOf(op, keys[k].project, op) EXCEPT !.k = k])
    BY <1>7 DEF RevokeBegins, RotateBegins
  <2> DEFINE p == keys[k].project
             call == [CallOf(op, p, op) EXCEPT !.k = k]
  <2>2. p \in Project /\ k \in Nat /\ CallOf(op, p, op) \in Call
    <3>1. keys[k] \in KeyRow /\ k \in Nat
      BY <1>1 DEF TypeOK
    <3>2. p \in Project
      BY <3>1 DEF KeyRow
    <3> QED BY <3>1, <3>2, CallOfIsCall DEF Op, Step
  <2>3. call \in Call /\ call.at = op /\ call.p = p /\ call.k = k
    BY <2>2, CallOfIsCall DEF Call, Op, Step
  <2>4. Begin(c, call) /\ UNCHANGED <<rows, minted, offered, facts, keys, faults>>
    BY <1>7, <2>1 DEF RevokeBegins, RotateBegins, projectVars
  <2> HIDE DEF call
  <2>5. Fits(call) /\ ~Pends(call) /\ ~WritesRow(call)
    BY <2>2, <2>3 DEF Fits, Pends, WritesRow
  <2> QED BY <1>1, <2>3, <2>4, <2>5, CallBegins DEF TypeOK
<1> QED BY <1>2, <1>3, <1>4, <1>5, <1>6, <1>7 DEF Begins

-----------------------------------------------------------------------------
(* A call proceeds *)

\* A step that moves one call and writes no row.
LEMMA RowsAside ==
    ASSUME Inv, CallsKept, KeysKept, UNCHANGED <<rows, minted, faults, begun>>,
           offered' \in SUBSET Project, UNCHANGED facts
    PROVE  Inv'
BY Same, Kept DEF OthersKept, Inv, TypeOK

\* A step that writes the row of one project, which stays in the account.
LEMMA RowIsWritten ==
    ASSUME Inv, CallsKept, NEW p \in Project, NEW row \in Row,
           rows' = [rows EXCEPT ![p] = row],
           row.claimed /\ ~row.archived => p \in Active \cup Pending,
           UNCHANGED <<minted, offered, keys, faults, begun>>,
           facts' \in SUBSET ({"made", "deleted"} \X Project)
    PROVE  Inv'
<1>1. /\ rows' \in [Project -> Row] /\ rows'[p] = row
      /\ \A q \in Project \ {p} : rows'[q] = rows[q]
  BY DEF Inv, TypeOK
<1>2. Active' \subseteq Active \cup Pending
  BY <1>1 DEF Active, InWorkspace, Exists
<1>3. OthersKept /\ KeysKept
  BY Same DEF Inv, TypeOK, OthersKept
<1> QED BY <1>1, <1>2, <1>3, Kept DEF RowsKept

LEMMA CreationKeeps ==
    ASSUME Inv, NEW c \in Caller,
           SaveProject(c) \/ CheckPlacement(c) \/ IssueRefused(c) \/ Mint(c)
             \/ MintExcess(c) \/ RevokeExcess(c) \/ Undo(c)
    PROVE  Inv'
<1> DEFINE p == calls[c].p
<1>1. TypeOK /\ calls[c] \in Call /\ (UNCHANGED keys => KeysKept)
      /\ (calls[c].at # "idle" => p \in Project)
  BY Same DEF Inv, TypeOK, Shape, Fits
<1>2. CASE SaveProject(c)
  <2> DEFINE claimed == calls[c].op = "create"
  <2>1. p \in Project /\ UNCHANGED keys /\ calls[c].at = "save"
    BY <1>1, <1>2 DEF SaveProject
  <2>2. c \in Request
    BY <2>1 DEF Inv, SweeperWritesNoRow, WritesRow, Caller
  <2>3. CallsKept
    BY <1>1, <1>2, <2>1, CallGoes DEF SaveProject, Step
  <2>4. claimed => p \in Pending
    BY <2>1, <2>2 DEF Pending, PendingIn, Pends
  <2>5. Created(claimed) \in Row /\ Created(claimed).claimed = claimed
    BY RowTypes
  <2>6. facts' \in SUBSET ({"made", "deleted"} \X Project)
    BY <1>1, <1>2, <2>1 DEF SaveProject, TypeOK
  <2>7. rows' = [rows EXCEPT ![p] = Created(claimed)]
        /\ UNCHANGED <<minted, offered, keys, faults, begun>>
    BY <1>2 DEF SaveProject
  <2> HIDE DEF p, claimed
  <2> QED BY <2>1, <2>3, <2>4, <2>5, <2>6, <2>7, RowIsWritten
<1>3. CASE CheckPlacement(c)
  <2>1. CallsKept
    <3>1. CASE PlacedRight(c)
      BY <1>1, <1>3, <3>1, CallGoes DEF CheckPlacement, Step
    <3>2. CASE ~PlacedRight(c)
      BY <1>1, <1>3, <3>2, CallFallsBack DEF CheckPlacement
    <3> QED BY <3>1, <3>2
  <2> QED BY <1>1, <1>3, <2>1, RowsAside DEF CheckPlacement, projectVars, TypeOK
<1>4. CASE IssueRefused(c)
  <2>1. CallsKept /\ KeysKept
    BY <1>1, <1>4, CallFallsBack DEF IssueRefused
  <2>2. RowsKept /\ OthersKept
    BY <1>1, <1>4, Same DEF IssueRefused, projectVars, Fault, TypeOK
  <2> QED BY <2>1, <2>2, Kept
<1>5. ASSUME calls[c].at = "mint" PROVE NewKey(p, KindOf(c), Home(calls[c].op # "provision")) \in KeyRow
  BY <1>1, <1>5 DEF NewKey, KindOf, Home, KeyRow
<1>6. CASE Mint(c)
  <2>1. KeysKept
    BY <1>1, <1>5, <1>6, KeyIsAdded DEF Mint, TypeOK
  <2>2. CallsKept
    BY <1>6, <2>1, CallAnswers DEF Mint
  <2>3. offered' \in SUBSET Project
    BY <1>1, <1>6 DEF Mint, TypeOK
  <2> QED BY <1>6, <2>1, <2>2, <2>3, RowsAside DEF Mint
<1>7. CASE MintExcess(c)
  <2>1. KeysKept
    BY <1>1, <1>5, <1>7, KeyIsAdded DEF MintExcess, TypeOK
  <2> DEFINE call == [calls[c] EXCEPT !.at = "excess", !.k = Len(keys) + 1]
  <2>2. Len(keys) + 1 \in Nat
    BY <1>1, LenProperties DEF TypeOK
  <2>3. call \in Call /\ call.at = "excess" /\ call.p = p /\ p \in Project
    BY <1>1, <1>7, <2>2 DEF MintExcess, Call, Step
  <2>4. calls' = [calls EXCEPT ![c] = call]
    BY <1>1, <1>7 DEF MintExcess, TypeOK
  <2> HIDE DEF call, p
  <2>5. CallsKept
    BY <2>1, <2>3, <2>4, CallMoves DEF Fits, WritesRow, Pends
  <2>6. RowsKept /\ OthersKept
    BY <1>1, <1>7, Same DEF MintExcess, projectVars, Fault, TypeOK
  <2> QED BY <2>1, <2>5, <2>6, Kept
<1>8. CASE RevokeExcess(c)
  <2>1. KeysKept
    BY <1>1, <1>8, StateIsSet DEF RevokeExcess, TypeOK
  <2>2. CallsKept
    BY <1>8, <2>1, CallFallsBack DEF RevokeExcess
  <2> QED BY <1>1, <1>8, <2>1, <2>2, RowsAside DEF RevokeExcess, projectVars, TypeOK
<1>9. CASE Undo(c)
  <2>1. p \in Project /\ CallsKept
    BY <1>1, <1>9, CallAnswers DEF Undo
  <2>2. facts' \in SUBSET ({"made", "deleted"} \X Project)
    BY <1>1, <1>9, <2>1 DEF Undo, TypeOK
  <2>3. rows' = [rows EXCEPT ![p] = NoRow] /\ UNCHANGED <<minted, offered, keys, faults, begun>>
    BY <1>9 DEF Undo
  <2> HIDE DEF p
  <2> QED BY <2>1, <2>2, <2>3, RowTypes, RowIsWritten
<1> QED BY <1>2, <1>3, <1>4, <1>6, <1>7, <1>8, <1>9

LEMMA EditKeeps ==
    ASSUME Inv, NEW c \in Caller, Find(c) \/ ClaimRefused(c) \/ Write(c) \/ ReassignKeys(c)
    PROVE  Inv'
<1> DEFINE p == calls[c].p
           op == calls[c].op
<1>1. TypeOK /\ calls[c] \in Call /\ (UNCHANGED keys => KeysKept)
      /\ (calls[c].at # "idle" => p \in Project)
  BY Same DEF Inv, TypeOK, Shape, Fits
<1>2. calls[c].at \in {"find", "write"} => c \in Request
  BY DEF Inv, SweeperWritesNoRow, WritesRow, Caller
<1>3. CASE Find(c)
  <2>1. KeysKept /\ p \in Project /\ rows[p] \in Row /\ c \in Request /\ calls[c].at = "find"
    BY <1>1, <1>2, <1>3 DEF Find, TypeOK
  <2>2. CASE Refuses(op, rows[p])
    <3>1. CallsKept
      BY <1>3, <2>1, <2>2, CallAnswers DEF Find
    <3> QED BY <1>1, <1>3, <2>1, <3>1, RowsAside DEF Find, projectVars, TypeOK
  <2>3. CASE ~Refuses(op, rows[p])
    <3> DEFINE call == [calls[c] EXCEPT !.at = "write", !.row = rows[p]]
    <3>1. call \in Call /\ call.at = "write" /\ call.p = p
      BY <1>1, <2>1 DEF Call, Step
    <3>2. calls' = [calls EXCEPT ![c] = call]
      BY <1>1, <1>3, <2>3 DEF Find, TypeOK
    <3> HIDE DEF call
    <3>3. Fits(call) /\ Pends(calls[c])
      BY <2>1, <3>1 DEF Fits, Pends
    <3>4. CallsKept
      BY <2>1, <3>1, <3>2, <3>3, CallMoves
    <3> QED BY <1>1, <1>3, <2>1, <3>4, RowsAside DEF Find, projectVars, TypeOK
  <2> QED BY <2>2, <2>3
<1>4. CASE ClaimRefused(c)
  <2>1. KeysKept /\ CallsKept
    BY <1>1, <1>4, CallAnswers DEF ClaimRefused
  <2> QED BY <1>1, <1>4, <2>1, RowsAside DEF ClaimRefused, projectVars, TypeOK
<1>5. CASE Write(c)
  <2> DEFINE row == Decided(op, calls[c].row)
  <2>1. KeysKept /\ p \in Project /\ c \in Request /\ calls[c].at = "write"
    BY <1>1, <1>2, <1>5 DEF Write
  <2>2. calls[c].row \in Row
    BY <1>1 DEF Call
  <2>3. row \in Row /\ (op = "archive" => row.archived = TRUE)
    BY <2>2, DecidedIsRow
  <2>4. op # "archive" => p \in Pending
    BY <2>1 DEF Pending, PendingIn, Pends
  <2>5. CallsKept
    <3>1. CASE op = "claim"
      BY <1>5, <2>1, <3>1, CallGoes DEF Write, Step
    <3>2. CASE op # "claim"
      BY <1>5, <2>1, <3>2, CallAnswers DEF Write
    <3> QED BY <3>1, <3>2
  <2>6. facts' \in SUBSET ({"made", "deleted"} \X Project)
    BY <1>1, <1>5, <2>1 DEF Write, TypeOK
  <2>7. rows' = [rows EXCEPT ![p] = row] /\ UNCHANGED <<minted, offered, keys, faults, begun>>
    BY <1>5 DEF Write
  <2> HIDE DEF p, row, op
  <2> QED BY <2>1, <2>3, <2>4, <2>5, <2>6, <2>7, RowIsWritten
<1>6. CASE ReassignKeys(c)
  <2>1. KeysKept
    BY <1>1, <1>6, KeysMove DEF ReassignKeys, TypeOK
  <2>2. CallsKept
    BY <1>6, <2>1, CallAnswers DEF ReassignKeys
  <2> QED BY <1>1, <1>6, <2>1, <2>2, RowsAside DEF ReassignKeys, projectVars, TypeOK
<1> QED BY <1>3, <1>4, <1>5, <1>6

LEMMA DeletionKeeps ==
    ASSUME Inv, NEW c \in Caller, (\E k \in DOMAIN keys : RevokeListed(c, k)) \/ DeleteRow(c)
    PROVE  Inv'
<1> DEFINE p == calls[c].p
<1>1. TypeOK /\ calls[c] \in Call /\ (UNCHANGED keys => KeysKept)
      /\ (calls[c].at # "idle" => p \in Project)
  BY Same DEF Inv, TypeOK, Shape, Fits
<1>2. ASSUME NEW k \in DOMAIN keys, RevokeListed(c, k) PROVE Inv'
  <2> DEFINE call == [calls[c] EXCEPT !.list = @ \ {k}]
  <2>1. KeysKept
    BY <1>1, <1>2, StateIsSet DEF RevokeListed, TypeOK
  <2>2. call \in Call /\ call.at = "revokeListed" /\ call.p = p /\ p \in Project
    BY <1>1, <1>2 DEF RevokeListed, Call
  <2>3. calls' = [calls EXCEPT ![c] = call]
    BY <1>1, <1>2 DEF RevokeListed, TypeOK
  <2> HIDE DEF call, p
  <2>4. CallsKept
    BY <2>1, <2>2, <2>3, CallMoves DEF Fits, WritesRow, Pends
  <2> QED BY <1>1, <1>2, <2>1, <2>4, RowsAside DEF RevokeListed, projectVars, TypeOK
<1>3. CASE DeleteRow(c)
  <2>1. p \in Project /\ CallsKept
    BY <1>1, <1>3, CallAnswers DEF DeleteRow
  <2>2. facts' \in SUBSET ({"made", "deleted"} \X Project)
    BY <1>1, <1>3, <2>1 DEF DeleteRow, TypeOK
  <2>3. rows' = [rows EXCEPT ![p] = NoRow] /\ UNCHANGED <<minted, offered, keys, faults, begun>>
    BY <1>3 DEF DeleteRow
  <2> HIDE DEF p
  <2> QED BY <2>1, <2>2, <2>3, RowTypes, RowIsWritten
<1> QED BY <1>2, <1>3

LEMMA RetiredStaysRevoked ==
    ASSUME NEW state \in {"active", "expiring", "expired", "revoked"}, NEW was
    PROVE  /\ Retired(state, was) \in {"active", "expiring", "expired", "revoked"}
           /\ state = "revoked" => Retired(state, was) = "revoked"
BY DEF Retired

LEMMA KeyStepsKeep ==
    ASSUME Inv, NEW c \in Caller,
           Revoke(c) \/ RotateReads(c) \/ RotateMints(c) \/ Retire(c)
    PROVE  Inv'
<1>1. TypeOK /\ calls[c] \in Call /\ (UNCHANGED keys => KeysKept) /\ Fits(calls[c])
  BY Same DEF Inv, TypeOK, Shape
<1>2. CASE Revoke(c)
  <2>1. KeysKept
    BY <1>1, <1>2, StateIsSet DEF Revoke, TypeOK
  <2>2. CallsKept
    BY <1>2, <2>1, CallAnswers DEF Revoke
  <2> QED BY <1>1, <1>2, <2>1, <2>2, RowsAside DEF Revoke, projectVars, TypeOK
<1>3. CASE RotateReads(c)
  <2> DEFINE old == keys[calls[c].k]
             call == [calls[c] EXCEPT !.at = "replace", !.key = old]
  <2>1. KeysKept /\ old \in KeyRow /\ calls[c].p \in Project
    BY <1>1, <1>3 DEF RotateReads, Fits, TypeOK
  <2>2. CASE old.state = "revoked"
    <3>1. CallsKept
      BY <1>3, <2>1, <2>2, CallAnswers DEF RotateReads
    <3> QED BY <1>1, <1>3, <2>1, <3>1, RowsAside DEF RotateReads, projectVars, TypeOK
  <2>3. CASE old.state # "revoked"
    <3>1. call \in Call /\ call.at = "replace" /\ call.p = calls[c].p /\ call.key = old
      BY <1>1, <2>1 DEF Call, Step
    <3>2. calls' = [calls EXCEPT ![c] = call]
      BY <1>1, <1>3, <2>3 DEF RotateReads, TypeOK
    <3> HIDE DEF call, old
    <3>3. Fits(call) /\ ~WritesRow(call) /\ ~Pends(call)
      BY <2>1, <3>1 DEF Fits, WritesRow, Pends
    <3>4. CallsKept
      BY <2>1, <3>1, <3>2, <3>3, CallMoves
    <3> QED BY <1>1, <1>3, <2>1, <3>4, RowsAside DEF RotateReads, projectVars, TypeOK
  <2> QED BY <2>2, <2>3
<1>4. CASE RotateMints(c)
  <2>1. calls[c].key \in KeyRow /\ calls[c].at = "replace"
    BY <1>1, <1>4 DEF RotateMints, Fits
  <2>2. NewKey(calls[c].key.project, calls[c].key.kind, calls[c].key.home) \in KeyRow
    BY <2>1 DEF NewKey, KeyRow
  <2>3. KeysKept
    BY <1>1, <1>4, <2>2, KeyIsAdded DEF RotateMints, TypeOK
  <2>4. CallsKept
    BY <1>4, <2>1, <2>3, CallGoes DEF RotateMints, Step
  <2> QED BY <1>1, <1>4, <2>3, <2>4, RowsAside DEF RotateMints, projectVars, TypeOK
<1>5. CASE Retire(c)
  <2> DEFINE k == calls[c].k
             s == IF k \in DOMAIN keys THEN Retired(keys[k].state, calls[c].key.state)
                  ELSE "revoked"
  <2>1. /\ s \in {"active", "expiring", "expired", "revoked"}
        /\ k \in DOMAIN keys /\ keys[k].state = "revoked" => s = "revoked"
    <3>1. ASSUME k \in DOMAIN keys
          PROVE  keys[k].state \in {"active", "expiring", "expired", "revoked"}
      <4>1. keys[k] \in KeyRow
        BY <1>1, <3>1 DEF TypeOK
      <4> QED BY <4>1 DEF KeyRow
    <3> QED BY <3>1, RetiredStaysRevoked
  <2>2. keys' = [keys EXCEPT ![k].state = s]
    <3>1. keys' = [keys EXCEPT ![k].state = Retired(keys[k].state, calls[c].key.state)]
      BY <1>5 DEF Retire
    <3>2. CASE k \in DOMAIN keys
      BY <3>1, <3>2
    <3>3. CASE k \notin DOMAIN keys
      BY <1>1, <3>1, <3>3 DEF TypeOK
    <3> QED BY <3>2, <3>3
  <2> HIDE DEF s, k
  <2>3. KeysKept
    BY <1>1, <2>1, <2>2, StateIsSet DEF TypeOK
  <2>4. CallsKept
    BY <1>5, <2>3, CallAnswers DEF Retire
  <2> QED BY <1>1, <1>5, <2>3, <2>4, RowsAside DEF Retire, projectVars, TypeOK
<1> QED BY <1>2, <1>3, <1>4, <1>5

-----------------------------------------------------------------------------
(* The whole *)

LEMMA ProceedsKeeps ==
    ASSUME Inv, NEW c \in Caller, Proceeds(c)
    PROVE  Inv'
BY CreationKeeps, EditKeeps, DeletionKeeps, KeyStepsKeep DEF Proceeds

LEMMA DiesKeeps ==
    ASSUME Inv, NEW c \in Caller, Dies(c)
    PROVE  Inv'
<1>1. KeysKept /\ RowsKept /\ OthersKept
  BY Same DEF Dies, Fault, projectVars, Inv, TypeOK
<1>2. CallsKept
  BY <1>1, CallAnswers DEF Dies
<1> QED BY <1>1, <1>2, Kept

LEMMA SweeperKeeps ==
    ASSUME Inv, Repair \/ (\E p \in Project : SweepFinds(p))
    PROVE  Inv'
<1>1. Sweeper \in Caller /\ TypeOK
  BY DEF Caller, Inv
<1>2. ASSUME NEW p \in Project, SweepFinds(p) PROVE Inv'
  <2> DEFINE call == CallOf("repair", p, "repair")
  <2>1. call \in Call /\ call.at = "repair" /\ call.p = p
    BY CallOfIsCall DEF Op, Step
  <2>2. Begin(Sweeper, call) /\ UNCHANGED <<rows, minted, offered, facts, keys, faults>>
    BY <1>2 DEF SweepFinds, projectVars
  <2> HIDE DEF call
  <2>3. Fits(call) /\ ~Pends(call) /\ ~WritesRow(call)
    BY <2>1 DEF Fits, Pends, WritesRow
  <2> QED BY <1>1, <2>1, <2>2, <2>3, CallBegins DEF TypeOK
<1>3. CASE Repair
  <2>1. KeysKept /\ CallsKept
    <3>1. KeysKept
      BY <1>3, Same DEF Repair
    <3>2. CASE Goes(Sweeper, "issue")
      BY <1>1, <1>3, <3>1, <3>2, CallGoes DEF Repair, Step
    <3>3. CASE Answers(Sweeper)
      BY <1>1, <3>1, <3>3, CallAnswers
    <3> QED BY <1>3, <3>1, <3>2, <3>3 DEF Repair
  <2> QED BY <1>1, <1>3, <2>1, RowsAside DEF Repair, projectVars, TypeOK
<1> QED BY <1>2, <1>3

LEMMA Initially == Init => Inv
<1> SUFFICES ASSUME Init PROVE Inv
  OBVIOUS
<1>1. Idle \in Call /\ Idle.at = "idle" /\ \A c \in Caller : calls[c] = Idle
  BY IdleIsCall DEF Init
<1>2. Shape /\ SweeperWritesNoRow
  BY <1>1 DEF Shape, Fits, SweeperWritesNoRow, WritesRow, Caller
<1>3. TypeOK
  <2>1. keys \in Seq(KeyRow)
    BY EmptySeq DEF Init
  <2>2. rows \in [Project -> Row]
    BY RowTypes DEF Init
  <2>3. calls \in [Caller -> Call]
    BY <1>1 DEF Init
  <2>4. minted \in 0..MaxProject /\ faults \in Nat /\ begun \in Nat
    BY ProjectsAssumption DEF Init
  <2> QED BY <1>1, <2>1, <2>2, <2>3, <2>4 DEF Init, TypeOK
<1>4. Bounded
  <2>1. Active = {}
    BY DEF Init, Active, InWorkspace, Exists
  <2>2. HasSlot
    BY <2>1, FS_EmptySet, ProjectsAssumption DEF HasSlot
  <2> QED BY <2>2, SlotsSuffice DEF Bounded, Pending
<1> QED BY <1>2, <1>3, <1>4 DEF Inv

LEMMA StepKeeps == Inv /\ [Next]_vars => Inv'
<1> SUFFICES ASSUME Inv, [Next]_vars PROVE Inv'
  OBVIOUS
<1>1. ASSUME NEW c \in Request, Begins(c) PROVE Inv'
  BY <1>1, BeginsKeeps
<1>2. ASSUME NEW c \in Caller, Proceeds(c) \/ Dies(c) PROVE Inv'
  BY <1>2, ProceedsKeeps, DiesKeeps
<1>3. CASE Repair \/ \E p \in Project : SweepFinds(p)
  BY <1>3, SweeperKeeps
<1>4. ASSUME NEW k \in DOMAIN keys, KeyExpires(k) PROVE Inv'
  <2>1. KeysKept
    BY <1>4, StateIsSet DEF KeyExpires, Inv, TypeOK
  <2>2. RowsKept /\ OthersKept
    BY <1>4, Same DEF KeyExpires, projectVars, Inv, TypeOK
  <2>3. CallsKept
    BY <1>4, <2>1
       DEF KeyExpires, KeysKept, CallsKept, Inv, TypeOK, Shape, Fits, SweeperWritesNoRow,
           WritesRow, Pending, PendingIn, Pends
  <2> QED BY <2>1, <2>2, <2>3, Kept
<1>5. CASE Finished \/ UNCHANGED vars
  <2>1. UNCHANGED vars
    BY <1>5 DEF Finished
  <2>2. KeysKept /\ RowsKept /\ OthersKept
    BY <2>1, Same DEF vars, Inv, TypeOK
  <2>3. CallsKept
    BY <2>1
       DEF vars, CallsKept, Inv, TypeOK, Shape, Fits, SweeperWritesNoRow, WritesRow,
           Pending, PendingIn, Pends
  <2> QED BY <2>2, <2>3, Kept
<1> QED BY <1>1, <1>2, <1>3, <1>4, <1>5 DEF Next

\* No step takes a revocation back, a rotation that read the key before least.
LEMMA StepKeepsRevoked == Inv /\ [Next]_vars => KeysKept
<1> SUFFICES ASSUME Inv, [Next]_vars PROVE KeysKept
  OBVIOUS
<1>1. keys \in Seq(KeyRow) /\ (UNCHANGED keys => KeysKept)
  BY Same DEF Inv, TypeOK
<1>2. ASSUME NEW c \in Caller, Proceeds(c), keys' # keys PROVE KeysKept
  <2>1. c \in Caller /\ calls[c] \in Call /\ Fits(calls[c])
    BY DEF Inv, TypeOK, Shape
  <2>2. CASE Mint(c) \/ MintExcess(c)
    <3>1. calls[c].p \in Project
      BY <2>1, <2>2 DEF Mint, MintExcess, Fits
    <3>2. NewKey(calls[c].p, KindOf(c), Home(calls[c].op # "provision")) \in KeyRow
      BY <3>1 DEF NewKey, KindOf, Home, KeyRow
    <3> QED BY <1>1, <2>2, <3>2, KeyIsAdded DEF Mint, MintExcess
  <2>3. CASE RotateMints(c)
    <3>1. NewKey(calls[c].key.project, calls[c].key.kind, calls[c].key.home) \in KeyRow
      BY <2>1, <2>3 DEF RotateMints, Fits, NewKey, KeyRow
    <3> QED BY <1>1, <2>3, <3>1, KeyIsAdded DEF RotateMints
  <2>4. CASE ReassignKeys(c)
    BY <1>1, <2>4, KeysMove DEF ReassignKeys
  <2>5. CASE RevokeExcess(c) \/ Revoke(c) \/ \E k \in DOMAIN keys : RevokeListed(c, k)
    BY <1>1, <2>5, StateIsSet DEF RevokeExcess, Revoke, RevokeListed
  <2>6. CASE Retire(c)
    <3> DEFINE k == calls[c].k
    <3>1. keys' = [keys EXCEPT ![k].state = Retired(keys[k].state, calls[c].key.state)]
      BY <2>6 DEF Retire
    <3>2. k \in DOMAIN keys
      BY <1>1, <1>2, <3>1
    <3>3. keys[k] \in KeyRow
      BY <1>1, <3>2
    <3>4. keys[k].state \in {"active", "expiring", "expired", "revoked"}
      BY <3>3 DEF KeyRow
    <3> HIDE DEF k
    <3> QED BY <1>1, <3>1, <3>2, <3>4, RetiredStaysRevoked, StateIsSet
  <2>7. CASE /\ ~Mint(c) /\ ~MintExcess(c) /\ ~RotateMints(c) /\ ~ReassignKeys(c)
             /\ ~RevokeExcess(c) /\ ~Revoke(c) /\ ~Retire(c)
             /\ ~\E k \in DOMAIN keys : RevokeListed(c, k)
    BY <1>2, <2>7
       DEF Proceeds, SaveProject, CheckPlacement, IssueRefused, Undo, Find, ClaimRefused,
           Write, DeleteRow, RotateReads
  <2> QED BY <2>2, <2>3, <2>4, <2>5, <2>6, <2>7
<1>3. ASSUME NEW k \in DOMAIN keys, KeyExpires(k) PROVE KeysKept
  BY <1>1, <1>3, StateIsSet DEF KeyExpires
<1>4. ASSUME NEW c \in Request, Begins(c) PROVE UNCHANGED keys
  BY <1>4
     DEF Begins, ReserveSlot, ProvisionUnclaimed, ClaimSlot, RestoreSlot, Edit, DeleteBegins,
         IssueBegins, RevokeBegins, RotateBegins
<1>5. ASSUME NEW c \in Caller, Dies(c) PROVE UNCHANGED keys
  BY <1>5 DEF Dies
<1>6. CASE Repair \/ Finished \/ UNCHANGED vars \/ \E p \in Project : SweepFinds(p)
  BY <1>1, <1>6 DEF Repair, Finished, vars, SweepFinds
<1> QED BY <1>1, <1>2, <1>3, <1>4, <1>5, <1>6 DEF Next

-----------------------------------------------------------------------------
\* The account of the slots, with the types of everything, holds in every
\* reachable state.
THEOREM InvHolds == Spec => []Inv
BY Initially, StepKeeps, PTL DEF Spec

\* Every row, key and call in flight has its type.
THEOREM TypesHold == Spec => []TypeOK
<1>1. Inv => TypeOK
  BY DEF Inv
<1> QED BY <1>1, InvHolds, PTL

\* router/projects.ts:107: the cap is passed by no more projects than requests
\* can be in flight, less one.
THEOREM OvershootIsBounded == Spec => []OvershootBounded
<1>1. Inv => OvershootBounded
  <2> SUFFICES ASSUME Inv PROVE OvershootBounded
    OBVIOUS
  <2>1. IsFiniteSet(Active \cup Pending) /\ Cardinality(Active \cup Pending) \in Nat
    BY ActiveIsFinite, PendingIsFinite, FS_Union, FS_CardinalityType DEF Pending
  <2>2. Cardinality(Active) <= Cardinality(Active \cup Pending)
    BY <2>1, FS_Subset
  <2>3. Cap \in Nat /\ Cardinality(Request) \in Nat
    BY ProjectsAssumption, PendingIsFinite
  <2> QED BY <2>1, <2>2, <2>3, ActiveIsFinite DEF Inv, Bounded, OvershootBounded
<1> QED BY <1>1, InvHolds, PTL

\* credential-store.ts rotate and revoke: a revoked key stays revoked, whatever
\* a rotation of it read before.
THEOREM RevocationsHold == Spec => RevokedStaysRevoked
<1>1. Inv /\ [Next]_vars =>
        [\A k \in DOMAIN keys :
             keys[k].state = "revoked" => keys'[k].state = "revoked"]_vars
  BY StepKeepsRevoked DEF KeysKept
<1> QED BY <1>1, InvHolds, PTL DEF Spec, RevokedStaysRevoked

-----------------------------------------------------------------------------
(***************************************************************************)
(* What the outbox is told.  A project whose row goes without a word is    *)
(* one that nobody was told of: only the call that provisioned it takes it *)
(* away silently, and while that call is under way its claim token has not *)
(* been handed out, so that no claim can have announced it.  Ids are       *)
(* fresh, so no other call works on the same new project.                  *)
(***************************************************************************)

Making(call) == call.op \in {"create", "provision"}

\* What a call in flight implies of the ids, the tokens and the facts.
Told(call, ids, tokens, known) ==
    /\ Making(call) => call.p <= ids
    /\ call.op = "provision" => call.p \notin tokens /\ <<"made", call.p>> \notin known
    /\ call.op = "claim" => call.p \in tokens
    /\ call.at = "write" /\ call.op = "archive" => call.row.claimed

Fresh == offered \subseteq 1..minted /\ \A p \in Project : <<"made", p>> \in facts => p <= minted

OneMaker ==
    \A c, d \in Caller :
        Making(calls[c]) /\ Making(calls[d]) /\ calls[c].p = calls[d].p => c = d

Account ==
    /\ \A c \in Caller : Told(calls[c], minted, offered, facts)
    /\ Fresh /\ OneMaker /\ DeletionIsAnnounced

\* A step of one call: what it adds names no project that another call is making.
LEMMA CallIsTold ==
    ASSUME Inv, Account, NEW c \in Caller, NEW call, calls' = [calls EXCEPT ![c] = call],
           minted' \in Nat, minted <= minted', offered \subseteq offered',
           Told(call, minted', offered', facts'), Fresh', DeletionIsAnnounced',
           \A d \in Caller \ {c} : Making(calls[d]) /\ Making(call) => call.p # calls[d].p,
           \A d \in Caller \ {c} : calls[d].op = "provision" =>
               calls[d].p \notin offered' /\ <<"made", calls[d].p>> \notin facts'
    PROVE  Account'
<1>1. /\ calls'[c] = call /\ \A d \in Caller \ {c} : calls'[d] = calls[d]
      /\ calls \in [Caller -> Call] /\ minted \in Nat
  BY DEF Inv, TypeOK
<1>2. ASSUME NEW d \in Caller PROVE Told(calls'[d], minted', offered', facts')
  <2>1. CASE d = c
    BY <1>1, <2>1
  <2>2. CASE d # c
    <3>1. Told(calls[d], minted, offered, facts) /\ calls'[d] = calls[d] /\ calls[d].p \in Nat
      BY <1>1, <2>2, ProjectsAssumption DEF Account, Call, Project, NoProject
    <3> QED BY <1>1, <2>2, <3>1 DEF Told
  <2> QED BY <2>1, <2>2
<1>3. OneMaker'
  <2> SUFFICES ASSUME NEW d \in Caller, NEW e \in Caller, Making(calls'[d]), Making(calls'[e]),
                      calls'[d].p = calls'[e].p
               PROVE  d = e
    BY DEF OneMaker, Making
  <2> QED BY <1>1 DEF Account, OneMaker
<1> QED BY <1>2, <1>3 DEF Account

\* A call that moves and tells nobody.
LEMMA Quietly ==
    ASSUME Inv, Account, UNCHANGED <<rows, minted, offered, facts>>,
           NEW c \in Caller, NEW call, calls' = [calls EXCEPT ![c] = call],
           Told(call, minted, offered, facts),
           Making(call) => Making(calls[c]) /\ call.p = calls[c].p
    PROVE  Account'
<1>1. Fresh' /\ DeletionIsAnnounced'
  BY DEF Account, Fresh, DeletionIsAnnounced, Exists
<1>2. minted \in Nat /\ minted <= minted
  BY DEF Inv, TypeOK
<1>3. \A d \in Caller \ {c} : Making(calls[d]) /\ Making(call) => call.p # calls[d].p
  BY DEF Account, OneMaker
<1>4. \A d \in Caller : calls[d].op = "provision" =>
          calls[d].p \notin offered /\ <<"made", calls[d].p>> \notin facts
  BY DEF Account, Told
<1> QED BY <1>1, <1>2, <1>3, <1>4, CallIsTold

LEMMA IdleIsTold == \A ids, tokens, known : Told(Idle, ids, tokens, known) /\ ~Making(Idle)
BY DEF Told, Making, Idle

LEMMA GoesOn ==
    ASSUME Inv, Account, UNCHANGED <<rows, minted, offered, facts>>, NEW c \in Caller,
           Answers(c) \/ \E at \in Step \ {"write"} : Goes(c, at)
    PROVE  Account'
<1>1. CASE Answers(c)
  BY <1>1, IdleIsTold, Quietly DEF Answers
<1>2. ASSUME NEW at \in Step \ {"write"}, Goes(c, at) PROVE Account'
  <2> DEFINE call == [calls[c] EXCEPT !.at = at]
  <2>1. call.at = at /\ call.op = calls[c].op /\ call.p = calls[c].p
    BY DEF Inv, TypeOK, Call
  <2>2. calls' = [calls EXCEPT ![c] = call] /\ Told(calls[c], minted, offered, facts)
    BY <1>2 DEF Goes, Account
  <2> HIDE DEF call
  <2>3. Told(call, minted, offered, facts)
    BY <2>1, <2>2 DEF Told, Making
  <2> QED BY <2>1, <2>2, <2>3, Quietly DEF Making
<1> QED BY <1>1, <1>2

LEMMA BeginsTold ==
    ASSUME Inv, Account, NEW c \in Request, Begins(c)
    PROVE  Account'
<1>1. c \in Caller /\ TypeOK /\ minted \in Nat /\ minted <= minted
  BY DEF Caller, Inv, TypeOK
<1>2. ASSUME NEW p \in Project, NEW op \in {"create", "provision"},
             p = minted + 1, Begin(c, CallOf(op, p, "save")), minted' = p,
             UNCHANGED <<rows, offered, facts>>
      PROVE  Account'
  <2> DEFINE call == CallOf(op, p, "save")
  <2>1. call.at = "save" /\ call.op = op /\ call.p = p
    BY CallOfIsCall DEF Op, Step
  <2>2. calls' = [calls EXCEPT ![c] = call] /\ p \in Nat
    BY <1>1, <1>2, Begun DEF Project
  <2> HIDE DEF call
  <2>3. p \notin offered /\ <<"made", p>> \notin facts
    BY <1>1, <1>2 DEF Account, Fresh
  <2>4. Told(call, minted', offered', facts')
    BY <1>2, <2>1, <2>2, <2>3 DEF Told
  <2>5. Fresh' /\ DeletionIsAnnounced'
    BY <1>1, <1>2 DEF Account, Fresh, DeletionIsAnnounced, Exists
  <2>6. \A d \in Caller : Making(calls[d]) => calls[d].p # p
    <3>1. \A d \in Caller : Making(calls[d]) => calls[d].p <= minted
      BY DEF Account, Told
    <3> QED BY <1>1, <1>2, <3>1
  <2>7. \A d \in Caller : calls[d].op = "provision" =>
            calls[d].p \notin offered' /\ <<"made", calls[d].p>> \notin facts'
    BY <1>2 DEF Account, Told
  <2>8. minted' \in Nat /\ minted <= minted' /\ offered \subseteq offered'
    BY <1>1, <1>2
  <2> QED BY <1>1, <2>1, <2>2, <2>4, <2>5, <2>6, <2>7, <2>8, CallIsTold
<1>3. ASSUME NEW p \in Project, ReserveSlot(c, p) \/ ProvisionUnclaimed(c, p) PROVE Account'
  BY <1>2, <1>3 DEF ReserveSlot, ProvisionUnclaimed
<1>4. ASSUME NEW call, Begin(c, call), UNCHANGED <<rows, minted, offered, facts>>,
             Told(call, minted, offered, facts), ~Making(call)
      PROVE  Account'
  BY <1>1, <1>4, Begun, Quietly
<1>5. ASSUME NEW p \in Project,
             ClaimSlot(c, p) \/ RestoreSlot(c, p) \/ \E op \in Op : IssueBegins(c, op, p)
      PROVE  Account'
  <2>1. PICK op \in {"claim", "restore", "issue", "issueService"}, at \in {"find", "issue"} :
            Begin(c, CallOf(op, p, at)) /\ (op = "claim" => p \in offered)
    BY <1>5 DEF ClaimSlot, RestoreSlot, IssueBegins
  <2>2. CallOf(op, p, at).at = at /\ CallOf(op, p, at).op = op /\ CallOf(op, p, at).p = p
    BY CallOfIsCall DEF Op, Step
  <2>3. UNCHANGED <<rows, minted, offered, facts>>
    BY <1>5 DEF ClaimSlot, RestoreSlot, IssueBegins, projectVars
  <2>4. Told(CallOf(op, p, at), minted, offered, facts) /\ ~Making(CallOf(op, p, at))
    BY <2>1, <2>2 DEF Told, Making
  <2> QED BY <1>4, <2>1, <2>3, <2>4
<1>6. ASSUME NEW p \in Project, NEW op \in Op, Edit(c, op, p) PROVE Account'
  <2> DEFINE call == [CallOf(op, p, "write") EXCEPT !.row = rows[p]]
  <2>1. CallOf(op, p, "write") \in Call
    BY CallOfIsCall DEF Step
  <2>2. call.at = "write" /\ call.op = op /\ call.p = p /\ call.row = rows[p]
    BY <2>1, CallOfIsCall DEF Call, Step
  <2>3. ~Refuses(op, rows[p]) /\ op \in {"archive", "settings"}
    BY <1>6 DEF Edit
  <2>4. rows[p].claimed
    BY <2>3, Zenon DEF Refuses
  <2>5. Begin(c, call) /\ UNCHANGED <<rows, minted, offered, facts>>
    BY <1>6 DEF Edit, projectVars
  <2> HIDE DEF call
  <2>6. Told(call, minted, offered, facts) /\ ~Making(call)
    BY <2>2, <2>3, <2>4 DEF Told, Making
  <2> QED BY <1>4, <2>5, <2>6
<1>7. ASSUME NEW p \in Project, DeleteBegins(c, p) PROVE Account'
  <2> DEFINE listed == {k \in KeysOf(p) : keys[k].state # "revoked"}
      call == [CallOf("delete", p, "revokeListed") EXCEPT !.list = listed]
  <2>1. CallOf("delete", p, "revokeListed") \in Call
    BY CallOfIsCall DEF Step, Op
  <2>2. call.at = "revokeListed" /\ call.op = "delete"
    BY <2>1, CallOfIsCall DEF Call, Step, Op
  <2>3. Begin(c, call) /\ UNCHANGED <<rows, minted, offered, facts>>
    BY <1>7 DEF DeleteBegins, projectVars
  <2> HIDE DEF call
  <2>4. Told(call, minted, offered, facts) /\ ~Making(call)
    BY <2>2 DEF Told, Making
  <2> QED BY <1>4, <2>3, <2>4
<1>8. ASSUME NEW k \in DOMAIN keys, RevokeBegins(c, k) \/ RotateBegins(c, k) PROVE Account'
  <2>1. PICK op \in {"revoke", "rotate"} :
            Begin(c, [CallOf(op, keys[k].project, op) EXCEPT !.k = k])
    BY <1>8 DEF RevokeBegins, RotateBegins
  <2> DEFINE call == [CallOf(op, keys[k].project, op) EXCEPT !.k = k]
  <2>2. call.at = op /\ call.op = op
    <3>1. keys[k] \in KeyRow
      BY <1>1 DEF TypeOK
    <3>2. keys[k].project \in Project
      BY <3>1 DEF KeyRow
    <3>3. CallOf(op, keys[k].project, op) \in Call
      BY <3>2, CallOfIsCall DEF Step, Op
    <3> QED BY <3>2, <3>3, CallOfIsCall DEF Call, Step, Op
  <2>3. UNCHANGED <<rows, minted, offered, facts>>
    BY <1>8 DEF RevokeBegins, RotateBegins, projectVars
  <2> HIDE DEF call
  <2>4. Told(call, minted, offered, facts) /\ ~Making(call)
    BY <2>2 DEF Told, Making
  <2>5. Begin(c, call)
    BY <2>1 DEF call
  <2> QED BY <1>4, <2>3, <2>4, <2>5
<1> QED BY <1>3, <1>5, <1>6, <1>7, <1>8 DEF Begins

\* A claim announces only a project whose token is out, a creation only its own.
LEMMA AnnouncementsTold ==
    ASSUME Inv, Account, NEW c \in Caller, SaveProject(c) \/ Write(c)
    PROVE  Account'
<1> DEFINE p == calls[c].p
           op == calls[c].op
<1>1. /\ TypeOK /\ calls[c] \in Call /\ p \in Project /\ p \in Nat
      /\ minted \in Nat /\ minted <= minted
      /\ Told(calls[c], minted, offered, facts)
  BY DEF Inv, TypeOK, Shape, Fits, SaveProject, Write, Account, Project
<1>2. PICK at \in {"issue", "reassign", "idle"} :
          IF at = "idle" THEN Answers(c) ELSE Goes(c, at)
  BY DEF SaveProject, Write
<1>3. PICK call : /\ calls' = [calls EXCEPT ![c] = call] /\ call.at # "write"
                  /\ call = Idle \/ (call.op = op /\ call.p = p)
  <2>1. CASE at = "idle"
    BY <1>2, <2>1 DEF Answers, Idle
  <2>2. CASE at # "idle"
    <3>1. [calls[c] EXCEPT !.at = at].at = at /\ [calls[c] EXCEPT !.at = at].op = op
          /\ [calls[c] EXCEPT !.at = at].p = p
      BY <1>1 DEF Call
    <3>2. calls' = [calls EXCEPT ![c] = [calls[c] EXCEPT !.at = at]]
      BY <1>2, <2>2 DEF Goes
    <3> QED BY <3>1, <3>2
  <2> QED BY <2>1, <2>2
<1>4. UNCHANGED <<minted, offered>>
  BY DEF SaveProject, Write
<1>5. /\ facts' = facts \/ facts' = facts \cup {<<"made", p>>}
      /\ facts' # facts => op \in {"create", "claim"}
  BY DEF SaveProject, Write
<1>6. rows' = [rows EXCEPT ![p] = rows'[p]] /\ rows'[p] # NoRow
  <2>1. CASE SaveProject(c)
    BY <1>1, <2>1 DEF SaveProject, TypeOK, Created, NoRow
  <2>2. CASE Write(c)
    <3>1. rows' = [rows EXCEPT ![p] = Decided(op, calls[c].row)] /\ calls[c].at = "write"
      BY <2>2 DEF Write
    <3>2. calls[c].row \in Row
      BY <1>1 DEF Call
    <3>3. Decided(op, calls[c].row) # NoRow
      <4>1. CASE op = "claim"
        <5>1. Decided(op, calls[c].row) = [calls[c].row EXCEPT !.claimed = TRUE]
          BY <4>1, Zenon DEF Decided
        <5> QED BY <3>2, <5>1 DEF Row, NoRow
      <4>2. CASE op = "archive"
        <5>1. Decided(op, calls[c].row) = [calls[c].row EXCEPT !.archived = TRUE]
          BY <4>2, Zenon DEF Decided
        <5>2. calls[c].row.claimed
          BY <1>1, <3>1, <4>2 DEF Told
        <5> QED BY <3>2, <5>1, <5>2 DEF Row, NoRow
      <4>3. CASE op \notin {"claim", "archive"}
        <5>1. Decided(op, calls[c].row) = [calls[c].row EXCEPT !.archived = FALSE]
          BY <4>3, Zenon DEF Decided
        <5> QED BY <3>2, <5>1 DEF Row, NoRow
      <4> QED BY <4>1, <4>2, <4>3
    <3> QED BY <1>1, <3>1, <3>3 DEF TypeOK
  <2> QED BY <2>1, <2>2
<1>7. facts' # facts => p <= minted
  BY <1>1, <1>5 DEF Told, Making, Account, Fresh
<1>8. Told(call, minted', offered', facts')
  <2>1. CASE call = Idle
    BY <2>1, IdleIsTold
  <2>2. CASE call # Idle
    BY <1>1, <1>3, <1>4, <1>5, <2>2 DEF Told, Making
  <2> QED BY <2>1, <2>2
<1>9. Fresh'
  BY <1>1, <1>4, <1>5, <1>7 DEF Account, Fresh
<1>10. DeletionIsAnnounced'
  <2> SUFFICES ASSUME NEW q \in Project, <<"made", q>> \in facts', rows'[q] = NoRow
               PROVE  <<"deleted", q>> \in facts'
    BY DEF DeletionIsAnnounced, Exists
  <2>1. q # p /\ rows[q] = NoRow
    BY <1>1, <1>6 DEF TypeOK
  <2>2. <<"made", q>> \in facts
    BY <1>5, <2>1
  <2> QED BY <1>5, <2>1, <2>2 DEF Account, DeletionIsAnnounced, Exists
<1>11. \A d \in Caller \ {c} : Making(calls[d]) /\ Making(call) => call.p # calls[d].p
  BY <1>3, IdleIsTold DEF Account, OneMaker, Making
<1>12. \A d \in Caller \ {c} : calls[d].op = "provision" =>
           calls[d].p \notin offered' /\ <<"made", calls[d].p>> \notin facts'
  <2> SUFFICES ASSUME NEW d \in Caller \ {c}, calls[d].op = "provision"
               PROVE  calls[d].p \notin offered' /\ <<"made", calls[d].p>> \notin facts'
    OBVIOUS
  <2>1. calls[d].p \notin offered /\ <<"made", calls[d].p>> \notin facts
    BY DEF Account, Told
  <2>2. facts' # facts => calls[d].p # p
    <3>1. CASE op = "create"
      BY <3>1 DEF Account, OneMaker, Making
    <3>2. CASE op = "claim"
      BY <1>1, <2>1, <3>2 DEF Told
    <3> QED BY <1>5, <3>1, <3>2
  <2> QED BY <1>4, <1>5, <2>1, <2>2
<1> HIDE DEF p, op
<1> QED BY <1>1, <1>3, <1>4, <1>8, <1>9, <1>10, <1>11, <1>12, CallIsTold

\* The answer that shows a claim token ends the call that made the project.
LEMMA TokenTold ==
    ASSUME Inv, Account, NEW c \in Caller, Mint(c)
    PROVE  Account'
<1> DEFINE p == calls[c].p
<1>1. /\ TypeOK /\ p \in Project /\ p \in Nat /\ minted \in Nat /\ minted <= minted
      /\ Told(calls[c], minted, offered, facts)
  BY DEF Inv, TypeOK, Shape, Fits, Mint, Account, Project
<1>2. /\ calls' = [calls EXCEPT ![c] = Idle] /\ UNCHANGED <<rows, minted, facts>>
      /\ offered' = offered \/ offered' = offered \cup {p}
      /\ offered' # offered => calls[c].op = "provision"
  BY DEF Mint, Answers
<1>3. Fresh' /\ DeletionIsAnnounced'
  <2>1. DeletionIsAnnounced'
    BY <1>2 DEF Account, DeletionIsAnnounced, Exists
  <2>2. offered' # offered => p \in 1..minted
    BY <1>1, <1>2 DEF Told, Making, Project
  <2> HIDE DEF p
  <2>3. offered' \subseteq 1..minted
    BY <1>2, <2>2 DEF Account, Fresh
  <2> QED BY <1>2, <2>1, <2>3 DEF Account, Fresh
<1>4. Told(Idle, minted', offered', facts') /\ ~Making(Idle)
  BY IdleIsTold
<1>5. \A d \in Caller \ {c} : calls[d].op = "provision" =>
          calls[d].p \notin offered' /\ <<"made", calls[d].p>> \notin facts'
  <2> SUFFICES ASSUME NEW d \in Caller \ {c}, calls[d].op = "provision"
               PROVE  calls[d].p \notin offered' /\ <<"made", calls[d].p>> \notin facts'
    OBVIOUS
  <2>1. calls[d].p \notin offered /\ <<"made", calls[d].p>> \notin facts
    BY DEF Account, Told
  <2>2. calls[c].op = "provision" => calls[d].p # p
    BY DEF Account, OneMaker, Making
  <2> QED BY <1>2, <2>1, <2>2
<1>6. offered \subseteq offered' /\ minted' \in Nat /\ minted <= minted'
  BY <1>1, <1>2
<1> QED BY <1>2, <1>3, <1>4, <1>5, <1>6, CallIsTold

\* A row that goes: announced, or one that nobody was told of.
LEMMA RemovalsTold ==
    ASSUME Inv, Account, NEW c \in Caller, Undo(c) \/ DeleteRow(c)
    PROVE  Account'
<1> DEFINE p == calls[c].p
<1>1. /\ TypeOK /\ p \in Project /\ minted \in Nat /\ minted <= minted
      /\ Told(calls[c], minted, offered, facts)
      /\ calls[c].at = "undo" => calls[c].op \in {"create", "provision"}
  BY DEF Inv, TypeOK, Shape, Fits, Undo, DeleteRow, Account
<1>2. /\ calls' = [calls EXCEPT ![c] = Idle] /\ UNCHANGED <<minted, offered>>
      /\ rows' = [rows EXCEPT ![p] = NoRow]
      /\ facts' = facts \/ facts' = facts \cup {<<"deleted", p>>}
  BY DEF Undo, DeleteRow, Answers
<1>3. <<"deleted", p>> \in facts' \/ <<"made", p>> \notin facts'
  <2>1. CASE DeleteRow(c)
    BY <2>1 DEF DeleteRow
  <2>2. CASE Undo(c) /\ calls[c].op = "create"
    BY <2>2 DEF Undo
  <2>3. CASE Undo(c) /\ calls[c].op # "create"
    <3>1. facts' = facts /\ calls[c].op = "provision"
      BY <1>1, <2>3 DEF Undo
    <3> QED BY <1>1, <3>1 DEF Told
  <2> QED BY <2>1, <2>2, <2>3
<1>4. DeletionIsAnnounced'
  <2> SUFFICES ASSUME NEW q \in Project, <<"made", q>> \in facts', rows'[q] = NoRow
               PROVE  <<"deleted", q>> \in facts'
    BY DEF DeletionIsAnnounced, Exists
  <2>1. CASE q = p
    BY <1>3, <2>1
  <2>2. CASE q # p
    <3>1. rows[q] = NoRow /\ <<"made", q>> \in facts
      BY <1>1, <1>2, <2>2 DEF TypeOK
    <3> QED BY <1>2, <3>1 DEF Account, DeletionIsAnnounced, Exists
  <2> QED BY <2>1, <2>2
<1>5. Fresh'
  BY <1>2 DEF Account, Fresh
<1>6. Told(Idle, minted', offered', facts') /\ ~Making(Idle)
  BY IdleIsTold
<1>7. \A d \in Caller : calls[d].op = "provision" =>
          calls[d].p \notin offered' /\ <<"made", calls[d].p>> \notin facts'
  BY <1>2 DEF Account, Told
<1>8. offered \subseteq offered' /\ minted' \in Nat /\ minted <= minted'
  BY <1>1, <1>2
<1> HIDE DEF p
<1> QED BY <1>2, <1>4, <1>5, <1>6, <1>7, <1>8, CallIsTold

LEMMA QuietStepsTold ==
    ASSUME Inv, Account, NEW c \in Caller,
           \/ CheckPlacement(c) \/ IssueRefused(c) \/ MintExcess(c) \/ RevokeExcess(c)
           \/ Find(c) \/ ClaimRefused(c) \/ ReassignKeys(c)
           \/ \E k \in DOMAIN keys : RevokeListed(c, k)
           \/ Revoke(c) \/ RotateReads(c) \/ RotateMints(c) \/ Retire(c) \/ Dies(c)
    PROVE  Account'
<1>1. UNCHANGED <<rows, minted, offered, facts>>
  BY DEF projectVars, CheckPlacement, IssueRefused, MintExcess, RevokeExcess, Find, ClaimRefused,
         ReassignKeys, RevokeListed, Revoke, RotateReads, RotateMints, Retire, Dies
<1>2. calls[c] \in Call /\ calls \in [Caller -> Call] /\ Told(calls[c], minted, offered, facts)
  BY DEF Inv, TypeOK, Account
<1>3. ASSUME NEW call, calls' = [calls EXCEPT ![c] = call],
             call.op = calls[c].op, call.p = calls[c].p, call.at # "write"
      PROVE  Account'
  <2>1. Told(call, minted, offered, facts)
    BY <1>2, <1>3 DEF Told, Making
  <2> QED BY <1>1, <1>3, <2>1, Quietly DEF Making
<1>4. CASE CheckPlacement(c) \/ IssueRefused(c) \/ RevokeExcess(c) \/ ClaimRefused(c)
             \/ ReassignKeys(c) \/ Revoke(c) \/ RotateMints(c) \/ Retire(c) \/ Dies(c)
  <2>1. Answers(c) \/ \E at \in Step \ {"write"} : Goes(c, at)
    BY <1>4
       DEF CheckPlacement, IssueRefused, RevokeExcess, AfterRefusal, ClaimRefused, ReassignKeys,
           Revoke, RotateMints, Retire, Dies, Step
  <2> QED BY <1>1, <2>1, GoesOn
<1>5. CASE MintExcess(c)
  <2> DEFINE call == [calls[c] EXCEPT !.at = "excess", !.k = Len(keys) + 1]
  <2>1. call.op = calls[c].op /\ call.p = calls[c].p /\ call.at = "excess"
    BY <1>2 DEF Call
  <2>2. calls' = [calls EXCEPT ![c] = call]
    BY <1>2, <1>5 DEF MintExcess
  <2> HIDE DEF call
  <2> QED BY <1>3, <2>1, <2>2
<1>6. CASE Find(c)
  <2>1. CASE Refuses(calls[c].op, rows[calls[c].p])
    BY <1>1, <1>6, <2>1, GoesOn DEF Find
  <2>2. CASE ~Refuses(calls[c].op, rows[calls[c].p])
    <3> DEFINE row == rows[calls[c].p]
               call == [calls[c] EXCEPT !.at = "write", !.row = row]
    <3>1. call.op = calls[c].op /\ call.p = calls[c].p /\ call.at = "write" /\ call.row = row
      BY <1>2 DEF Call
    <3>2. calls' = [calls EXCEPT ![c] = call]
      BY <1>2, <1>6, <2>2 DEF Find
    <3>3. calls[c].op = "archive" => row.claimed
      BY <2>2, Zenon DEF Refuses
    <3> HIDE DEF call, row
    <3>4. Told(call, minted, offered, facts)
      BY <1>2, <3>1, <3>3 DEF Told, Making
    <3> QED BY <1>1, <3>1, <3>2, <3>4, Quietly DEF Making
  <2> QED BY <2>1, <2>2
<1>7. ASSUME NEW k \in DOMAIN keys, RevokeListed(c, k) PROVE Account'
  <2> DEFINE call == [calls[c] EXCEPT !.list = @ \ {k}]
  <2>1. call.op = calls[c].op /\ call.p = calls[c].p /\ call.at # "write"
    BY <1>2, <1>7 DEF Call, RevokeListed
  <2>2. calls' = [calls EXCEPT ![c] = call]
    BY <1>2, <1>7 DEF RevokeListed
  <2> HIDE DEF call
  <2> QED BY <1>3, <2>1, <2>2
<1>8. CASE RotateReads(c)
  <2>1. CASE Answers(c)
    BY <1>1, <2>1, GoesOn
  <2>2. CASE ~Answers(c)
    <3> DEFINE call == [calls[c] EXCEPT !.at = "replace", !.key = keys[calls[c].k]]
    <3>1. call.op = calls[c].op /\ call.p = calls[c].p /\ call.at = "replace"
      BY <1>2 DEF Call
    <3>2. calls' = [calls EXCEPT ![c] = call]
      BY <1>2, <1>8, <2>2 DEF RotateReads
    <3> HIDE DEF call
    <3> QED BY <1>3, <3>1, <3>2
  <2> QED BY <2>1, <2>2
<1> QED BY <1>4, <1>5, <1>6, <1>7, <1>8

LEMMA StepTold == Inv /\ Account /\ [Next]_vars => Account'
<1> SUFFICES ASSUME Inv, Account, [Next]_vars PROVE Account'
  OBVIOUS
<1>1. Sweeper \in Caller
  BY DEF Caller
<1>2. ASSUME NEW c \in Request, Begins(c) PROVE Account'
  BY <1>2, BeginsTold
<1>3. ASSUME NEW c \in Caller, Proceeds(c) \/ Dies(c) PROVE Account'
  BY <1>3, AnnouncementsTold, TokenTold, RemovalsTold, QuietStepsTold DEF Proceeds
<1>4. ASSUME NEW p \in Project, SweepFinds(p) PROVE Account'
  <2>1. CallOf("repair", p, "repair").op = "repair" /\ CallOf("repair", p, "repair").at = "repair"
    BY CallOfIsCall DEF Op, Step
  <2>2. calls' = [calls EXCEPT ![Sweeper] = CallOf("repair", p, "repair")]
        /\ UNCHANGED <<rows, minted, offered, facts>>
    BY <1>1, <1>4, Begun DEF SweepFinds, projectVars
  <2>3. Told(CallOf("repair", p, "repair"), minted, offered, facts)
        /\ ~Making(CallOf("repair", p, "repair"))
    BY <2>1 DEF Told, Making
  <2> QED BY <1>1, <2>2, <2>3, Quietly
<1>5. CASE Repair
  BY <1>1, <1>5, GoesOn DEF Repair, projectVars, Step
<1>6. CASE Finished \/ UNCHANGED vars \/ \E k \in DOMAIN keys : KeyExpires(k)
  <2>1. UNCHANGED <<rows, minted, offered, facts, calls>>
    BY <1>6 DEF Finished, vars, KeyExpires, projectVars
  <2> QED BY <2>1 DEF Account, Fresh, OneMaker, DeletionIsAnnounced, Exists, Told, Making
<1> QED BY <1>2, <1>3, <1>4, <1>5, <1>6 DEF Next

LEMMA InitiallyTold == Init => Account
BY IdleIsTold DEF Init, Account, Fresh, OneMaker, DeletionIsAnnounced

\* provision.ts:17: a project that consumers were told of does not go without
\* their being told, by whichever of the two ways it goes.
THEOREM DeletionsAreAnnounced == Spec => []DeletionIsAnnounced
<1>1. Account => DeletionIsAnnounced
  BY DEF Account
<1>2. Spec => []Account
  BY InvHolds, InitiallyTold, StepTold, PTL DEF Spec
<1> QED BY <1>1, <1>2, PTL
-----------------------------------------------------------------------------
(***************************************************************************)
(* Where a claim leaves the keys.  The first key of a project is minted in *)
(* the holding workspace only by the call that provisioned the project,    *)
(* and its token is out at the same moment; nobody has announced the       *)
(* project before.  So a project that was announced has its first key in   *)
(* the workspace, or the claim that announced it has yet to move it.       *)
(***************************************************************************)

FirstMoved(q, ks) ==
    \A k \in DOMAIN ks :
        ks[k].project = q /\ (\A o \in DOMAIN ks : ks[o].project = q => k <= o)
            => ks[k].home = "workspace"

\* What a call in flight implies, with flt faults so far.
Carries(call, tokens, known, ks, flt) ==
    /\ call.op = "create" => call.p \notin tokens
    /\ call.at = "write" /\ call.row.claimed => <<"made", call.p>> \in known
    /\ call.at = "reassign" => call.op = "claim"
    /\ call.at = "replace" =>
          /\ call.k \in DOMAIN ks /\ ks[call.k].project = call.key.project
          /\ flt = 0 /\ call.key.home = "holding" => call.key.project \in tokens

ClaimedIsMade == \A q \in Project : rows[q].claimed => <<"made", q>> \in facts

HoldingIsOffered == \A k \in DOMAIN keys : keys[k].home = "holding" => keys[k].project \in offered

FirstIsMoved ==
    \A q \in Project : <<"made", q>> \in facts =>
        \/ FirstMoved(q, keys)
        \/ \E c \in Request : calls[c].at = "reassign" /\ calls[c].p = q

Placed ==
    /\ \A c \in Caller : Carries(calls[c], offered, facts, keys, faults)
    /\ ClaimedIsMade
    /\ faults = 0 => HoldingIsOffered /\ FirstIsMoved

\* What a step may do to the keys there are, and which it may add.
KeysStay ==
    /\ DOMAIN keys \subseteq DOMAIN keys'
    /\ \A k \in DOMAIN keys : /\ keys'[k].project = keys[k].project
                              /\ keys'[k].home \in {keys[k].home, "workspace"}
    /\ \A k \in DOMAIN keys' \ DOMAIN keys, o \in DOMAIN keys : o < k

NewKeysFit ==
    \A k \in DOMAIN keys' \ DOMAIN keys :
        \/ keys'[k].home = "workspace"
        \/ /\ keys'[k].project \in offered'
           /\ \/ <<"made", keys'[k].project>> \notin facts'
              \/ \E o \in DOMAIN keys : keys[o].project = keys'[k].project

LEMMA FirstStays ==
    ASSUME keys' \in Seq(KeyRow), KeysStay, NewKeysFit, NEW q, FirstMoved(q, keys),
           <<"made", q>> \in facts'
    PROVE  FirstMoved(q, keys')
<1> SUFFICES ASSUME NEW k \in DOMAIN keys', keys'[k].project = q,
                    \A o \in DOMAIN keys' : keys'[o].project = q => k <= o
             PROVE  keys'[k].home = "workspace"
  BY DEF FirstMoved
<1>1. DOMAIN keys' \subseteq Nat
  OBVIOUS
<1>2. CASE k \in DOMAIN keys
  <2>1. keys[k].project = q /\ \A o \in DOMAIN keys : keys[o].project = q => k <= o
    BY <1>2 DEF KeysStay
  <2>2. keys[k].home = "workspace"
    BY <1>2, <2>1 DEF FirstMoved
  <2> QED BY <1>2, <2>2 DEF KeysStay
<1>3. CASE k \notin DOMAIN keys
  <2>1. \A o \in DOMAIN keys : keys[o].project # q
    <3> SUFFICES ASSUME NEW o \in DOMAIN keys, keys[o].project = q PROVE FALSE
      OBVIOUS
    <3>1. o \in DOMAIN keys' /\ keys'[o].project = q /\ o < k
      BY <1>3 DEF KeysStay
    <3> QED BY <1>1, <3>1
  <2> QED BY <1>3, <2>1 DEF NewKeysFit
<1> QED BY <1>2, <1>3

LEMMA CallIsPlaced ==
    ASSUME Inv, Placed, keys' \in Seq(KeyRow), KeysStay, faults' = 0 => faults = 0 /\ NewKeysFit,
           offered \subseteq offered', facts \subseteq facts', ClaimedIsMade',
           NEW c \in Caller, NEW call, calls' = [calls EXCEPT ![c] = call],
           Carries(call, offered', facts', keys', faults'),
           \A d \in Caller \ {c} : calls[d].op = "create" => calls[d].p \notin offered',
           faults' = 0 => \A q \in Project :
               /\ <<"made", q>> \in facts'
               /\ <<"made", q>> \notin facts \/ (calls[c].at = "reassign" /\ calls[c].p = q)
               => FirstMoved(q, keys') \/ (c \in Request /\ call.at = "reassign" /\ call.p = q)
    PROVE  Placed'
<1>1. /\ calls'[c] = call /\ \A d \in Caller \ {c} : calls'[d] = calls[d]
      /\ Request \subseteq Caller
  BY DEF Inv, TypeOK, Caller
<1>2. ASSUME NEW d \in Caller PROVE Carries(calls'[d], offered', facts', keys', faults')
  <2>1. CASE d = c
    BY <1>1, <2>1
  <2>2. CASE d # c
    <3>1. Carries(calls[d], offered, facts, keys, faults) /\ calls'[d] = calls[d]
      BY <1>1, <2>2 DEF Placed
    <3> QED BY <2>2, <3>1 DEF Carries, KeysStay
  <2> QED BY <2>1, <2>2
<1>3. ASSUME faults' = 0 PROVE HoldingIsOffered'
  <2> SUFFICES ASSUME NEW k \in DOMAIN keys', keys'[k].home = "holding"
               PROVE  keys'[k].project \in offered'
    BY DEF HoldingIsOffered
  <2>1. CASE k \in DOMAIN keys
    <3>1. keys[k].home = "holding" /\ keys'[k].project = keys[k].project
      BY <2>1 DEF KeysStay
    <3> QED BY <1>3, <2>1, <3>1 DEF Placed, HoldingIsOffered
  <2>2. CASE k \notin DOMAIN keys
    BY <1>3, <2>2 DEF NewKeysFit
  <2> QED BY <2>1, <2>2
<1>4. ASSUME faults' = 0 PROVE FirstIsMoved'
  <2> SUFFICES ASSUME NEW q \in Project, <<"made", q>> \in facts', ~FirstMoved(q, keys')
               PROVE  \E d \in Request : calls'[d].at = "reassign" /\ calls'[d].p = q
    BY DEF FirstIsMoved
  <2>1. CASE <<"made", q>> \in facts
    <3>1. ~FirstMoved(q, keys)
      BY <1>4, FirstStays
    <3>2. PICK d \in Request : calls[d].at = "reassign" /\ calls[d].p = q
      BY <1>4, <2>1, <3>1 DEF Placed, FirstIsMoved
    <3> QED BY <1>1, <1>4, <3>2
  <2>2. CASE <<"made", q>> \notin facts
    BY <1>1, <1>4, <2>2
  <2> QED BY <2>1, <2>2
<1> QED BY <1>2, <1>3, <1>4 DEF Placed

\* A call that moves and leaves the keys, the rows and the tokens alone.
LEMMA StillPlaced ==
    ASSUME Inv, Placed, UNCHANGED <<rows, offered, facts, keys>>,
           faults' = faults \/ (faults' = faults + 1),
           NEW c \in Caller, NEW call, calls' = [calls EXCEPT ![c] = call],
           calls[c].at # "reassign" \/ faults' # 0,
           Carries(call, offered, facts, keys, faults')
    PROVE  Placed'
<1>1. keys \in Seq(KeyRow) /\ faults \in Nat /\ (faults' = 0 => faults = 0)
  BY DEF Inv, TypeOK
<1>2. KeysStay /\ NewKeysFit /\ ClaimedIsMade'
  BY DEF KeysStay, NewKeysFit, Placed, ClaimedIsMade
<1>3. \A d \in Caller : calls[d].op = "create" => calls[d].p \notin offered'
  BY DEF Placed, Carries
<1>4. keys' \in Seq(KeyRow) /\ offered \subseteq offered' /\ facts \subseteq facts'
  BY <1>1
<1>5. Carries(call, offered', facts', keys', faults')
  OBVIOUS
<1> QED BY <1>1, <1>2, <1>3, <1>4, <1>5, CallIsPlaced

\* A call that is not about to write a row or a key.
LEMMA Onward ==
    ASSUME NEW call, NEW was, NEW tokens, NEW known, NEW ks, NEW flt,
           (call.op = was.op /\ call.p = was.p) \/ call.op # "create",
           was.op = "create" => was.p \notin tokens,
           call.at \notin {"write", "reassign", "replace"}
    PROVE  Carries(call, tokens, known, ks, flt)
BY DEF Carries

LEMMA IdleCarries == \A tokens, known, ks, flt : Carries(Idle, tokens, known, ks, flt)
BY DEF Carries, Idle

LEMMA GoesPlaced ==
    ASSUME Inv, Placed, UNCHANGED <<rows, offered, facts, keys>>,
           faults' = faults \/ (faults' = faults + 1),
           NEW c \in Caller, calls[c].at # "reassign" \/ faults' # 0,
           Answers(c) \/ \E at \in Step \ {"write", "reassign", "replace"} : Goes(c, at)
    PROVE  Placed'
<1>1. CASE Answers(c)
  BY <1>1, IdleCarries, StillPlaced DEF Answers
<1>2. ASSUME NEW at \in Step \ {"write", "reassign", "replace"}, Goes(c, at) PROVE Placed'
  <2> DEFINE call == [calls[c] EXCEPT !.at = at]
  <2>1. call.at = at /\ call.op = calls[c].op /\ call.p = calls[c].p
    BY DEF Inv, TypeOK, Call
  <2>2. calls' = [calls EXCEPT ![c] = call] /\ (calls[c].op = "create" => calls[c].p \notin offered)
    BY <1>2 DEF Goes, Placed, Carries
  <2> HIDE DEF call
  <2>3. Carries(call, offered, facts, keys, faults')
    BY <1>2, <2>1, <2>2, Onward
  <2> QED BY <2>2, <2>3, StillPlaced
<1> QED BY <1>1, <1>2

LEMMA BeginsPlaced ==
    ASSUME Inv, Account, Placed, NEW c \in Request, Begins(c)
    PROVE  Placed'
<1>1. c \in Caller /\ TypeOK /\ Idle.at = "idle"
  BY IdleIsCall DEF Caller, Inv
<1>2. ASSUME NEW call, Begin(c, call), UNCHANGED <<rows, offered, facts, keys, faults>>,
             Carries(call, offered, facts, keys, faults)
      PROVE  Placed'
  BY <1>1, <1>2, Begun, StillPlaced
<1>3. ASSUME NEW p \in Project,
             NEW op \in {"create", "provision", "claim", "restore", "issue", "issueService"},
             NEW at \in {"save", "find", "issue"}, Begin(c, CallOf(op, p, at)),
             UNCHANGED <<rows, offered, facts, keys, faults>>, op = "create" => p \notin offered
      PROVE  Placed'
  <2>1. CallOf(op, p, at).at = at /\ CallOf(op, p, at).op = op /\ CallOf(op, p, at).p = p
    BY <1>3, CallOfIsCall DEF Op, Step
  <2>2. Carries(CallOf(op, p, at), offered, facts, keys, faults)
    BY <1>3, <2>1 DEF Carries
  <2> QED BY <1>2, <1>3, <2>2
<1>4. ASSUME NEW p \in Project, ReserveSlot(c, p) \/ ProvisionUnclaimed(c, p) PROVE Placed'
  <2>1. p \notin offered
    BY <1>1, <1>4 DEF ReserveSlot, ProvisionUnclaimed, Account, Fresh, TypeOK
  <2> QED BY <1>3, <1>4, <2>1 DEF ReserveSlot, ProvisionUnclaimed
<1>5. ASSUME NEW p \in Project,
             ClaimSlot(c, p) \/ RestoreSlot(c, p) \/ \E op \in Op : IssueBegins(c, op, p)
      PROVE  Placed'
  BY <1>3, <1>5 DEF ClaimSlot, RestoreSlot, IssueBegins, projectVars
<1>6. ASSUME NEW p \in Project, NEW op \in Op, Edit(c, op, p) PROVE Placed'
  <2> DEFINE call == [CallOf(op, p, "write") EXCEPT !.row = rows[p]]
  <2>1. CallOf(op, p, "write") \in Call
    BY CallOfIsCall DEF Step
  <2>2. call.at = "write" /\ call.op = op /\ call.p = p /\ call.row = rows[p]
    BY <2>1, CallOfIsCall DEF Call, Step
  <2>3. Begin(c, call) /\ UNCHANGED <<rows, offered, facts, keys, faults>> /\ op # "create"
    BY <1>6 DEF Edit, projectVars
  <2> HIDE DEF call
  <2>4. Carries(call, offered, facts, keys, faults)
    BY <2>2, <2>3 DEF Carries, Placed, ClaimedIsMade
  <2> QED BY <1>2, <2>3, <2>4
<1>7. ASSUME NEW p \in Project, DeleteBegins(c, p) PROVE Placed'
  <2> DEFINE listed == {k \in KeysOf(p) : keys[k].state # "revoked"}
      call == [CallOf("delete", p, "revokeListed") EXCEPT !.list = listed]
  <2>1. CallOf("delete", p, "revokeListed") \in Call
    BY CallOfIsCall DEF Step, Op
  <2>2. call.at = "revokeListed" /\ call.op = "delete"
    BY <2>1, CallOfIsCall DEF Call, Step, Op
  <2>3. Begin(c, call) /\ UNCHANGED <<rows, offered, facts, keys, faults>>
    BY <1>7 DEF DeleteBegins, projectVars
  <2> HIDE DEF call
  <2>4. Carries(call, offered, facts, keys, faults)
    BY <2>2 DEF Carries
  <2> QED BY <1>2, <2>3, <2>4
<1>8. ASSUME NEW k \in DOMAIN keys, RevokeBegins(c, k) \/ RotateBegins(c, k) PROVE Placed'
  <2>1. PICK op \in {"revoke", "rotate"} :
            Begin(c, [CallOf(op, keys[k].project, op) EXCEPT !.k = k])
    BY <1>8 DEF RevokeBegins, RotateBegins
  <2> DEFINE call == [CallOf(op, keys[k].project, op) EXCEPT !.k = k]
  <2>2. call.at = op /\ call.op = op
    <3>1. keys[k] \in KeyRow
      BY <1>1 DEF TypeOK
    <3>2. keys[k].project \in Project
      BY <3>1 DEF KeyRow
    <3>3. CallOf(op, keys[k].project, op) \in Call
      BY <3>2, CallOfIsCall DEF Step, Op
    <3> QED BY <3>2, <3>3, CallOfIsCall DEF Call, Step, Op
  <2>3. UNCHANGED <<rows, offered, facts, keys, faults>>
    BY <1>8 DEF RevokeBegins, RotateBegins, projectVars
  <2>4. Begin(c, call)
    BY <2>1
  <2> HIDE DEF call
  <2>5. Carries(call, offered, facts, keys, faults)
    BY <2>2 DEF Carries
  <2> QED BY <1>2, <2>3, <2>4, <2>5
<1> QED BY <1>4, <1>5, <1>6, <1>7, <1>8 DEF Begins

LEMMA QuietStepsPlaced ==
    ASSUME Inv, Placed, NEW c \in Caller,
           \/ CheckPlacement(c) \/ IssueRefused(c) \/ Find(c) \/ ClaimRefused(c)
           \/ RotateReads(c) \/ Dies(c)
    PROVE  Placed'
<1>1. UNCHANGED <<rows, offered, facts, keys>> /\ (faults' = faults \/ faults' = faults + 1)
  BY DEF projectVars, CheckPlacement, IssueRefused, Find, ClaimRefused, RotateReads, Dies, Fault
<1>2. calls[c] \in Call /\ calls \in [Caller -> Call] /\ faults \in Nat
      /\ Carries(calls[c], offered, facts, keys, faults)
  BY DEF Inv, TypeOK, Placed
<1>3. calls[c].at # "reassign" \/ faults' # 0
  BY <1>2 DEF CheckPlacement, IssueRefused, Find, ClaimRefused, RotateReads, Dies, Fault
<1>4. CASE CheckPlacement(c) \/ IssueRefused(c) \/ ClaimRefused(c) \/ Dies(c)
  <2>1. Answers(c) \/ \E at \in Step \ {"write", "reassign", "replace"} : Goes(c, at)
    BY <1>4 DEF CheckPlacement, IssueRefused, AfterRefusal, ClaimRefused, Dies, Step
  <2> QED BY <1>1, <1>3, <2>1, GoesPlaced
<1>5. CASE Find(c)
  <2>1. CASE Refuses(calls[c].op, rows[calls[c].p])
    BY <1>1, <1>3, <1>5, <2>1, GoesPlaced DEF Find
  <2>2. CASE ~Refuses(calls[c].op, rows[calls[c].p])
    <3> DEFINE row == rows[calls[c].p]
               call == [calls[c] EXCEPT !.at = "write", !.row = row]
    <3>1. call.op = calls[c].op /\ call.p = calls[c].p /\ call.at = "write" /\ call.row = row
      BY <1>2 DEF Call
    <3>2. calls' = [calls EXCEPT ![c] = call]
      BY <1>2, <1>5, <2>2 DEF Find
    <3>3. row.claimed => <<"made", calls[c].p>> \in facts
      BY <1>5 DEF Placed, ClaimedIsMade, Find, Inv, Shape, Fits
    <3> HIDE DEF call, row
    <3>4. Carries(call, offered, facts, keys, faults')
      BY <1>2, <3>1, <3>3 DEF Carries
    <3> QED BY <1>1, <1>3, <3>2, <3>4, StillPlaced
  <2> QED BY <2>1, <2>2
<1>6. CASE RotateReads(c)
  <2>1. CASE Answers(c)
    BY <1>1, <1>3, <2>1, GoesPlaced
  <2>2. CASE ~Answers(c)
    <3> DEFINE k == calls[c].k
               call == [calls[c] EXCEPT !.at = "replace", !.key = keys[k]]
    <3>1. call.op = calls[c].op /\ call.p = calls[c].p /\ call.at = "replace"
          /\ call.key = keys[k] /\ call.k = k
      BY <1>2 DEF Call
    <3>2. calls' = [calls EXCEPT ![c] = call] /\ faults' = faults
      BY <1>2, <1>6, <2>2 DEF RotateReads
    <3>3. k \in DOMAIN keys
      BY <1>6 DEF RotateReads, Inv, Shape, Fits
    <3>4. faults = 0 /\ keys[k].home = "holding" => keys[k].project \in offered
      BY <3>3 DEF Placed, HoldingIsOffered
    <3> HIDE DEF call, k
    <3>5. Carries(call, offered, facts, keys, faults')
      BY <1>2, <3>1, <3>2, <3>3, <3>4 DEF Carries
    <3> QED BY <1>1, <1>3, <3>2, <3>5, StillPlaced
  <2> QED BY <2>1, <2>2
<1> QED BY <1>4, <1>5, <1>6

\* The steps that write or remove the row.
LEMMA RowStepsPlaced ==
    ASSUME Inv, Placed, NEW c \in Caller,
           SaveProject(c) \/ Write(c) \/ Undo(c) \/ DeleteRow(c)
    PROVE  Placed'
<1> DEFINE p == calls[c].p
           op == calls[c].op
<1>1. /\ TypeOK /\ calls[c] \in Call /\ p \in Project
      /\ Carries(calls[c], offered, facts, keys, faults)
  BY DEF Inv, TypeOK, Shape, Fits, SaveProject, Write, Undo, DeleteRow, Placed
<1>2. /\ UNCHANGED <<offered, keys, faults>> /\ keys \in Seq(KeyRow)
      /\ facts \subseteq facts' /\ calls[c].at # "reassign"
  BY <1>1 DEF SaveProject, Write, Undo, DeleteRow, TypeOK
<1>3. KeysStay /\ NewKeysFit
  BY <1>2 DEF KeysStay, NewKeysFit
<1>4. PICK at \in {"issue", "reassign", "idle"} :
          /\ IF at = "idle" THEN Answers(c) ELSE Goes(c, at)
          /\ Write(c) /\ op = "claim" <=> at = "reassign"
  BY DEF SaveProject, Write, Undo, DeleteRow
<1>5. PICK call : /\ calls' = [calls EXCEPT ![c] = call]
                  /\ call = Idle \/ (call.at = at /\ call.op = op /\ call.p = p)
                  /\ at = "idle" <=> call = Idle
  <2>1. CASE at = "idle"
    BY <1>4, <2>1 DEF Answers
  <2>2. CASE at # "idle"
    <3>1. [calls[c] EXCEPT !.at = at].at = at /\ [calls[c] EXCEPT !.at = at].op = op
          /\ [calls[c] EXCEPT !.at = at].p = p
      BY <1>1 DEF Call
    <3>2. calls' = [calls EXCEPT ![c] = [calls[c] EXCEPT !.at = at]]
      BY <1>4, <2>2 DEF Goes
    <3> QED BY <2>2, <3>1, <3>2, IdleIsCall
  <2> QED BY <2>1, <2>2
<1>6. Carries(call, offered', facts', keys', faults')
  <2>1. CASE call = Idle
    BY <2>1, IdleCarries
  <2>2. CASE call # Idle
    BY <1>1, <1>2, <1>4, <1>5, <2>2 DEF Carries
  <2> QED BY <2>1, <2>2
<1>7. rows' = [rows EXCEPT ![p] = rows'[p]]
      /\ (rows'[p].claimed => <<"made", p>> \in facts')
  <2>1. CASE SaveProject(c)
    BY <1>1, <2>1, RowTypes DEF SaveProject, TypeOK
  <2>2. CASE Undo(c) \/ DeleteRow(c)
    BY <1>1, <2>2 DEF Undo, DeleteRow, TypeOK, NoRow
  <2>3. CASE Write(c)
    <3>1. /\ rows' = [rows EXCEPT ![p] = Decided(op, calls[c].row)] /\ calls[c].at = "write"
          /\ op = "claim" => <<"made", p>> \in facts'
      BY <2>3 DEF Write
    <3>2. calls[c].row \in Row
      BY <1>1 DEF Call
    <3>3. op # "claim" => Decided(op, calls[c].row).claimed = calls[c].row.claimed
      <4>1. CASE op = "archive"
        <5>1. Decided(op, calls[c].row) = [calls[c].row EXCEPT !.archived = TRUE]
          BY <4>1, Zenon DEF Decided
        <5> QED BY <3>2, <5>1 DEF Row
      <4>2. CASE op \notin {"claim", "archive"}
        <5>1. Decided(op, calls[c].row) = [calls[c].row EXCEPT !.archived = FALSE]
          BY <4>2, Zenon DEF Decided
        <5> QED BY <3>2, <5>1 DEF Row
      <4> QED BY <4>1, <4>2
    <3>4. op # "claim" /\ calls[c].row.claimed => <<"made", p>> \in facts'
      BY <1>1, <1>2, <3>1 DEF Carries
    <3> HIDE DEF p, op
    <3>5. rows'[p] = Decided(op, calls[c].row)
      BY <1>1, <3>1 DEF TypeOK
    <3> QED BY <3>1, <3>3, <3>4, <3>5
  <2> QED BY <2>1, <2>2, <2>3
<1>8. ClaimedIsMade'
  <2> SUFFICES ASSUME NEW q \in Project, rows'[q].claimed PROVE <<"made", q>> \in facts'
    BY DEF ClaimedIsMade
  <2>1. CASE q = p
    BY <1>7, <2>1
  <2>2. CASE q # p
    <3>1. rows'[q] = rows[q]
      BY <1>1, <1>7, <2>2 DEF TypeOK
    <3> QED BY <1>2, <3>1 DEF Placed, ClaimedIsMade
  <2> QED BY <2>1, <2>2
<1>9. ASSUME faults' = 0, NEW q \in Project, <<"made", q>> \in facts', <<"made", q>> \notin facts
      PROVE  FirstMoved(q, keys') \/ (c \in Request /\ call.at = "reassign" /\ call.p = q)
  <2>1. q = p /\ (SaveProject(c) \/ (Write(c) /\ op = "claim"))
    <3>1. CASE SaveProject(c)
      BY <1>9, <3>1 DEF SaveProject
    <3>2. CASE Write(c)
      BY <1>9, <3>2 DEF Write
    <3>3. CASE Undo(c) \/ DeleteRow(c)
      <4>1. facts' = facts \/ facts' = facts \cup {<<"deleted", p>>}
        BY <3>3 DEF Undo, DeleteRow
      <4> QED BY <1>9, <4>1
    <3> QED BY <3>1, <3>2, <3>3
  <2>2. CASE SaveProject(c)
    <3>1. p \notin offered
      BY <1>1, <1>9, <2>1, <2>2 DEF SaveProject, Carries
    <3>2. \A k \in DOMAIN keys : keys[k].project = p => keys[k].home = "workspace"
      <4> SUFFICES ASSUME NEW k \in DOMAIN keys, keys[k].project = p
                   PROVE  keys[k].home = "workspace"
        OBVIOUS
      <4>1. keys[k].home # "holding" /\ keys[k] \in KeyRow
        BY <1>2, <1>9, <3>1 DEF Placed, HoldingIsOffered
      <4> QED BY <4>1 DEF KeyRow
    <3> QED BY <1>2, <2>1, <3>2 DEF FirstMoved
  <2>3. CASE Write(c) /\ op = "claim"
    <3>1. at = "reassign" /\ call.at = "reassign" /\ call.p = p
      BY <1>4, <1>5, <2>3
    <3>2. c # Sweeper
      BY <2>3 DEF Inv, SweeperWritesNoRow, WritesRow, Write
    <3> QED BY <2>1, <3>1, <3>2 DEF Caller
  <2> QED BY <2>1, <2>2, <2>3
<1>10. \A d \in Caller : calls[d].op = "create" => calls[d].p \notin offered'
  BY <1>2 DEF Placed, Carries
<1>11. keys' \in Seq(KeyRow) /\ (faults' = 0 => faults = 0 /\ NewKeysFit) /\ offered \subseteq offered'
  BY <1>2, <1>3
<1> HIDE DEF p, op
<1> QED BY <1>2, <1>3, <1>5, <1>6, <1>8, <1>9, <1>10, <1>11, CallIsPlaced

LEMMA StateIsAside ==
    ASSUME keys \in Seq(KeyRow), NEW k, NEW s, keys' = [keys EXCEPT ![k].state = s]
    PROVE  KeysStay /\ NewKeysFit
<1>1. /\ DOMAIN keys' = DOMAIN keys
      /\ \A i \in DOMAIN keys : keys[i] \in KeyRow
                              /\ keys'[i] = IF i = k THEN [keys[i] EXCEPT !.state = s] ELSE keys[i]
  OBVIOUS
<1>2. \A i \in DOMAIN keys : keys'[i].project = keys[i].project /\ keys'[i].home = keys[i].home
  BY <1>1 DEF KeyRow
<1> QED BY <1>1, <1>2 DEF KeysStay, NewKeysFit

\* A step of a call that changes keys, and neither rows nor tokens.
LEMMA KeysAside ==
    ASSUME Inv, Inv', Placed, KeysStay, faults' = 0 => faults = 0 /\ NewKeysFit,
           UNCHANGED <<rows, offered, facts>>, NEW c \in Caller,
           \/ Answers(c)
           \/ \E call : /\ calls' = [calls EXCEPT ![c] = call]
                        /\ call.op = calls[c].op /\ call.p = calls[c].p
                        /\ call.at \notin {"write", "reassign", "replace"},
           faults' = 0 /\ calls[c].at = "reassign" => FirstMoved(calls[c].p, keys')
    PROVE  Placed'
<1>1. PICK call : /\ calls' = [calls EXCEPT ![c] = call]
                  /\ Carries(call, offered', facts', keys', faults')
  <2>1. CASE Answers(c)
    BY <2>1, IdleCarries DEF Answers
  <2>2. CASE ~Answers(c)
    <3>1. PICK call : /\ calls' = [calls EXCEPT ![c] = call]
                      /\ call.op = calls[c].op /\ call.p = calls[c].p
                      /\ call.at \notin {"write", "reassign", "replace"}
      BY <2>2
    <3>2. calls[c].op = "create" => calls[c].p \notin offered'
      BY DEF Placed, Carries
    <3> QED BY <3>1, <3>2, Onward
  <2> QED BY <2>1, <2>2
<1>2. \A d \in Caller : calls[d].op = "create" => calls[d].p \notin offered'
  BY DEF Placed, Carries
<1>3. ClaimedIsMade' /\ keys' \in Seq(KeyRow) /\ offered \subseteq offered' /\ facts \subseteq facts'
  BY DEF Placed, ClaimedIsMade, Inv, TypeOK
<1> QED BY <1>1, <1>2, <1>3, CallIsPlaced

LEMMA KeyStatesPlaced ==
    ASSUME Inv, Inv', Placed, NEW c \in Caller,
           \/ RevokeExcess(c) \/ Revoke(c) \/ Retire(c)
           \/ \E k \in DOMAIN keys : RevokeListed(c, k)
    PROVE  Placed'
<1>1. /\ keys \in Seq(KeyRow) /\ calls[c] \in Call /\ calls \in [Caller -> Call]
      /\ faults \in Nat
  BY DEF Inv, TypeOK
<1>2. KeysStay /\ NewKeysFit
  BY <1>1, StateIsAside DEF RevokeExcess, Revoke, Retire, RevokeListed
<1>3. UNCHANGED <<rows, offered, facts, faults>> /\ calls[c].at # "reassign"
  BY DEF projectVars, RevokeExcess, Revoke, Retire, RevokeListed
<1>4. CASE Answers(c)
  BY <1>2, <1>3, <1>4, KeysAside
<1>5. CASE ~Answers(c) /\ RevokeExcess(c)
  <2> DEFINE call == [calls[c] EXCEPT !.at = "undo"]
  <2>1. call.op = calls[c].op /\ call.p = calls[c].p /\ call.at = "undo"
    BY <1>1 DEF Call
  <2>2. calls' = [calls EXCEPT ![c] = call]
    BY <1>1, <1>5 DEF RevokeExcess, AfterRefusal, Goes
  <2> HIDE DEF call
  <2> QED BY <1>2, <1>3, <2>1, <2>2, KeysAside
<1>6. ASSUME NEW k \in DOMAIN keys, RevokeListed(c, k) PROVE Placed'
  <2> DEFINE call == [calls[c] EXCEPT !.list = @ \ {k}]
  <2>1. call.op = calls[c].op /\ call.p = calls[c].p /\ call.at = "revokeListed"
    BY <1>1, <1>6 DEF Call, RevokeListed
  <2>2. calls' = [calls EXCEPT ![c] = call]
    BY <1>1, <1>6 DEF RevokeListed
  <2> HIDE DEF call
  <2> QED BY <1>2, <1>3, <2>1, <2>2, KeysAside
<1> QED BY <1>4, <1>5, <1>6 DEF Revoke, Retire

\* The claim's move reaches every key of the project.
LEMMA ReassignPlaced ==
    ASSUME Inv, Inv', Placed, NEW c \in Caller, ReassignKeys(c)
    PROVE  Placed'
<1> DEFINE p == calls[c].p
<1>1. /\ DOMAIN keys' = DOMAIN keys /\ faults' = faults
      /\ \A i \in DOMAIN keys : keys[i] \in KeyRow /\ keys'[i] = Reassigned(keys[i], p)
  BY DEF ReassignKeys, Inv, TypeOK
<1>2. \A key \in KeyRow : /\ Reassigned(key, p).project = key.project
                          /\ Reassigned(key, p).home \in {key.home, "workspace"}
                          /\ key.project = p => Reassigned(key, p).home = "workspace"
  BY DEF Reassigned, KeyRow
<1> HIDE DEF p
<1>3. KeysStay /\ NewKeysFit
  BY <1>1, <1>2 DEF KeysStay, NewKeysFit
<1>4. FirstMoved(p, keys')
  BY <1>1, <1>2 DEF FirstMoved
<1>5. Answers(c) /\ UNCHANGED <<rows, offered, facts>>
  BY DEF ReassignKeys, projectVars
<1> QED BY <1>1, <1>3, <1>4, <1>5, KeysAside DEF p

LEMMA OneKeyMore ==
    ASSUME keys \in Seq(KeyRow), NEW key \in KeyRow, keys' = Append(keys, key)
    PROVE  /\ KeysStay
           /\ \/ key.home = "workspace"
              \/ /\ key.project \in offered'
                 /\ \/ <<"made", key.project>> \notin facts'
                    \/ \E o \in DOMAIN keys : keys[o].project = key.project
              => NewKeysFit
<1>1. /\ DOMAIN keys = 1..Len(keys) /\ DOMAIN keys' = 1..(Len(keys) + 1) /\ Len(keys) \in Nat
      /\ \A i \in 1..Len(keys) : keys'[i] = keys[i]
      /\ keys'[Len(keys) + 1] = key
  BY AppendProperties
<1>2. DOMAIN keys' \ DOMAIN keys = {Len(keys) + 1}
  BY <1>1
<1> QED BY <1>1, <1>2 DEF KeysStay, NewKeysFit

\* The first key: in the workspace, unless its project was provisioned, and then
\* its token goes out with it and nobody was told of the project.
LEMMA MintPlaced ==
    ASSUME Inv, Inv', Account, Placed, NEW c \in Caller, Mint(c)
    PROVE  Placed'
<1> DEFINE p == calls[c].p
           key == NewKey(p, KindOf(c), Home(calls[c].op # "provision"))
<1>1. /\ keys \in Seq(KeyRow) /\ calls[c] \in Call /\ p \in Project
      /\ Told(calls[c], minted, offered, facts) /\ calls[c].at = "mint"
  BY DEF Inv, TypeOK, Shape, Fits, Mint, Account
<1>2. /\ keys' = Append(keys, key) /\ Answers(c) /\ UNCHANGED <<rows, facts, faults>>
      /\ calls[c].op # "provision" => offered' = offered
      /\ calls[c].op = "provision" => offered' = offered \cup {p}
  BY DEF Mint
<1>3. key \in KeyRow /\ key.project = p /\ (calls[c].op # "provision" => key.home = "workspace")
  BY <1>1 DEF NewKey, KindOf, Home, KeyRow
<1>4. calls[c].op = "provision" => key.project \in offered' /\ <<"made", key.project>> \notin facts'
  BY <1>1, <1>2, <1>3 DEF Told
<1>5. ASSUME NEW d \in Caller \ {c}, calls[d].op = "create" PROVE calls[d].p \notin offered'
  <2>1. calls[d].p \notin offered
    BY <1>5 DEF Placed, Carries
  <2>2. calls[c].op = "provision" => calls[d].p # p
    BY <1>5 DEF Account, OneMaker, Making
  <2> QED BY <1>2, <2>1, <2>2
<1> HIDE DEF key, p
<1>6. KeysStay /\ NewKeysFit
  BY <1>1, <1>2, <1>3, <1>4, OneKeyMore
<1>7. ClaimedIsMade' /\ keys' \in Seq(KeyRow) /\ offered \subseteq offered' /\ facts \subseteq facts'
  BY <1>2 DEF Placed, ClaimedIsMade, Inv, TypeOK
<1>8. calls' = [calls EXCEPT ![c] = Idle] /\ Carries(Idle, offered', facts', keys', faults')
  BY <1>2, IdleCarries DEF Answers
<1> QED BY <1>1, <1>2, <1>5, <1>6, <1>7, <1>8, CallIsPlaced

LEMMA ExcessPlaced ==
    ASSUME Inv, Inv', Placed, NEW c \in Caller, MintExcess(c)
    PROVE  Placed'
<1> DEFINE key == NewKey(calls[c].p, KindOf(c), Home(calls[c].op # "provision"))
           call == [calls[c] EXCEPT !.at = "excess", !.k = Len(keys) + 1]
<1>1. /\ keys \in Seq(KeyRow) /\ calls \in [Caller -> Call] /\ calls[c] \in Call
      /\ calls[c].p \in Project /\ calls[c].at = "mint" /\ faults \in Nat
  BY DEF Inv, TypeOK, Shape, Fits, MintExcess
<1>2. /\ keys' = Append(keys, key) /\ UNCHANGED <<rows, offered, facts>> /\ faults' = faults + 1
      /\ calls' = [calls EXCEPT ![c] = call]
  BY <1>1 DEF MintExcess, Fault, projectVars
<1>3. key \in KeyRow
  BY <1>1 DEF NewKey, KindOf, Home, KeyRow
<1>4. call.op = calls[c].op /\ call.p = calls[c].p /\ call.at = "excess"
  BY <1>1 DEF Call
<1> HIDE DEF key, call
<1>5. KeysStay
  BY <1>1, <1>2, <1>3, OneKeyMore
<1>6. faults' # 0
  BY <1>1, <1>2
<1> QED BY <1>1, <1>2, <1>4, <1>5, <1>6, KeysAside

\* What a rotation mints from a key it read before the move: not the first.
LEMMA RotationPlaced ==
    ASSUME Inv, Inv', Placed, NEW c \in Caller, RotateMints(c)
    PROVE  Placed'
<1> DEFINE old == calls[c].key
           key == NewKey(old.project, old.kind, old.home)
           call == [calls[c] EXCEPT !.at = "retire"]
<1>1. /\ keys \in Seq(KeyRow) /\ calls \in [Caller -> Call] /\ calls[c] \in Call
      /\ calls[c].at = "replace" /\ old \in KeyRow /\ faults \in Nat
      /\ Carries(calls[c], offered, facts, keys, faults)
  BY DEF Inv, TypeOK, Shape, Fits, RotateMints, Placed
<1>2. /\ keys' = Append(keys, key) /\ UNCHANGED <<rows, offered, facts, faults>>
      /\ calls' = [calls EXCEPT ![c] = call]
  BY <1>1 DEF RotateMints, Goes, projectVars
<1>3. key \in KeyRow /\ key.project = old.project /\ key.home = old.home
  BY <1>1 DEF NewKey, KeyRow
<1>4. call.op = calls[c].op /\ call.p = calls[c].p /\ call.at = "retire"
  BY <1>1 DEF Call
<1>5. key.home \in {"workspace", "holding"}
  BY <1>3 DEF KeyRow
<1>6. faults = 0 /\ key.home = "holding" =>
          key.project \in offered' /\ \E o \in DOMAIN keys : keys[o].project = key.project
  BY <1>1, <1>2, <1>3 DEF Carries
<1> HIDE DEF key, call, old
<1>7. KeysStay /\ (faults' = 0 => faults = 0 /\ NewKeysFit)
  BY <1>1, <1>2, <1>3, <1>5, <1>6, OneKeyMore
<1> QED BY <1>1, <1>2, <1>4, <1>7, KeysAside

\* The steps no call takes, and the reconciler's.
LEMMA StatesPlaced ==
    ASSUME Inv, Inv', Placed, UNCHANGED <<rows, offered, facts, calls, faults>>,
           KeysStay, NewKeysFit
    PROVE  Placed'
<1>1. ASSUME NEW d \in Caller PROVE Carries(calls'[d], offered', facts', keys', faults')
  <2>1. Carries(calls[d], offered, facts, keys, faults)
    BY DEF Placed
  <2> QED BY <2>1 DEF Carries, KeysStay
<1>2. ASSUME faults' = 0 PROVE HoldingIsOffered'
  BY <1>2 DEF Placed, HoldingIsOffered, KeysStay, NewKeysFit
<1>3. ASSUME faults' = 0 PROVE FirstIsMoved'
  <2>1. keys' \in Seq(KeyRow) /\ FirstIsMoved
    BY <1>3 DEF Inv, TypeOK, Placed
  <2>2. \A q \in Project : <<"made", q>> \in facts /\ FirstMoved(q, keys) => FirstMoved(q, keys')
    BY <2>1, FirstStays
  <2> QED BY <2>1, <2>2 DEF FirstIsMoved
<1>4. ClaimedIsMade'
  BY DEF Placed, ClaimedIsMade
<1> QED BY <1>1, <1>2, <1>3, <1>4 DEF Placed

LEMMA SweeperPlaced ==
    ASSUME Inv, Placed, Repair \/ \E p \in Project : SweepFinds(p)
    PROVE  Placed'
<1>1. Sweeper \in Caller /\ TypeOK /\ Idle.at = "idle"
  BY IdleIsCall DEF Caller, Inv
<1>2. ASSUME NEW p \in Project, SweepFinds(p) PROVE Placed'
  <2> DEFINE call == CallOf("repair", p, "repair")
  <2>1. call.op = "repair" /\ call.at = "repair"
    BY CallOfIsCall DEF Op, Step
  <2>2. calls' = [calls EXCEPT ![Sweeper] = call] /\ calls[Sweeper] = Idle
        /\ UNCHANGED <<rows, offered, facts, keys, faults>>
    BY <1>1, <1>2, Begun DEF SweepFinds, projectVars, Begin
  <2> HIDE DEF call
  <2>3. Carries(call, offered, facts, keys, faults')
    BY <2>1 DEF Carries
  <2> QED BY <1>1, <2>2, <2>3, StillPlaced
<1>3. CASE Repair
  <2>1. UNCHANGED <<rows, offered, facts, keys, faults>> /\ calls[Sweeper].at # "reassign"
    BY <1>3 DEF Repair, projectVars
  <2>2. Answers(Sweeper) \/ \E at \in Step \ {"write", "reassign", "replace"} : Goes(Sweeper, at)
    BY <1>3 DEF Repair, Step
  <2> QED BY <1>1, <2>1, <2>2, GoesPlaced
<1> QED BY <1>2, <1>3

LEMMA StepPlaced == Inv /\ Account /\ Placed /\ [Next]_vars => Placed'
<1> SUFFICES ASSUME Inv, Account, Placed, [Next]_vars PROVE Placed'
  OBVIOUS
<1>1. Inv'
  BY StepKeeps
<1>2. ASSUME NEW c \in Request, Begins(c) PROVE Placed'
  BY <1>2, BeginsPlaced
<1>3. ASSUME NEW c \in Caller, Proceeds(c) PROVE Placed'
  BY <1>1, <1>3, RowStepsPlaced, QuietStepsPlaced, MintPlaced, ExcessPlaced, KeyStatesPlaced,
     ReassignPlaced, RotationPlaced DEF Proceeds
<1>4. ASSUME NEW c \in Caller, Dies(c) PROVE Placed'
  BY <1>4, QuietStepsPlaced
<1>5. CASE Repair \/ \E p \in Project : SweepFinds(p)
  BY <1>5, SweeperPlaced
<1>6. ASSUME NEW k \in DOMAIN keys, KeyExpires(k) PROVE Placed'
  <2>1. KeysStay /\ NewKeysFit
    BY <1>6, StateIsAside DEF KeyExpires, Inv, TypeOK
  <2> QED BY <1>1, <1>6, <2>1, StatesPlaced DEF KeyExpires, projectVars
<1>7. CASE Finished \/ UNCHANGED vars
  <2>1. UNCHANGED vars
    BY <1>7 DEF Finished
  <2>2. KeysStay /\ NewKeysFit
    BY <2>1 DEF vars, KeysStay, NewKeysFit, Inv, TypeOK
  <2> QED BY <1>1, <2>1, <2>2, StatesPlaced DEF vars
<1> QED BY <1>2, <1>3, <1>4, <1>5, <1>6, <1>7 DEF Next

LEMMA InitiallyPlaced == Init => Placed
<1> SUFFICES ASSUME Init PROVE Placed
  OBVIOUS
<1>1. /\ keys = <<>> /\ facts = {} /\ \A c \in Caller : calls[c] = Idle
      /\ \A p \in Project : ~rows[p].claimed
  BY DEF Init, NoRow
<1> QED BY <1>1, IdleCarries DEF Placed, ClaimedIsMade, HoldingIsOffered, FirstIsMoved

\* lifecycle.ts:84, apart from faults: while the first key of a claimed project
\* is live in the holding workspace, the claim is still at work on moving it.
THEOREM KeysFollowClaims == Spec => []KeyFollowsClaim
<1>1. Inv /\ Placed => KeyFollowsClaim
  <2> SUFFICES ASSUME Inv, Placed, NEW p \in Project, NEW k \in Live(p), InWorkspace(p),
                      keys[k].home = "holding", \A other \in KeysOf(p) : k <= other, ~(faults > 0)
               PROVE  \E c \in Request : calls[c].p = p /\ calls[c].op = "claim"
    BY DEF KeyFollowsClaim
  <2>1. faults = 0 /\ keys \in Seq(KeyRow) /\ Request \subseteq Caller
    BY DEF Inv, TypeOK, Caller
  <2>2. k \in DOMAIN keys /\ keys[k].project = p
    BY DEF Live, KeysOf
  <2>3. ~FirstMoved(p, keys)
    BY <2>2 DEF FirstMoved, KeysOf
  <2>4. <<"made", p>> \in facts
    BY DEF Placed, ClaimedIsMade, InWorkspace
  <2>5. PICK c \in Request : calls[c].at = "reassign" /\ calls[c].p = p
    BY <2>1, <2>3, <2>4 DEF Placed, FirstIsMoved
  <2> QED BY <2>1, <2>5 DEF Placed, Carries
<1>2. Spec => []Placed
  <2>1. Spec => []Account
    BY InvHolds, InitiallyTold, StepTold, PTL DEF Spec
  <2> QED BY <2>1, InvHolds, InitiallyPlaced, StepPlaced, PTL DEF Spec
<1> QED BY <1>1, <1>2, InvHolds, PTL
=============================================================================
