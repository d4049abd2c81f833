-------------------------- MODULE LiticsSinkProofs --------------------------
(***************************************************************************)
(* Proofs about LiticsSink, for every set of calls, batches and keys and   *)
(* every pool: the transactions implement EventSink, keys have one row,    *)
(* answers are exact, and ordered reservation never deadlocks.             *)
(*                                                                         *)
(* Inv says where a call and its transaction can be (PhaseOK), that open   *)
(* transactions share no reserved key and have reserved every key of their *)
(* prefix that has no receipt (LocksOK), and what of each batch is stored  *)
(* (StoredOK).  With LocksOK, the rows a transaction prepared before its   *)
(* COMMIT are still the ones the port would store at the COMMIT.           *)
(***************************************************************************)
EXTENDS LiticsSink, FiniteSetTheorems, TLAPS

KeysOf(S) == Sink!KeysOf(S)

InTx(w) == server[w] \in {"open", "committing"}

PhaseOK ==
    \A w \in Writer :
        /\ client[w] \in {"idle", "connecting"} => server[w] = "none"
        /\ client[w] = "reserving" => server[w] = "open"
        /\ client[w] = "committing" => server[w] \in {"committing", "committed"}
        /\ client[w] # "done" => answer[w] = Sink!Pending
        /\ client[w] = "done" =>
               \/ answer[w] = Sink!Failed
               \/ /\ answer[w].kind = "ok"
                  /\ answer[w].written = rows \cap Batch[w]
                  /\ server[w] = "committed" \/ (server[w] = "none" /\ Batch[w] = {})
        /\ server[w] = "none" => seen[w] = {} /\ reserved[w] = {}

LocksOK ==
    /\ \A w \in Writer : reserved[w] \subseteq seen[w] /\ seen[w] \subseteq KeysOf(Batch[w])
    /\ \A w \in Writer : InTx(w) =>
           reserved[w] \cap receipts = {} /\ seen[w] \ reserved[w] \subseteq receipts
    /\ \A v, w \in Writer : v # w /\ InTx(v) /\ InTx(w) => reserved[v] \cap reserved[w] = {}
    /\ \A w \in Writer : \A k \in seen[w], l \in KeysOf(Batch[w]) \ seen[w] : k < l

StoredOK ==
    /\ \A w \in Writer : server[w] \in {"committing", "committed"} =>
           /\ pending[w] = Kept(w) /\ seen[w] = KeysOf(Batch[w])
    /\ \A w \in Writer : rows \cap Batch[w] = IF server[w] = "committed" THEN pending[w] ELSE {}
    /\ \A w \in Writer : server[w] = "committed" => KeysOf(Batch[w]) \subseteq receipts
    /\ KeysOf(rows) = receipts
    /\ \A i, j \in rows \cap Keyed : KeyOf[i] = KeyOf[j] => i = j

Inv == TypeOK /\ PhaseOK /\ LocksOK /\ StoredOK

-----------------------------------------------------------------------------
(* Finite sets of numbers *)

\* Ordering a finite set of numbers by how much of it lies on one side of each
\* member, given as below, finds a member with nothing on that side.
LEMMA HasExtreme ==
    ASSUME NEW T, IsFiniteSet(T), T # {}, NEW below \in [T -> SUBSET T],
           \A x \in T : x \notin below[x],
           \A x, y \in T : y \in below[x] => below[y] \subseteq below[x]
    PROVE  \E x \in T : below[x] = {}
<1> DEFINE F == {below[x] : x \in T}
           R == StrictSubsetOrdering(T)
<1>1. F \subseteq FiniteSubsetsOf(T) /\ F # {}
  BY FS_FiniteSubsetsOfFinite
<1>2. IsWellFoundedOn(R, FiniteSubsetsOf(T))
  BY FS_StrictSubsetOrderingWellFounded
<1>3. \E B \in F : \A C \in F : ~(<<C, B>> \in R)
  <2> HIDE DEF F, R
  <2> QED BY <1>1, <1>2, WFMin
<1>4. PICK x \in T : \A C \in F : ~(<<C, below[x]>> \in R)
  BY <1>3
<1>5. SUFFICES ASSUME NEW y \in below[x] PROVE FALSE
  OBVIOUS
<1>6. y \in T /\ below[y] \subseteq below[x] /\ below[y] # below[x]
  OBVIOUS
<1>7. <<below[y], below[x]>> \in R
  BY <1>6 DEF StrictSubsetOrdering
<1> QED BY <1>4, <1>6, <1>7

LEMMA HasLeast ==
    ASSUME NEW T \in SUBSET Nat, IsFiniteSet(T), T # {}
    PROVE  \E x \in T : \A y \in T : x <= y
<1> DEFINE below == [x \in T |-> {y \in T : y < x}]
<1>1. \E x \in T : below[x] = {}
  <2>1. below \in [T -> SUBSET T] /\ \A x \in T : x \notin below[x]
    OBVIOUS
  <2>2. \A x, y \in T : y \in below[x] => below[y] \subseteq below[x]
    <3> SUFFICES ASSUME NEW x \in T, NEW y \in below[x], NEW z \in below[y]
                 PROVE  z \in below[x]
      OBVIOUS
    <3>1. x \in Nat /\ y \in Nat /\ z \in Nat /\ z \in T
      OBVIOUS
    <3> QED BY <3>1
  <2> HIDE DEF below
  <2> QED BY <2>1, <2>2, HasExtreme
<1> QED BY <1>1

LEMMA HasGreatest ==
    ASSUME NEW T \in SUBSET Nat, IsFiniteSet(T), T # {}
    PROVE  \E x \in T : \A y \in T : y <= x
<1> DEFINE above == [x \in T |-> {y \in T : y > x}]
<1>1. \E x \in T : above[x] = {}
  <2>1. above \in [T -> SUBSET T] /\ \A x \in T : x \notin above[x]
    OBVIOUS
  <2>2. \A x, y \in T : y \in above[x] => above[y] \subseteq above[x]
    <3> SUFFICES ASSUME NEW x \in T, NEW y \in above[x], NEW z \in above[y]
                 PROVE  z \in above[x]
      OBVIOUS
    <3>1. x \in Nat /\ y \in Nat /\ z \in Nat /\ z \in T
      OBVIOUS
    <3> QED BY <3>1
  <2> HIDE DEF above
  <2> QED BY <2>1, <2>2, HasExtreme
<1> QED BY <1>1

-----------------------------------------------------------------------------
(* What a transaction keeps *)

\* The batch's keys are finitely many numbers.
LEMMA KeysAreNumbers ==
    ASSUME NEW w \in Writer
    PROVE  KeysOf(Batch[w]) \subseteq Key /\ Key \subseteq Nat /\ Batch[w] \subseteq Item
BY SinkAssumption DEF KeysOf, Sink!KeysOf, Key

\* Of each key it reserved, a transaction keeps exactly one item, and it keeps
\* every item without a key (fresh.delete, sink.ts:166-171).
LEMMA KeptIsFresh ==
    ASSUME NEW w \in Writer, reserved[w] \subseteq KeysOf(Batch[w])
    PROVE  /\ Kept(w) \subseteq Batch[w]
           /\ Batch[w] \ Keyed \subseteq Kept(w)
           /\ KeysOf(Kept(w)) = reserved[w]
           /\ \A i, j \in Kept(w) \cap Keyed : KeyOf[i] = KeyOf[j] => i = j
<1>1. Kept(w) \subseteq Batch[w] /\ Batch[w] \ Keyed \subseteq Kept(w)
  BY DEF Kept
<1>2. KeysOf(Kept(w)) \subseteq reserved[w]
  BY DEF Kept, KeysOf, Sink!KeysOf
<1>3. ASSUME NEW k \in reserved[w] PROVE k \in KeysOf(Kept(w))
  <2> DEFINE T == {i \in Batch[w] \cap Keyed : KeyOf[i] = k}
  <2>1. T \subseteq Item /\ T \subseteq Nat /\ T # {}
    BY <1>3, SinkAssumption DEF KeysOf, Sink!KeysOf
  <2>2. IsFiniteSet(T)
    BY <2>1, SinkAssumption, FS_Subset
  <2>3. \E i \in T : \A j \in T : i <= j
    <3> HIDE DEF T
    <3> QED BY <2>1, <2>2, HasLeast
  <2>4. PICK i \in T : \A j \in T : i <= j
    BY <2>3
  <2>5. i \in Kept(w) /\ i \in Keyed /\ KeyOf[i] = k
    BY <1>3, <2>4 DEF Kept
  <2> QED BY <2>5 DEF KeysOf, Sink!KeysOf
<1>4. ASSUME NEW i \in Kept(w) \cap Keyed, NEW j \in Kept(w) \cap Keyed, KeyOf[i] = KeyOf[j]
      PROVE  i = j
  <2>1. i <= j /\ j <= i
    BY <1>4 DEF Kept
  <2>2. i \in Nat /\ j \in Nat
    BY SinkAssumption
  <2> QED BY <2>1, <2>2
<1> QED BY <1>1, <1>2, <1>3, <1>4

-----------------------------------------------------------------------------
LEMMA InitInv == Init => Inv
<1> SUFFICES ASSUME Init PROVE Inv
  OBVIOUS
<1>1. TypeOK /\ PhaseOK
  BY SinkAssumption DEF Init, TypeOK, PhaseOK, Sink!Pending
<1>2. LocksOK
  BY DEF Init, LocksOK, InTx
<1>3. StoredOK
  BY DEF Init, StoredOK, KeysOf, Sink!KeysOf
<1> QED BY <1>1, <1>2, <1>3 DEF Inv

\* Steps of the client alone: calling, giving up, taking its answer.
LEMMA ClientStepInv ==
    ASSUME Inv, NEW w \in Writer,
           CallEmpty(w) \/ Call(w) \/ AnswerOk(w) \/ Throws(w)
    PROVE  Inv'
<1> USE DEF Inv
<1>1. UNCHANGED <<txVars, receipts, rows>>
  BY DEF CallEmpty, Call, AnswerOk, Throws
<1>2. TypeOK'
  BY <1>1 DEF CallEmpty, Call, AnswerOk, Throws, TypeOK, txVars, Sink!Written, Sink!Failed
<1>3. PhaseOK'
  <2>1. CASE CallEmpty(w)
    <3>1. server[w] = "none" /\ rows \cap Batch[w] = {}
      BY <2>1 DEF CallEmpty, PhaseOK, TypeOK
    <3> QED BY <1>1, <2>1, <3>1 DEF CallEmpty, PhaseOK, TypeOK, txVars, Sink!Written
  <2>2. CASE Call(w)
    BY <1>1, <2>2 DEF Call, PhaseOK, TypeOK, txVars
  <2>3. CASE AnswerOk(w)
    <3>1. pending[w] = rows \cap Batch[w]
      BY <2>3 DEF AnswerOk, StoredOK
    <3> QED BY <1>1, <2>3, <3>1 DEF AnswerOk, PhaseOK, TypeOK, txVars, Sink!Written
  <2>4. CASE Throws(w)
    BY <1>1, <2>4 DEF Throws, PhaseOK, TypeOK, txVars, Sink!Failed
  <2> QED BY <2>1, <2>2, <2>3, <2>4
<1>4. LocksOK'
  BY <1>1 DEF LocksOK, InTx, txVars
<1>5. StoredOK'
  BY <1>1 DEF StoredOK, Kept, txVars
<1> QED BY <1>2, <1>3, <1>4, <1>5

LEMMA ConnectInv ==
    ASSUME Inv, NEW w \in Writer, Connect(w)
    PROVE  Inv'
<1> USE DEF Inv
<1>1. /\ client[w] = "connecting" /\ client' = [client EXCEPT ![w] = "reserving"]
      /\ server[w] = "none" /\ server' = [server EXCEPT ![w] = "open"]
      /\ seen[w] = {} /\ reserved[w] = {}
      /\ UNCHANGED <<seen, reserved, pending, receipts, rows, answer>>
  BY DEF Connect, PhaseOK
<1>2. TypeOK' /\ PhaseOK'
  BY <1>1 DEF TypeOK, PhaseOK
<1>3. LocksOK'
  BY <1>1 DEF LocksOK, InTx, TypeOK
<1>4. StoredOK'
  BY <1>1 DEF StoredOK, Kept, TypeOK
<1> QED BY <1>2, <1>3, <1>4

LEMMA ReserveInv ==
    ASSUME Inv, NEW w \in Writer, Reserve(w)
    PROVE  Inv'
<1> USE DEF Inv
<1>1. PICK k \in Key :
          /\ IsNextKey(w, k) /\ ~Blocked(w, k)
          /\ seen' = [seen EXCEPT ![w] = @ \cup {k}]
          /\ reserved' = IF k \in receipts THEN reserved
                         ELSE [reserved EXCEPT ![w] = @ \cup {k}]
  BY DEF Reserve
<1>2. /\ client[w] = "reserving" /\ server[w] = "open"
      /\ UNCHANGED <<client, server, pending, receipts, rows, answer>>
  BY DEF Reserve
<1>3. k \in KeysOf(Batch[w]) \ seen[w] /\ \A l \in KeysOf(Batch[w]) \ seen[w] : k <= l
  BY <1>1 DEF IsNextKey, KeysOf
<1>4. TypeOK'
  BY <1>1, <1>2 DEF TypeOK
<1>5. PhaseOK'
  BY <1>1, <1>2 DEF PhaseOK, TypeOK
<1>6. /\ seen'[w] = seen[w] \cup {k}
      /\ reserved'[w] = IF k \in receipts THEN reserved[w] ELSE reserved[w] \cup {k}
      /\ \A v \in Writer : v # w => seen'[v] = seen[v] /\ reserved'[v] = reserved[v]
  BY <1>1 DEF TypeOK
<1>7. LocksOK'
  <2>1. \A v \in Writer : reserved'[v] \subseteq seen'[v] /\ seen'[v] \subseteq KeysOf(Batch[v])
    BY <1>3, <1>6 DEF LocksOK
  <2>2. \A v \in Writer : InTx(v)' =>
            reserved'[v] \cap receipts' = {} /\ seen'[v] \ reserved'[v] \subseteq receipts'
    BY <1>2, <1>6 DEF LocksOK, InTx
  <2>3. ASSUME NEW u \in Writer, NEW v \in Writer, u # v, InTx(u)', InTx(v)'
        PROVE  reserved'[u] \cap reserved'[v] = {}
    <3>1. \A x \in Writer : x # w /\ InTx(x) => k \notin reserved[x]
      BY <1>1 DEF Blocked, Holds, InTx
    <3>2. InTx(u) /\ InTx(v) /\ reserved[u] \cap reserved[v] = {}
      BY <1>2, <2>3 DEF InTx, LocksOK
    <3> QED BY <1>6, <2>3, <3>1, <3>2
  <2>4. ASSUME NEW v \in Writer, NEW x \in seen'[v], NEW l \in KeysOf(Batch[v]) \ seen'[v]
        PROVE  x < l
    <3>1. CASE v # w
      BY <1>6, <2>4, <3>1 DEF LocksOK
    <3>2. CASE v = w
      <4>1. l \in KeysOf(Batch[w]) \ seen[w] /\ l # k
        BY <1>6, <2>4, <3>2
      <4>2. k \in Nat /\ l \in Nat
        BY <1>3, <4>1, KeysAreNumbers
      <4>3. CASE x = k
        BY <1>3, <4>1, <4>2, <4>3
      <4>4. CASE x \in seen[w]
        BY <4>1, <4>4 DEF LocksOK
      <4> QED BY <1>6, <2>4, <3>2, <4>3, <4>4
    <3> QED BY <3>1, <3>2
  <2> QED BY <2>1, <2>2, <2>3, <2>4 DEF LocksOK
<1>8. StoredOK'
  <2>1. \A v \in Writer : server[v] \in {"committing", "committed"} =>
            v # w /\ Kept(v)' = Kept(v)
    BY <1>2, <1>6 DEF Kept
  <2> QED BY <1>2, <1>6, <2>1 DEF StoredOK
<1> QED BY <1>4, <1>5, <1>7, <1>8

LEMMA WriteInv ==
    ASSUME Inv, NEW w \in Writer, Write(w)
    PROVE  Inv'
<1> USE DEF Inv
<1>1. /\ client[w] = "reserving" /\ server[w] = "open"
      /\ KeysOf(Batch[w]) \subseteq seen[w]
      /\ pending' = [pending EXCEPT ![w] = Kept(w)]
      /\ client' = [client EXCEPT ![w] = "committing"]
      /\ server' = [server EXCEPT ![w] = "committing"]
      /\ UNCHANGED <<seen, reserved, receipts, rows, answer>>
  BY DEF Write, KeysOf
<1>2. Kept(w) \subseteq Item
  BY SinkAssumption DEF Kept
<1>3. TypeOK' /\ PhaseOK'
  BY <1>1, <1>2 DEF TypeOK, PhaseOK
<1>4. LocksOK'
  BY <1>1 DEF LocksOK, InTx, TypeOK
<1>5. StoredOK'
  <2>1. seen[w] = KeysOf(Batch[w])
    BY <1>1 DEF LocksOK
  <2>2. \A v \in Writer : Kept(v)' = Kept(v)
    BY <1>1 DEF Kept
  <2> QED BY <1>1, <2>1, <2>2 DEF StoredOK, TypeOK
<1> QED BY <1>3, <1>4, <1>5

\* COMMIT stores what the port would: the keys it did not reserve have receipts
\* already and nobody else could reserve the ones it did.
LEMMA CommitStores ==
    ASSUME Inv, NEW w \in Writer, server[w] = "committing"
    PROVE  /\ Sink!Fresh(w, pending[w])
           /\ receipts \cup reserved[w] = receipts \cup KeysOf(pending[w])
           /\ reserved[w] \cap receipts = {}
           /\ receipts \cup reserved[w] = receipts \cup KeysOf(Batch[w])
<1> USE DEF Inv
<1>1. reserved[w] \subseteq KeysOf(Batch[w]) /\ pending[w] = Kept(w)
      /\ seen[w] = KeysOf(Batch[w])
  BY DEF LocksOK, StoredOK
<1>2. reserved[w] \cap receipts = {} /\ seen[w] \ reserved[w] \subseteq receipts
  BY DEF LocksOK, InTx
<1>3. KeysOf(pending[w]) = reserved[w]
  BY <1>1, KeptIsFresh
<1>4. reserved[w] = KeysOf(Batch[w]) \ receipts
  BY <1>1, <1>2
<1>5. Sink!Fresh(w, pending[w])
  BY <1>1, <1>3, <1>4, KeptIsFresh DEF Sink!Fresh, KeysOf
<1> QED BY <1>2, <1>3, <1>4, <1>5

LEMMA ServerCommitsInv ==
    ASSUME Inv, NEW w \in Writer, ServerCommits(w)
    PROVE  Inv'
<1> USE DEF Inv
<1>1. /\ server[w] = "committing" /\ server' = [server EXCEPT ![w] = "committed"]
      /\ receipts' = receipts \cup reserved[w]
      /\ rows' = rows \cup pending[w]
      /\ UNCHANGED <<client, seen, reserved, pending, answer>>
  BY DEF ServerCommits
<1>2. /\ reserved[w] \subseteq KeysOf(Batch[w]) /\ pending[w] = Kept(w)
      /\ pending[w] \subseteq Batch[w] /\ KeysOf(pending[w]) = reserved[w]
      /\ \A i, j \in pending[w] \cap Keyed : KeyOf[i] = KeyOf[j] => i = j
  <2>1. reserved[w] \subseteq KeysOf(Batch[w]) /\ pending[w] = Kept(w)
    BY <1>1 DEF LocksOK, StoredOK
  <2> QED BY <2>1, KeptIsFresh
<1>3. /\ reserved[w] \cap receipts = {}
      /\ receipts' = receipts \cup KeysOf(Batch[w])
  BY <1>1, CommitStores
<1>4. \A v \in Writer : v # w => Batch[v] \cap pending[w] = {}
  BY <1>2, SinkAssumption
<1>5. rows \cap Batch[w] = {} /\ rows' \cap Batch[w] = pending[w]
  BY <1>1, <1>2 DEF StoredOK
<1>6. \A v \in Writer : v # w => rows' \cap Batch[v] = rows \cap Batch[v]
  BY <1>1, <1>4
<1>7. TypeOK'
  BY <1>1 DEF TypeOK
<1>8. PhaseOK'
  <2> SUFFICES ASSUME NEW v \in Writer, client[v] = "done", answer[v].kind = "ok"
               PROVE  v # w
    BY <1>1, <1>6 DEF PhaseOK, TypeOK
  <2> QED BY <1>1 DEF PhaseOK, Sink!Failed
<1>9. LocksOK'
  <2>1. \A v \in Writer : InTx(v)' => InTx(v) /\ v # w
    BY <1>1 DEF InTx, TypeOK
  <2>2. \A v \in Writer : InTx(v)' => reserved[v] \cap reserved[w] = {}
    BY <1>1, <2>1 DEF LocksOK, InTx
  <2> QED BY <1>1, <2>1, <2>2 DEF LocksOK
<1>10. StoredOK'
  <2>1. \A v \in Writer : Kept(v)' = Kept(v)
    BY <1>1 DEF Kept
  <2>2. KeysOf(rows') = receipts'
    BY <1>1, <1>2 DEF StoredOK, KeysOf, Sink!KeysOf
  <2>3. ASSUME NEW i \in rows' \cap Keyed, NEW j \in rows' \cap Keyed, KeyOf[i] = KeyOf[j]
        PROVE  i = j
    <3>1. \A x \in pending[w] \cap Keyed : KeyOf[x] \in reserved[w]
      BY <1>2 DEF KeysOf, Sink!KeysOf
    <3>2. \A x \in rows \cap Keyed : KeyOf[x] \in receipts
      BY DEF StoredOK, KeysOf, Sink!KeysOf
    <3> QED BY <1>1, <1>2, <1>3, <2>3, <3>1, <3>2 DEF StoredOK
  <2>4. \A v \in Writer : server'[v] = "committed" => KeysOf(Batch[v]) \subseteq receipts'
    BY <1>1, <1>3 DEF StoredOK, TypeOK
  <2>5. \A v \in Writer : rows' \cap Batch[v] = IF server'[v] = "committed" THEN pending'[v] ELSE {}
    BY <1>1, <1>5, <1>6 DEF StoredOK, TypeOK
  <2>6. \A v \in Writer : server'[v] \in {"committing", "committed"} =>
            pending'[v] = Kept(v)' /\ seen'[v] = KeysOf(Batch[v])
    BY <1>1, <2>1 DEF StoredOK, TypeOK
  <2> QED BY <2>2, <2>3, <2>4, <2>5, <2>6 DEF StoredOK
<1> QED BY <1>7, <1>8, <1>9, <1>10

LEMMA RollbackInv ==
    ASSUME Inv, NEW w \in Writer, Rollback(w)
    PROVE  Inv'
<1> USE DEF Inv
<1>1. /\ answer[w].kind = "err" /\ server[w] \in {"open", "committing"}
      /\ server' = [server EXCEPT ![w] = "aborted"]
      /\ UNCHANGED <<client, seen, reserved, pending, receipts, rows, answer>>
  BY DEF Rollback
<1>2. client[w] = "done" /\ answer[w] = Sink!Failed
  BY <1>1 DEF PhaseOK, TypeOK, Sink!Pending
<1>3. TypeOK'
  BY <1>1 DEF TypeOK
<1>4. PhaseOK'
  BY <1>1, <1>2 DEF PhaseOK, TypeOK
<1>5. LocksOK'
  BY <1>1 DEF LocksOK, InTx, TypeOK
<1>6. StoredOK'
  BY <1>1 DEF StoredOK, Kept, TypeOK
<1> QED BY <1>3, <1>4, <1>5, <1>6

-----------------------------------------------------------------------------
\* Inv holds in every reachable state, through every failure and lost answer of
\* writeBatch (sink.ts:131-193).
THEOREM InvHolds == Spec => []Inv
<1>1. Inv /\ [Next]_vars => Inv'
  <2> SUFFICES ASSUME Inv, [Next]_vars PROVE Inv'
    OBVIOUS
  <2>1. ASSUME NEW w \in Writer, Progress(w) \/ Throws(w) \/ Ends(w) PROVE Inv'
    BY <2>1, ClientStepInv, ConnectInv, ReserveInv, WriteInv, ServerCommitsInv, RollbackInv
       DEF Progress, Ends
  <2>2. CASE UNCHANGED vars
    BY <2>2 DEF vars, txVars, Inv, TypeOK, PhaseOK, LocksOK, StoredOK, InTx, Kept
  <2> QED BY <2>1, <2>2 DEF Next, Finished
<1> QED BY <1>1, InitInv, PTL DEF Spec

\* Every variable keeps its type.
THEOREM TypesHold == Spec => []TypeOK
<1>1. Inv => TypeOK
  BY DEF Inv
<1> QED BY <1>1, InvHolds, PTL

\* A key is stored once exactly when it has a receipt (sink.ts:162).
THEOREM RowsAreUnique == Spec => []OneRowPerKey
<1>1. Inv => OneRowPerKey
  BY DEF Inv, StoredOK, OneRowPerKey, Sink!OneRowPerKey, KeysOf
<1> QED BY <1>1, InvHolds, PTL

\* An answer names exactly the rows its batch added, and leaves out only events
\* that are durable already (sink.ts:186).
THEOREM AnswersHold == Spec => []AnswersAreExact
<1>1. Inv => AnswersAreExact
  <2> SUFFICES ASSUME Inv, NEW w \in Writer, answer[w].kind = "ok"
               PROVE  /\ answer[w].written = rows \cap Batch[w]
                      /\ Batch[w] \ Keyed \subseteq rows
                      /\ KeysOf(Batch[w]) \subseteq receipts
    BY DEF AnswersAreExact, Sink!AnswersAreExact, KeysOf
  <2> USE DEF Inv
  <2>1. client[w] = "done"
    BY DEF PhaseOK, TypeOK, Sink!Pending
  <2>2. /\ answer[w].written = rows \cap Batch[w]
        /\ server[w] = "committed" \/ Batch[w] = {}
    BY <2>1 DEF PhaseOK, Sink!Failed
  <2>3. CASE server[w] = "committed"
    <3>1. rows \cap Batch[w] = Kept(w) /\ KeysOf(Batch[w]) \subseteq receipts
      BY <2>3 DEF StoredOK
    <3>2. Batch[w] \ Keyed \subseteq Kept(w)
      BY DEF Kept
    <3> QED BY <2>2, <3>1, <3>2
  <2>4. CASE Batch[w] = {}
    BY <2>2, <2>4 DEF KeysOf, Sink!KeysOf
  <2> QED BY <2>2, <2>3, <2>4
<1> QED BY <1>1, InvHolds, PTL

\* Sorted reservation never deadlocks (sink.ts:154-161): along a chain of calls
\* that wait on each other the keys they wait for grow.
THEOREM NeverDeadlocks == Spec => []NoDeadlock
<1>1. Inv => NoDeadlock
  <2> SUFFICES ASSUME Inv, NEW S \in (SUBSET Writer) \ {{}},
                      ~\E w \in S : ~\E k \in Key, v \in S \ {w} :
                          client[w] = "reserving" /\ IsNextKey(w, k) /\ Holds(v, k)
               PROVE  FALSE
    BY Zenon DEF NoDeadlock
  <2> DEFINE T == {k \in Key : \E w \in S : client[w] = "reserving" /\ IsNextKey(w, k)
                                   /\ \E v \in S \ {w} : Holds(v, k)}
  <2>1. T \subseteq Nat /\ T # {}
    <3>1. PICK w \in S : TRUE
      OBVIOUS
    <3>2. \E k \in Key, v \in S \ {w} :
              client[w] = "reserving" /\ IsNextKey(w, k) /\ Holds(v, k)
      BY <3>1
    <3>3. T # {}
      BY <3>1, <3>2
    <3>4. Key \subseteq Nat
      BY SinkAssumption DEF Key
    <3> QED BY <3>3, <3>4
  <2>2. IsFiniteSet(T)
    <3>1. IsFiniteSet(Keyed)
      BY SinkAssumption, FS_Subset
    <3>2. KeyOf \in Surjection(Keyed, Key)
      BY SinkAssumption DEF Key, Surjection
    <3>3. IsFiniteSet(Key)
      BY <3>1, <3>2, FS_Surjection
    <3> QED BY <3>3, FS_Subset
  <2>3. \E k \in T : \A l \in T : l <= k
    <3> HIDE DEF T
    <3> QED BY <2>1, <2>2, HasGreatest
  <2>4. PICK k \in T : \A l \in T : l <= k
    BY <2>3
  <2>5. PICK v \in S : Holds(v, k)
    BY <2>4
  <2>6. PICK l \in Key : client[v] = "reserving" /\ IsNextKey(v, l)
                             /\ \E u \in S \ {v} : Holds(u, l)
    OBVIOUS
  <2>7. l \in T
    BY <2>6
  <2>8. k \in seen[v] /\ l \in KeysOf(Batch[v]) \ seen[v]
    BY <2>5, <2>6 DEF Inv, LocksOK, Holds, IsNextKey, KeysOf
  <2>9. k < l
    BY <2>8 DEF Inv, LocksOK
  <2>10. k \in Nat /\ l \in Nat /\ l <= k
    BY <2>1, <2>4, <2>7
  <2> QED BY <2>9, <2>10
<1> QED BY <1>1, InvHolds, PTL

\* Every step of the transactions is a step of the port's abstract batch write,
\* or none: COMMIT is the write, whoever still listens (sink.ts:185).
THEOREM Implements == Spec => Refines
<1> DEFINE st == [w \in Writer |-> server[w] = "committed"]
<1>1. Init => Sink!Init
  BY DEF Init, Sink!Init
<1>2. Inv /\ [Next]_vars => [Sink!Next]_Sink!vars
  <2> SUFFICES ASSUME Inv, [Next]_vars PROVE Sink!Next \/ UNCHANGED Sink!vars
    OBVIOUS
  <2> USE DEF Inv
  <2>1. ASSUME NEW w \in Writer, ServerCommits(w) PROVE Sink!Store(w)
    <3>1. server[w] = "committing" /\ server' = [server EXCEPT ![w] = "committed"]
          /\ receipts' = receipts \cup reserved[w] /\ rows' = rows \cup pending[w]
          /\ answer' = answer
      BY <2>1 DEF ServerCommits
    <3>2. answer[w].kind # "ok"
      BY <3>1 DEF PhaseOK, Sink!Pending, Sink!Failed
    <3>3. Sink!Fresh(w, pending[w]) /\ receipts' = receipts \cup Sink!KeysOf(pending[w])
      BY <3>1, CommitStores DEF KeysOf
    <3>4. pending[w] \in SUBSET Batch[w]
      BY <3>3 DEF Sink!Fresh
    <3>5. st' = [st EXCEPT ![w] = TRUE] /\ ~st[w]
      BY <3>1 DEF TypeOK
    <3> QED BY <3>1, <3>2, <3>3, <3>4, <3>5 DEF Sink!Store
  <2>2. ASSUME NEW w \in Writer, AnswerOk(w) PROVE Sink!AnswerOk(w)
    <3>1. answer[w] = Sink!Pending /\ st[w] /\ pending[w] = rows \cap Batch[w]
      BY <2>2 DEF AnswerOk, PhaseOK, StoredOK
    <3> QED BY <2>2, <3>1 DEF AnswerOk, Sink!AnswerOk, txVars
  <2>3. ASSUME NEW w \in Writer, CallEmpty(w) PROVE Sink!AnswerOk(w)
    <3>1. answer[w] = Sink!Pending /\ Batch[w] = {} /\ rows \cap Batch[w] = {}
      BY <2>3 DEF CallEmpty, PhaseOK
    <3> QED BY <2>3, <3>1 DEF CallEmpty, Sink!AnswerOk, txVars
  <2>4. ASSUME NEW w \in Writer, Throws(w) PROVE Sink!AnswerErr(w)
    <3>1. answer[w] = Sink!Pending
      BY <2>4 DEF Throws, PhaseOK
    <3> QED BY <2>4, <3>1 DEF Throws, Sink!AnswerErr, txVars
  <2>5. ASSUME NEW w \in Writer, Call(w) \/ Connect(w) \/ Reserve(w) \/ Write(w) \/ Rollback(w)
        PROVE  UNCHANGED Sink!vars
    <3>1. UNCHANGED <<receipts, rows, answer>>
      BY <2>5 DEF Call, Connect, Reserve, Write, Rollback
    <3>2. st' = st
      BY <2>5 DEF Call, Connect, Reserve, Write, Rollback, txVars, PhaseOK, TypeOK
    <3> QED BY <3>1, <3>2 DEF Sink!vars
  <2>6. CASE UNCHANGED vars
    BY <2>6 DEF vars, txVars, Sink!vars
  <2> QED BY <2>1, <2>2, <2>3, <2>4, <2>5, <2>6 DEF Next, Progress, Ends, Finished, Sink!Next
<1> QED BY <1>1, <1>2, InvHolds, PTL DEF Spec, Refines, Sink!Spec
=============================================================================
