---------------------------- MODULE OutboxProofs ----------------------------
(***************************************************************************)
(* Proofs about Outbox, for every set of commands, events and workers and  *)
(* every bound.                                                            *)
(*                                                                         *)
(* Inv relates what a worker carries to the table (TypeOK), the table to   *)
(* the commands (Announced), what is carried or marked as delivered to     *)
(* what the subscriber got (Received), and accounts for every delivery     *)
(* (Counted): a delivery, an envelope some worker may still deliver and a  *)
(* row that can be claimed each use up one of 1 + lapses + failures.       *)
(***************************************************************************)
EXTENDS Outbox, FiniteSetTheorems, TLAPS

Announced ==
    \A c \in Command :
        /\ c \in changed <=> tx[c] = "committed"
        /\ c \in changed => EventsOf[c] \subseteq stored
        /\ c \notin changed => EventsOf[c] \cap stored = {}

IdleIsEmpty == \A w \in Worker : pc[w] = "idle" => todo[w] = {} /\ delivered[w] = {}

Received ==
    /\ \A e \in Event : received[e] > 0 => e \in stored
    /\ \A w \in Worker : \A e \in delivered[w] : received[e] > 0
    /\ \A e \in dispatched : received[e] > 0

\* The workers that may still deliver e from a claim they made.
Open(e) == {w \in Worker : e \in todo[w] /\ ~(pc[w] = "failing" /\ IsNext(w, e))}

Waits(e) == IF Live(e) THEN 0 ELSE 1

Counted ==
    \A e \in Event \ Dead :
        received[e] + Cardinality(Open(e)) + Waits(e) <= 1 + lapses[e] + attempts[e]

Inv == TypeOK /\ Announced /\ IdleIsEmpty /\ Received /\ Counted

-----------------------------------------------------------------------------
(* Finite sets of workers *)

LEMMA WorkersFinite ==
    ASSUME NEW S \in SUBSET Worker
    PROVE  IsFiniteSet(S) /\ Cardinality(S) \in Nat
BY OutboxAssumption, FS_Subset, FS_CardinalityType

\* Fewer workers count no more.
LEMMA Fewer ==
    ASSUME NEW S \in SUBSET Worker, NEW T \in SUBSET S
    PROVE  Cardinality(T) <= Cardinality(S)
           /\ Cardinality(T) \in Nat /\ Cardinality(S) \in Nat
BY WorkersFinite, FS_Subset

\* One worker less counts one less.
LEMMA OneLess ==
    ASSUME NEW S \in SUBSET Worker, NEW w \in S, NEW T \in SUBSET (S \ {w})
    PROVE  Cardinality(T) + 1 <= Cardinality(S)
           /\ Cardinality(T) \in Nat /\ Cardinality(S) \in Nat
<1>1. IsFiniteSet(S) /\ Cardinality(S) \in Nat
  BY WorkersFinite
<1>2. Cardinality(S \ {w}) = Cardinality(S) - 1
  BY <1>1, FS_RemoveElement
<1>3. Cardinality(T) <= Cardinality(S \ {w}) /\ Cardinality(T) \in Nat
  BY Fewer
<1> QED BY <1>1, <1>2, <1>3

\* One worker more counts at most one more.
LEMMA OneMore ==
    ASSUME NEW S \in SUBSET Worker, NEW w \in Worker, NEW T \in SUBSET (S \cup {w})
    PROVE  Cardinality(T) <= Cardinality(S) + 1
           /\ Cardinality(T) \in Nat /\ Cardinality(S) \in Nat
<1>1. IsFiniteSet(S) /\ Cardinality(S) \in Nat
  BY WorkersFinite
<1>2. Cardinality(S \cup {w}) <= Cardinality(S) + 1 /\ Cardinality(S \cup {w}) \in Nat
  <2>1. /\ IsFiniteSet(S \cup {w})
        /\ Cardinality(S \cup {w}) = IF w \in S THEN Cardinality(S) ELSE Cardinality(S) + 1
    BY <1>1, FS_AddElement
  <2>2. Cardinality(S \cup {w}) \in Nat
    BY <2>1, FS_CardinalityType
  <2> QED BY <1>1, <2>1, <2>2
<1>3. Cardinality(T) <= Cardinality(S \cup {w}) /\ Cardinality(T) \in Nat
  BY Fewer
<1> QED BY <1>1, <1>2, <1>3

\* When no worker may deliver more of what it holds and nothing else moves
\* against the account, the account still balances.
LEMMA CountedKept ==
    ASSUME TypeOK, Counted,
           \A e \in Event : Open(e)' \in SUBSET Open(e),
           UNCHANGED <<received, lapses, attempts, lease>>
    PROVE  Counted'
<1> SUFFICES ASSUME NEW e \in Event \ Dead
             PROVE  received[e] + Cardinality(Open(e)') + Waits(e)
                        <= 1 + lapses[e] + attempts[e]
  BY DEF Counted, Waits, Live
<1>1. Open(e) \in SUBSET Worker
  BY DEF Open
<1>2. /\ Cardinality(Open(e)') <= Cardinality(Open(e))
      /\ Cardinality(Open(e)') \in Nat /\ Cardinality(Open(e)) \in Nat
  BY <1>1, Fewer
<1>3. received[e] \in Nat /\ lapses[e] \in Nat /\ attempts[e] \in Nat /\ Waits(e) \in Nat
  BY DEF TypeOK, Waits
<1>4. received[e] + Cardinality(Open(e)) + Waits(e) <= 1 + lapses[e] + attempts[e]
  BY DEF Counted
<1> QED BY <1>2, <1>3, <1>4

-----------------------------------------------------------------------------
(* The commands *)

LEMMA InitInv == Init => Inv
<1> SUFFICES ASSUME Init PROVE Inv
  OBVIOUS
<1>1. TypeOK
  BY OutboxAssumption DEF Init, TypeOK
<1>2. Announced /\ IdleIsEmpty /\ Received
  BY OutboxAssumption DEF Init, Announced, IdleIsEmpty, Received
<1>3. Counted
  <2> SUFFICES ASSUME NEW e \in Event \ Dead
               PROVE  received[e] + Cardinality(Open(e)) + Waits(e)
                          <= 1 + lapses[e] + attempts[e]
    BY DEF Counted
  <2>1. Open(e) = {} /\ Waits(e) = 1
    BY OutboxAssumption DEF Init, Open, Waits, Live
  <2> QED BY <2>1, FS_EmptySet DEF Init
<1> QED BY <1>1, <1>2, <1>3 DEF Inv

\* A step of a transaction leaves what the workers account for alone.
LEMMA TransactInv ==
    ASSUME Inv, NEW c \in Command, Transact(c)
    PROVE  Inv'
<1> USE DEF Inv
<1>1. UNCHANGED <<lease, attempts, dispatched, workerVars, received, faultVars>>
  BY DEF Transact, Save, Enqueue, Commit, Rollback, txVars, rowVars
<1>2. stored \subseteq stored' /\ stored' \in SUBSET Event
  BY OutboxAssumption DEF Transact, Save, Enqueue, Commit, Rollback, rowVars, TypeOK
<1>3. TypeOK'
  <2>1. tx' \in [Command -> {"idle", "saved", "enqueued", "committed", "rolledback"}]
        /\ changed' \in SUBSET Command
    BY DEF Transact, Save, Enqueue, Commit, Rollback, TypeOK
  <2> QED BY <1>1, <1>2, <2>1 DEF TypeOK, workerVars, faultVars
<1>4. Announced'
  <2>1. CASE Save(c) \/ Enqueue(c) \/ Rollback(c)
    BY <2>1 DEF Save, Enqueue, Rollback, Announced, rowVars, TypeOK
  <2>2. CASE Commit(c)
    <3> SUFFICES ASSUME NEW d \in Command
                 PROVE  /\ d \in changed' <=> tx'[d] = "committed"
                        /\ d \in changed' => EventsOf[d] \subseteq stored'
                        /\ d \notin changed' => EventsOf[d] \cap stored' = {}
      BY DEF Announced
    <3>1. CASE d = c
      BY <2>2, <3>1 DEF Commit, TypeOK
    <3>2. CASE d # c
      <4>1. EventsOf[c] \cap EventsOf[d] = {}
        BY <3>2, OutboxAssumption
      <4> QED BY <2>2, <3>2, <4>1 DEF Commit, Announced, TypeOK
    <3> QED BY <3>1, <3>2
  <2> QED BY <2>1, <2>2 DEF Transact
<1>5. IdleIsEmpty' /\ Received'
  BY <1>1, <1>2 DEF IdleIsEmpty, Received, workerVars
<1>6. Counted'
  BY <1>1 DEF Counted, Open, Waits, Live, IsNext, workerVars, faultVars
<1> QED BY <1>3, <1>4, <1>5, <1>6

-----------------------------------------------------------------------------
(* The workers *)

LEMMA ClaimInv ==
    ASSUME Inv, NEW w \in Worker, Claim(w)
    PROVE  Inv'
<1> USE DEF Inv
<1>1. PICK B \in SUBSET Claimable :
          /\ lease' = [e \in Event |-> IF e \in B THEN w ELSE lease[e]]
          /\ todo' = [todo EXCEPT ![w] = B]
  BY DEF Claim
<1>2. B \subseteq stored /\ \A e \in B : ~Live(e)
  BY DEF Claimable
<1>3. pc[w] = "idle" /\ pc' = [pc EXCEPT ![w] = "dispatching"]
      /\ UNCHANGED <<txVars, stored, attempts, dispatched, delivered, received, faultVars>>
  BY DEF Claim
<1>4. TypeOK'
  BY <1>1, <1>2, <1>3 DEF TypeOK, txVars, faultVars
<1>5. Announced' /\ IdleIsEmpty' /\ Received'
  BY <1>1, <1>3 DEF Announced, IdleIsEmpty, Received, TypeOK, txVars
<1>6. Counted'
  <2> SUFFICES ASSUME NEW e \in Event \ Dead
               PROVE  received[e] + Cardinality(Open(e)') + Waits(e)'
                          <= 1 + lapses[e] + attempts[e]
    BY <1>3 DEF Counted, faultVars
  <2>1. Open(e) \in SUBSET Worker
    BY DEF Open
  <2>2. received[e] \in Nat /\ lapses[e] \in Nat /\ attempts[e] \in Nat
        /\ Waits(e) \in Nat /\ Waits(e)' \in Nat
    BY DEF TypeOK, Waits
  <2>3. received[e] + Cardinality(Open(e)) + Waits(e) <= 1 + lapses[e] + attempts[e]
    BY DEF Counted
  <2>4. CASE e \in B
    <3>1. Open(e)' \in SUBSET (Open(e) \cup {w})
      BY <1>1, <1>3 DEF Open, IsNext, TypeOK
    <3>2. Waits(e) = 1 /\ Waits(e)' = 0
      BY <1>1, <1>2, <2>4 DEF Waits, Live
    <3>3. Cardinality(Open(e)') <= Cardinality(Open(e)) + 1
          /\ Cardinality(Open(e)') \in Nat /\ Cardinality(Open(e)) \in Nat
      BY <2>1, <3>1, OneMore
    <3> QED BY <2>2, <2>3, <3>2, <3>3
  <2>5. CASE e \notin B
    <3>1. Open(e)' \in SUBSET Open(e)
      BY <1>1, <1>3, <2>5 DEF Open, IsNext, TypeOK
    <3>2. Waits(e)' = Waits(e)
      BY <1>1, <2>5 DEF Waits, Live
    <3>3. Cardinality(Open(e)') <= Cardinality(Open(e))
          /\ Cardinality(Open(e)') \in Nat /\ Cardinality(Open(e)) \in Nat
      BY <2>1, <3>1, Fewer
    <3> QED BY <2>2, <2>3, <3>2, <3>3
  <2> QED BY <2>4, <2>5
<1> QED BY <1>4, <1>5, <1>6

LEMMA AcceptInv ==
    ASSUME Inv, NEW w \in Worker, NEW e \in Event, Accept(w, e)
    PROVE  Inv'
<1> USE DEF Inv
<1>1. /\ e \in todo[w] /\ e \in stored /\ pc[w] = "dispatching"
      /\ received' = [received EXCEPT ![e] = @ + 1]
      /\ todo' = [todo EXCEPT ![w] = @ \ {e}]
      /\ delivered' = [delivered EXCEPT ![w] = @ \cup {e}]
      /\ UNCHANGED <<txVars, rowVars, pc, faultVars>>
  BY DEF Accept, IsNext, TypeOK
<1>2. TypeOK'
  BY <1>1 DEF TypeOK, txVars, rowVars, faultVars
<1>3. \A f \in Event : received[f] \in Nat /\ received'[f] \in Nat /\ received'[f] >= received[f]
  BY <1>1 DEF TypeOK
<1>4. Announced' /\ IdleIsEmpty'
  BY <1>1 DEF Announced, IdleIsEmpty, TypeOK, txVars, rowVars
<1>5. Received'
  <2>1. received'[e] > 0
    BY <1>1 DEF TypeOK
  <2>2. \A f \in Event : f # e => received'[f] = received[f]
    BY <1>1 DEF TypeOK
  <2>3. \A v \in Worker : \A f \in delivered'[v] : f \in delivered[v] \/ f = e
    BY <1>1 DEF TypeOK
  <2>4. dispatched' = dispatched /\ stored' = stored
    BY <1>1 DEF rowVars
  <2> QED BY <1>1, <1>3, <2>1, <2>2, <2>3, <2>4 DEF Received, TypeOK
<1>6. Counted'
  <2> SUFFICES ASSUME NEW f \in Event \ Dead
               PROVE  received'[f] + Cardinality(Open(f)') + Waits(f)
                          <= 1 + lapses[f] + attempts[f]
    BY <1>1 DEF Counted, Waits, Live, rowVars, faultVars
  <2>1. Open(f) \in SUBSET Worker
    BY DEF Open
  <2>2. received[f] \in Nat /\ lapses[f] \in Nat /\ attempts[f] \in Nat /\ Waits(f) \in Nat
    BY DEF TypeOK, Waits
  <2>3. received[f] + Cardinality(Open(f)) + Waits(f) <= 1 + lapses[f] + attempts[f]
    BY DEF Counted
  <2>4. CASE f = e
    <3>1. w \in Open(e) /\ Open(e)' \in SUBSET (Open(e) \ {w})
      BY <1>1 DEF Open, IsNext, TypeOK
    <3>2. Cardinality(Open(e)') + 1 <= Cardinality(Open(e))
          /\ Cardinality(Open(e)') \in Nat /\ Cardinality(Open(e)) \in Nat
      BY <2>1, <2>4, <3>1, OneLess
    <3>3. received'[e] = received[e] + 1
      BY <1>1 DEF TypeOK
    <3> QED BY <2>2, <2>3, <2>4, <3>2, <3>3
  <2>5. CASE f # e
    <3>1. Open(f)' \in SUBSET Open(f)
      BY <1>1, <2>5 DEF Open, IsNext, TypeOK
    <3>2. Cardinality(Open(f)') <= Cardinality(Open(f))
          /\ Cardinality(Open(f)') \in Nat /\ Cardinality(Open(f)) \in Nat
      BY <2>1, <3>1, Fewer
    <3>3. received'[f] = received[f]
      BY <1>1, <2>5 DEF TypeOK
    <3> QED BY <2>2, <2>3, <3>2, <3>3
  <2> QED BY <2>4, <2>5
<1> QED BY <1>2, <1>4, <1>5, <1>6

LEMMA FailInv ==
    ASSUME Inv, NEW w \in Worker, NEW e \in Event, Fail(w, e)
    PROVE  Inv'
<1> USE DEF Inv
<1>1. /\ e \in todo[w] /\ e \in stored /\ pc[w] = "dispatching" /\ IsNext(w, e)
      /\ pc' = [pc EXCEPT ![w] = "failing"]
      /\ received' = [received EXCEPT ![e] = @ + 1] \/ received' = received
      /\ UNCHANGED <<txVars, rowVars, todo, delivered, faultVars>>
  BY DEF Fail, IsNext, TypeOK
<1>2. received' \in [Event -> Nat] /\ received'[e] <= received[e] + 1
      /\ received'[e] >= received[e] /\ \A f \in Event : f # e => received'[f] = received[f]
  BY <1>1 DEF TypeOK
<1>3. TypeOK'
  BY <1>1, <1>2 DEF TypeOK, txVars, rowVars, faultVars
<1>4. Announced' /\ IdleIsEmpty'
  BY <1>1 DEF Announced, IdleIsEmpty, TypeOK, txVars, rowVars
<1>5. Received'
  <2>1. \A f \in Event : received[f] \in Nat /\ received'[f] \in Nat
            /\ received'[f] >= received[f]
    BY <1>2 DEF TypeOK
  <2> QED BY <1>1, <1>2, <2>1 DEF Received, TypeOK, rowVars
<1>6. Counted'
  <2> SUFFICES ASSUME NEW f \in Event \ Dead
               PROVE  received'[f] + Cardinality(Open(f)') + Waits(f)
                          <= 1 + lapses[f] + attempts[f]
    BY <1>1 DEF Counted, Waits, Live, rowVars, faultVars
  <2>1. Open(f) \in SUBSET Worker
    BY DEF Open
  <2>2. received[f] \in Nat /\ lapses[f] \in Nat /\ attempts[f] \in Nat /\ Waits(f) \in Nat
        /\ received'[f] \in Nat
    BY <1>2 DEF TypeOK, Waits
  <2>3. received[f] + Cardinality(Open(f)) + Waits(f) <= 1 + lapses[f] + attempts[f]
    BY DEF Counted
  <2>4. CASE f = e
    <3>1. w \in Open(e) /\ Open(e)' \in SUBSET (Open(e) \ {w})
      BY <1>1 DEF Open, IsNext, TypeOK
    <3>2. Cardinality(Open(e)') + 1 <= Cardinality(Open(e))
          /\ Cardinality(Open(e)') \in Nat /\ Cardinality(Open(e)) \in Nat
      BY <2>1, <2>4, <3>1, OneLess
    <3> QED BY <1>2, <2>2, <2>3, <2>4, <3>2
  <2>5. CASE f # e
    <3>1. Open(f)' \in SUBSET Open(f)
      BY <1>1, <2>5 DEF Open, IsNext, TypeOK
    <3>2. Cardinality(Open(f)') <= Cardinality(Open(f))
          /\ Cardinality(Open(f)') \in Nat /\ Cardinality(Open(f)) \in Nat
      BY <2>1, <3>1, Fewer
    <3> QED BY <1>2, <2>2, <2>3, <2>5, <3>2
  <2> QED BY <2>4, <2>5
<1> QED BY <1>3, <1>4, <1>5, <1>6

LEMMA RecordFailureInv ==
    ASSUME Inv, NEW w \in Worker, NEW e \in Event, RecordFailure(w, e)
    PROVE  Inv'
<1> USE DEF Inv
<1>1. /\ e \in todo[w] /\ pc[w] = "failing" /\ IsNext(w, e)
      /\ attempts' = [attempts EXCEPT ![e] =
                         IF e \in Dead /\ @ = AttemptsCap THEN @ ELSE @ + 1]
      /\ lease' = [lease EXCEPT ![e] = "free"]
      /\ pc' = [pc EXCEPT ![w] = "dispatching"]
      /\ todo' = [todo EXCEPT ![w] = @ \ {e}]
      /\ UNCHANGED <<txVars, stored, dispatched, delivered, received, faultVars>>
  BY DEF RecordFailure, IsNext
<1>2. attempts' \in [Event -> Nat]
  BY <1>1 DEF TypeOK
<1>3. TypeOK'
  BY <1>1, <1>2 DEF TypeOK, txVars, faultVars
<1>4. Announced' /\ IdleIsEmpty' /\ Received'
  BY <1>1 DEF Announced, IdleIsEmpty, Received, TypeOK, txVars
<1>5. \A f \in Event : Open(f)' \in SUBSET Open(f)
  <2> SUFFICES ASSUME NEW f \in Event, NEW v \in Open(f)'
               PROVE  v \in Open(f)
    OBVIOUS
  <2>1. v \in Worker /\ f \in todo'[v] /\ ~(pc'[v] = "failing" /\ IsNext(v, f)')
    BY DEF Open
  <2>2. CASE v = w
    <3>1. f \in todo[w] /\ f # e
      BY <1>1, <2>1, <2>2 DEF TypeOK
    <3>2. ~IsNext(w, f)
      <4>1. e \in Nat /\ f \in Nat
        BY OutboxAssumption
      <4> QED BY <1>1, <3>1, <4>1 DEF IsNext
    <3> QED BY <2>2, <3>1, <3>2 DEF Open
  <2>3. CASE v # w
    BY <1>1, <2>1, <2>3 DEF Open, IsNext, TypeOK
  <2> QED BY <2>2, <2>3
<1>6. Counted'
  <2> SUFFICES ASSUME NEW f \in Event \ Dead
               PROVE  received[f] + Cardinality(Open(f)') + Waits(f)'
                          <= 1 + lapses[f] + attempts'[f]
    BY <1>1 DEF Counted, faultVars
  <2>1. Open(f) \in SUBSET Worker
    BY DEF Open
  <2>2. /\ received[f] \in Nat /\ lapses[f] \in Nat /\ attempts[f] \in Nat
        /\ attempts'[f] \in Nat /\ Waits(f) \in {0, 1} /\ Waits(f)' \in {0, 1}
    BY <1>2 DEF TypeOK, Waits
  <2>3. received[f] + Cardinality(Open(f)) + Waits(f) <= 1 + lapses[f] + attempts[f]
    BY DEF Counted
  <2>4. Cardinality(Open(f)') <= Cardinality(Open(f))
        /\ Cardinality(Open(f)') \in Nat /\ Cardinality(Open(f)) \in Nat
    BY <1>5, <2>1, Fewer
  <2>5. CASE f = e
    <3>1. attempts'[f] = attempts[f] + 1
      BY <1>1, <2>5 DEF TypeOK
    <3> QED BY <2>2, <2>3, <2>4, <3>1
  <2>6. CASE f # e
    <3>1. attempts'[f] = attempts[f] /\ Waits(f)' = Waits(f)
      BY <1>1, <2>6 DEF TypeOK, Waits, Live
    <3> QED BY <2>2, <2>3, <2>4, <3>1
  <2> QED BY <2>5, <2>6
<1> QED BY <1>3, <1>4, <1>6

LEMMA MarkDispatchedInv ==
    ASSUME Inv, NEW w \in Worker, MarkDispatched(w)
    PROVE  Inv'
<1> USE DEF Inv
<1>1. /\ pc[w] = "dispatching" /\ todo[w] = {}
      /\ dispatched' = dispatched \cup delivered[w]
      /\ pc' = [pc EXCEPT ![w] = "idle"]
      /\ delivered' = [delivered EXCEPT ![w] = {}]
      /\ UNCHANGED <<txVars, stored, lease, attempts, todo, received, faultVars>>
  BY DEF MarkDispatched
<1>2. TypeOK'
  BY <1>1 DEF TypeOK, txVars, faultVars
<1>3. Announced' /\ IdleIsEmpty' /\ Received'
  BY <1>1 DEF Announced, IdleIsEmpty, Received, TypeOK, txVars
<1>4. \A f \in Event : Open(f)' \in SUBSET Open(f)
  BY <1>1 DEF Open, IsNext, TypeOK
<1>5. Counted'
  BY <1>1, <1>4, CountedKept DEF faultVars
<1> QED BY <1>2, <1>3, <1>5

\* Losing what it had in memory, a worker opens nothing.
LEMMA ForgetInv ==
    ASSUME Inv, NEW w \in Worker, StatementFails(w) \/ Crash(w)
    PROVE  Inv'
<1> USE DEF Inv
<1>1. /\ pc' = [pc EXCEPT ![w] = "idle"]
      /\ todo' = [todo EXCEPT ![w] = {}]
      /\ delivered' = [delivered EXCEPT ![w] = {}]
      /\ UNCHANGED <<txVars, rowVars, received, lapses>>
  BY DEF StatementFails, Crash, Forget
<1>2. crashes' \in 0..MaxCrashes /\ errors' \in 0..MaxErrors
  BY OutboxAssumption DEF StatementFails, Crash, TypeOK
<1>3. TypeOK'
  BY <1>1, <1>2 DEF TypeOK, txVars, rowVars
<1>4. Announced' /\ IdleIsEmpty' /\ Received'
  BY <1>1 DEF Announced, IdleIsEmpty, Received, TypeOK, txVars, rowVars
<1>5. \A f \in Event : Open(f)' \in SUBSET Open(f)
  BY <1>1 DEF Open, IsNext, TypeOK
<1>6. Counted'
  BY <1>1, <1>5, CountedKept DEF rowVars
<1> QED BY <1>3, <1>4, <1>6

LEMMA LapseInv ==
    ASSUME Inv, NEW e \in Event, Lapse(e)
    PROVE  Inv'
<1> USE DEF Inv
<1>1. /\ lease' = [lease EXCEPT ![e] = "lapsed"]
      /\ lapses' = [lapses EXCEPT ![e] = @ + 1]
      /\ UNCHANGED <<txVars, stored, attempts, dispatched, workerVars, received,
                     crashes, errors>>
  BY DEF Lapse
<1>2. TypeOK'
  BY <1>1 DEF TypeOK, txVars, workerVars
<1>3. Announced' /\ IdleIsEmpty' /\ Received'
  BY <1>1 DEF Announced, IdleIsEmpty, Received, txVars, workerVars
<1>4. Counted'
  <2> SUFFICES ASSUME NEW f \in Event \ Dead
               PROVE  received[f] + Cardinality(Open(f)') + Waits(f)'
                          <= 1 + lapses'[f] + attempts[f]
    BY <1>1 DEF Counted
  <2>1. Open(f)' = Open(f) /\ Open(f) \in SUBSET Worker
    BY <1>1 DEF Open, IsNext, workerVars
  <2>2. Cardinality(Open(f)) \in Nat
    BY <2>1, WorkersFinite
  <2>3. /\ received[f] \in Nat /\ lapses[f] \in Nat /\ attempts[f] \in Nat
        /\ Waits(f) \in {0, 1} /\ Waits(f)' \in {0, 1}
    BY DEF TypeOK, Waits
  <2>4. received[f] + Cardinality(Open(f)) + Waits(f) <= 1 + lapses[f] + attempts[f]
    BY DEF Counted
  <2>5. CASE f = e
    <3>1. lapses'[f] = lapses[f] + 1
      BY <1>1, <2>5 DEF TypeOK
    <3> QED BY <2>1, <2>2, <2>3, <2>4, <3>1
  <2>6. CASE f # e
    <3>1. lapses'[f] = lapses[f] /\ Waits(f)' = Waits(f)
      BY <1>1, <2>6 DEF TypeOK, Waits, Live
    <3> QED BY <2>1, <2>2, <2>3, <2>4, <3>1
  <2> QED BY <2>5, <2>6
<1> QED BY <1>2, <1>3, <1>4

-----------------------------------------------------------------------------
\* Inv holds in every reachable state: no interleaving of transactions, passes,
\* lapses and faults of unit-of-work.ts, outbox.ts and jobs/outbox.ts breaks it.
THEOREM InvHolds == Spec => []Inv
<1>1. Inv /\ [Next]_vars => Inv'
  <2> SUFFICES ASSUME Inv, [Next]_vars PROVE Inv'
    OBVIOUS
  <2>1. ASSUME NEW c \in Command, Transact(c) PROVE Inv'
    BY <2>1, TransactInv
  <2>2. ASSUME NEW w \in Worker, Dispatch(w) \/ Crash(w) PROVE Inv'
    <3>1. CASE Claim(w)
      BY <2>2, <3>1, ClaimInv
    <3>2. CASE MarkDispatched(w)
      BY <2>2, <3>2, MarkDispatchedInv
    <3>3. CASE StatementFails(w) \/ Crash(w)
      BY <2>2, <3>3, ForgetInv
    <3>4. ASSUME NEW e \in Event, Accept(w, e) \/ Fail(w, e) \/ RecordFailure(w, e)
          PROVE  Inv'
      BY <2>2, <3>4, AcceptInv, FailInv, RecordFailureInv
    <3> QED BY <2>2, <3>1, <3>2, <3>3, <3>4 DEF Dispatch
  <2>3. ASSUME NEW e \in Event, Lapse(e) PROVE Inv'
    BY <2>3, LapseInv
  <2>4. CASE UNCHANGED vars
    BY <2>4 DEF vars, txVars, rowVars, workerVars, faultVars, Inv, TypeOK, Announced,
                IdleIsEmpty, Received, Counted, Open, Waits, Live, IsNext
  <2>5. CASE Finished
    BY <2>4, <2>5 DEF Finished
  <2> QED BY <2>1, <2>2, <2>3, <2>4, <2>5 DEF Next
<1> QED BY <1>1, InitInv, PTL DEF Spec

\* Every variable keeps its type; what a worker holds is a row of the table.
THEOREM TypesHold == Spec => []TypeOK
<1>1. Inv => TypeOK
  BY DEF Inv
<1> QED BY <1>1, InvHolds, PTL

\* transact() never lets a change and its events part (unit-of-work.ts:124).
THEOREM ChangesAreAnnounced == Spec => []ChangeIsAnnounced
<1>1. Inv => ChangeIsAnnounced
  BY DEF Inv, Announced, ChangeIsAnnounced
<1> QED BY <1>1, InvHolds, PTL

\* No subscriber hears of a change that rolled back (jobs/outbox.ts:6).
THEOREM SubscribersHearOfCommitted == Spec => []HeardIsCommitted
<1>1. Inv => HeardIsCommitted
  BY OutboxAssumption DEF Inv, Announced, Received, HeardIsCommitted
<1> QED BY <1>1, InvHolds, PTL

\* A row that counts as dispatched was received at least once
\* (jobs/outbox.ts:104).
THEOREM DispatchedRowsWereReceived == Spec => []DispatchedWasReceived
<1>1. Inv => DispatchedWasReceived
  BY DEF Inv, Received, DispatchedWasReceived
<1> QED BY <1>1, InvHolds, PTL

\* However many workers sweep, each repeated delivery has its own lapse or
\* reported failure (outbox.ts:9-25).
THEOREM RepeatsHaveReasons == Spec => []RepeatsAreExplained
<1>1. Inv => RepeatsAreExplained
  <2> SUFFICES ASSUME Inv, NEW e \in Event \ Dead
               PROVE  received[e] <= 1 + lapses[e] + attempts[e]
    BY DEF RepeatsAreExplained
  <2>1. received[e] + Cardinality(Open(e)) + Waits(e) <= 1 + lapses[e] + attempts[e]
    BY DEF Inv, Counted
  <2>2. Cardinality(Open(e)) \in Nat
    BY WorkersFinite DEF Open
  <2>3. /\ received[e] \in Nat /\ lapses[e] \in Nat /\ attempts[e] \in Nat
        /\ Waits(e) \in Nat
    BY DEF Inv, TypeOK, Waits
  <2> QED BY <2>1, <2>2, <2>3
<1> QED BY <1>1, InvHolds, PTL
=============================================================================
