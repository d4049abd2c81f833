--------------------------- MODULE DeliveryProofs ---------------------------
(***************************************************************************)
(* Proofs about Delivery, for every number of events, failures and         *)
(* rejections, every size of batch and of queue: one row for each event,   *)
(* none lost in silence, the order kept, and nothing sent after a fatal    *)
(* status.                                                                 *)
(*                                                                         *)
(* What the client holds is one sequence, the batch in flight followed by  *)
(* the queue (Held).  A flush only moves the boundary inside it, and all   *)
(* else appends to it at the end, cuts out of it, or settles its front.    *)
(***************************************************************************)
EXTENDS Delivery, SequenceTheorems, TLAPS

Minted == {[event |-> e, key |-> e] : e \in 1..tracked}

Flight == IF waiting = 0 THEN <<>> ELSE requests[waiting]

Held == Flight \o queue

Ordered(q) == \A i, j \in 1..Len(q) : i < j => q[i].event < q[j].event

MintedOK ==
    queue \in Seq(Minted) /\ requests \in Seq(Seq(Minted)) /\ rows \subseteq Minted

AnswerOK ==
    reply.kind = "accepted" =>
        /\ reply.rejected \subseteq 1..tracked
        /\ EventsOf(Flight) \subseteq reply.rejected \cup Durable

DisabledOK == disabled => waiting = 0 /\ queue = <<>>

Inv == TypeOK /\ MintedOK /\ Ordered(Held) /\ NothingVanishes /\ AnswerOK /\ DisabledOK

-----------------------------------------------------------------------------
(* Sequences of entries *)

LEMMA EventsOfParts ==
    ASSUME NEW S \in SUBSET Entry, NEW a \in Seq(S), NEW b \in Seq(S)
    PROVE  EventsOf(a \o b) = EventsOf(a) \cup EventsOf(b)
<1>1. /\ a \o b \in Seq(S) /\ Len(a \o b) = Len(a) + Len(b)
      /\ \A i \in 1..Len(a) + Len(b) :
             (a \o b)[i] = IF i <= Len(a) THEN a[i] ELSE b[i - Len(a)]
      /\ Len(a) \in Nat /\ Len(b) \in Nat
  BY ConcatProperties, LenProperties
<1>2. /\ DOMAIN (a \o b) = 1..Len(a) + Len(b)
      /\ DOMAIN a = 1..Len(a) /\ DOMAIN b = 1..Len(b)
  BY <1>1, LenProperties
<1> DEFINE ab == a \o b
<1>3. /\ \A i \in 1..Len(a) : i \in 1..Len(a) + Len(b) /\ ab[i] = a[i]
      /\ \A i \in 1..Len(b) : Len(a) + i \in 1..Len(a) + Len(b) /\ ab[Len(a) + i] = b[i]
  BY <1>1
<1>4. \A i \in 1..Len(a) + Len(b) :
          \/ i \in 1..Len(a)
          \/ i - Len(a) \in 1..Len(b) /\ ab[i] = b[i - Len(a)]
  BY <1>1
<1>5. \A i \in 1..Len(a) + Len(b) : ab[i].event \in EventsOf(a) \cup EventsOf(b)
  <2>1. /\ \A i \in 1..Len(a) : a[i].event \in EventsOf(a)
        /\ \A i \in 1..Len(b) : b[i].event \in EventsOf(b)
    BY <1>2 DEF EventsOf
  <2> HIDE DEF ab
  <2> QED BY <1>3, <1>4, <2>1
<1>6. EventsOf(a) \subseteq EventsOf(ab) /\ EventsOf(b) \subseteq EventsOf(ab)
  <2>1. \A i \in 1..Len(a) + Len(b) : ab[i].event \in EventsOf(ab)
    BY <1>2 DEF EventsOf
  <2> HIDE DEF ab
  <2>2. \A i \in 1..Len(a) : a[i].event \in EventsOf(ab)
    BY <1>3, <2>1
  <2>3. \A i \in 1..Len(b) : b[i].event \in EventsOf(ab)
    BY <1>3, <2>1
  <2> QED BY <1>2, <2>2, <2>3 DEF EventsOf
<1>7. EventsOf(ab) \subseteq EventsOf(a) \cup EventsOf(b)
  <2>1. DOMAIN ab = 1..Len(a) + Len(b)
    BY <1>2
  <2> HIDE DEF ab
  <2> QED BY <1>5, <2>1 DEF EventsOf
<1> QED BY <1>6, <1>7

\* A sequence in two: its first n entries and the others.
LEMMA CutInTwo ==
    ASSUME NEW S \in SUBSET Entry, NEW q \in Seq(S), NEW n \in 0..Len(q)
    PROVE  /\ SubSeq(q, 1, n) \in Seq(S) /\ SubSeq(q, n + 1, Len(q)) \in Seq(S)
           /\ Len(SubSeq(q, n + 1, Len(q))) = Len(q) - n
           /\ SubSeq(q, 1, n) \o SubSeq(q, n + 1, Len(q)) = q
<1>1. Len(q) \in Nat /\ \A i \in 1..Len(q) : q[i] \in S
  BY LenProperties, ElementOfSeq
<1>2. SubSeq(q, 1, n) \in Seq(S)
  BY <1>1, SubSeqProperties
<1>3. /\ SubSeq(q, n + 1, Len(q)) \in Seq(S)
      /\ Len(SubSeq(q, n + 1, Len(q))) = Len(q) - n
  <2>1. /\ n + 1 \in Int /\ Len(q) \in Int
        /\ \A i \in n + 1..Len(q) : q[i] \in S
    BY <1>1
  <2>2. /\ SubSeq(q, n + 1, Len(q)) \in Seq(S)
        /\ Len(SubSeq(q, n + 1, Len(q))) =
               IF n + 1 <= Len(q) THEN Len(q) - (n + 1) + 1 ELSE 0
    BY <2>1, SubSeqProperties
  <2> QED BY <1>1, <2>2
<1>4. SubSeq(q, 1, n) \o SubSeq(q, n + 1, Len(q)) = SubSeq(q, 1, Len(q))
  <2>1. 1 \in 1..Len(q) + 1 /\ n \in 1 - 1..Len(q) /\ Len(q) \in n..Len(q)
    BY <1>1
  <2> QED BY <2>1, ConcatAdjacentSubSeq
<1> QED BY <1>2, <1>3, <1>4, SubSeqFull

LEMMA OrderedParts ==
    ASSUME NEW S \in SUBSET Entry, NEW a \in Seq(S), NEW b \in Seq(S)
    PROVE  Ordered(a \o b) <=>
               /\ Ordered(a) /\ Ordered(b)
               /\ \A e \in EventsOf(a), f \in EventsOf(b) : e < f
<1> DEFINE ab == a \o b
           m == Len(a)
           n == Len(b)
<1>1. /\ ab \in Seq(S) /\ Len(ab) = m + n /\ m \in Nat /\ n \in Nat
      /\ \A i \in 1..m + n : ab[i] = IF i <= m THEN a[i] ELSE b[i - m]
  BY ConcatProperties, LenProperties
<1>2. DOMAIN a = 1..m /\ DOMAIN b = 1..n
  BY LenProperties
<1>3. /\ \A i \in 1..m : i \in 1..m + n /\ ab[i] = a[i]
      /\ \A i \in 1..n : m + i \in 1..m + n /\ ab[m + i] = b[i]
  <2> HIDE DEF ab, m, n
  <2> QED BY <1>1
<1>4. ASSUME Ordered(ab)
      PROVE  /\ Ordered(a) /\ Ordered(b)
             /\ \A e \in EventsOf(a), f \in EventsOf(b) : e < f
  <2>1. \A i, j \in 1..m + n : i < j => ab[i].event < ab[j].event
    BY <1>1, <1>4 DEF Ordered
  <2>2. Ordered(a)
    <3>1. \A i, j \in 1..m : i < j => a[i].event < a[j].event
      <4> HIDE DEF ab, m, n
      <4> QED BY <1>3, <2>1
    <3> QED BY <3>1 DEF Ordered
  <2>3. Ordered(b)
    <3>1. \A i, j \in 1..n : i < j => b[i].event < b[j].event
      <4> SUFFICES ASSUME NEW i \in 1..n, NEW j \in 1..n, i < j
                   PROVE  b[i].event < b[j].event
        OBVIOUS
      <4> HIDE DEF ab, m, n
      <4>1. m + i < m + j
        BY <1>1
      <4> QED BY <1>3, <2>1, <4>1
    <3> QED BY <3>1 DEF Ordered
  <2>4. \A i \in 1..m, j \in 1..n : a[i].event < b[j].event
    <3> SUFFICES ASSUME NEW i \in 1..m, NEW j \in 1..n
                 PROVE  a[i].event < b[j].event
      OBVIOUS
    <3> HIDE DEF ab, m, n
    <3>1. i < m + j
      BY <1>1
    <3> QED BY <1>3, <2>1, <3>1
  <2>5. \A e \in EventsOf(a), f \in EventsOf(b) : e < f
    BY <1>2, <2>4 DEF EventsOf
  <2> QED BY <2>2, <2>3, <2>5
<1>5. ASSUME Ordered(a), Ordered(b),
             \A e \in EventsOf(a), f \in EventsOf(b) : e < f
      PROVE  Ordered(ab)
  <2>1. /\ \A i, j \in 1..m : i < j => a[i].event < a[j].event
        /\ \A i, j \in 1..n : i < j => b[i].event < b[j].event
        /\ \A i \in 1..m, j \in 1..n : a[i].event < b[j].event
    BY <1>2, <1>5 DEF Ordered, EventsOf
  <2>2. \A i, j \in 1..m + n : i < j => ab[i].event < ab[j].event
    <3> SUFFICES ASSUME NEW i \in 1..m + n, NEW j \in 1..m + n, i < j
                 PROVE  ab[i].event < ab[j].event
      OBVIOUS
    <3> HIDE DEF ab, m, n
    <3>1. CASE j <= m
      <4>1. i \in 1..m /\ j \in 1..m
        BY <1>1, <3>1
      <4> QED BY <1>3, <2>1, <4>1
    <3>2. CASE i <= m /\ j > m
      <4>1. i \in 1..m /\ j - m \in 1..n /\ ab[j] = b[j - m]
        BY <1>1, <3>2
      <4> QED BY <1>3, <2>1, <4>1
    <3>3. CASE i > m
      <4>1. /\ i - m \in 1..n /\ j - m \in 1..n /\ i - m < j - m
            /\ ab[i] = b[i - m] /\ ab[j] = b[j - m]
        BY <1>1, <3>3
      <4> QED BY <2>1, <4>1
    <3> QED BY <1>1, <3>1, <3>2, <3>3
  <2> QED BY <1>1, <2>2 DEF Ordered
<1> QED BY <1>4, <1>5

\* Dropping the first n of b, behind a.
LEMMA DropInside ==
    ASSUME NEW S \in SUBSET Entry, NEW a \in Seq(S), NEW b \in Seq(S),
           NEW n \in 0..Len(b), Ordered(a \o b)
    PROVE  /\ Ordered(a \o SubSeq(b, n + 1, Len(b)))
           /\ EventsOf(b) = EventsOf(SubSeq(b, 1, n))
                                \cup EventsOf(SubSeq(b, n + 1, Len(b)))
<1> DEFINE c == SubSeq(b, 1, n)
           d == SubSeq(b, n + 1, Len(b))
<1>1. c \in Seq(S) /\ d \in Seq(S) /\ c \o d = b
  BY CutInTwo
<1> HIDE DEF c, d
<1>2. EventsOf(b) = EventsOf(c) \cup EventsOf(d)
  BY <1>1, EventsOfParts
<1>3. /\ Ordered(a) /\ Ordered(b)
      /\ \A e \in EventsOf(a), f \in EventsOf(b) : e < f
  BY OrderedParts
<1>4. Ordered(d)
  BY <1>1, <1>3, OrderedParts
<1>5. Ordered(a \o d)
  BY <1>1, <1>2, <1>3, <1>4, OrderedParts
<1> QED BY <1>2, <1>5 DEF c, d

-----------------------------------------------------------------------------
(* What the client's operations do to what it holds *)

LEMMA Wider ==
    ASSUME NEW T, NEW S \in SUBSET T
    PROVE  /\ \A q \in Seq(S) : q \in Seq(T)
           /\ \A r \in Seq(Seq(S)) : r \in Seq(Seq(T))
<1>1. Seq(S) \subseteq Seq(T)
  BY SeqMonotonic
<1>2. Seq(Seq(S)) \subseteq Seq(Seq(T))
  BY <1>1, SeqMonotonic
<1> QED BY <1>1, <1>2

LEMMA EmptyHasNone == EventsOf(<<>>) = {} /\ Ordered(<<>>)
BY DEF EventsOf, Ordered

LEMMA TrimKeeps ==
    ASSUME NEW S \in SUBSET Entry, NEW a \in Seq(S), NEW q \in Seq(S),
           Ordered(a \o q)
    PROVE  /\ Trim(q) \in Seq(S) /\ Len(Trim(q)) <= Capacity
           /\ Ordered(a \o Trim(q))
           /\ EventsOf(q) = Trimmed(q) \cup EventsOf(Trim(q))
<1>1. Len(q) \in Nat /\ Capacity \in Nat
  BY LenProperties, SdkAssumption
<1>2. Excess(q) \in 0..Len(q) /\ Len(q) - Excess(q) <= Capacity
  BY <1>1 DEF Excess
<1>3. Trim(q) \in Seq(S) /\ Len(Trim(q)) = Len(q) - Excess(q)
  BY <1>2, CutInTwo DEF Trim
<1>4. /\ Ordered(a \o Trim(q))
      /\ EventsOf(q) = Trimmed(q) \cup EventsOf(Trim(q))
  BY <1>2, DropInside DEF Trim, Trimmed
<1> QED BY <1>2, <1>3, <1>4

LEMMA SendsTakesHead ==
    ASSUME NEW S \in SUBSET Entry, NEW q \in Seq(S), requests \in Seq(Seq(S)),
           travelling \subseteq 1..Len(requests), Sends(q)
    PROVE  /\ queue' \in Seq(S) /\ Len(queue') <= Len(q)
           /\ Batch(q) \in Seq(S) /\ Batch(q) \o queue' = q
           /\ EventsOf(q) = EventsOf(Batch(q)) \cup EventsOf(queue')
           /\ requests' \in Seq(Seq(S)) /\ Len(requests') = Len(requests) + 1
           /\ \A n \in 1..Len(requests) : requests'[n] = requests[n]
           /\ requests'[Len(requests) + 1] = Batch(q)
           /\ travelling' \subseteq 1..Len(requests')
<1>1. Len(q) \in Nat /\ MaxBatch \in Nat /\ Len(requests) \in Nat
  BY LenProperties, SdkAssumption
<1> DEFINE n == TheSmaller(MaxBatch, Len(q))
<1>2. n \in 0..Len(q)
  BY <1>1 DEF TheSmaller
<1>3. Batch(q) = SubSeq(q, 1, n) /\ queue' = SubSeq(q, n + 1, Len(q))
  BY DEF Batch, Rest, Sends
<1>4. /\ Batch(q) \in Seq(S) /\ queue' \in Seq(S) /\ Len(queue') = Len(q) - n
      /\ Batch(q) \o queue' = q
  <2> HIDE DEF n
  <2>1. /\ SubSeq(q, 1, n) \in Seq(S) /\ SubSeq(q, n + 1, Len(q)) \in Seq(S)
        /\ Len(SubSeq(q, n + 1, Len(q))) = Len(q) - n
        /\ SubSeq(q, 1, n) \o SubSeq(q, n + 1, Len(q)) = q
    BY <1>2, CutInTwo
  <2> QED BY <1>3, <2>1
<1>5. EventsOf(q) = EventsOf(Batch(q)) \cup EventsOf(queue')
  BY <1>4, EventsOfParts
<1>6. requests' = Append(requests, Batch(q)) /\ travelling' = travelling \cup {Len(requests) + 1}
  BY DEF Sends
<1>7. /\ requests' \in Seq(Seq(S)) /\ Len(requests') = Len(requests) + 1
      /\ \A i \in 1..Len(requests) : requests'[i] = requests[i]
      /\ requests'[Len(requests) + 1] = Batch(q)
  <2>1. Batch(q) \in Seq(S)
    BY <1>4
  <2> QED BY <1>6, <2>1, AppendProperties
<1>8. Len(queue') <= Len(q)
  <2> HIDE DEF n
  <2> QED BY <1>1, <1>2, <1>4
<1>9. travelling' \subseteq 1..Len(requests')
  <2>1. Len(requests') = Len(requests) + 1
    BY <1>7
  <2>2. 1..Len(requests) \cup {Len(requests) + 1} \subseteq 1..Len(requests')
    BY <1>1, <2>1
  <2> QED BY <1>6, <2>2
<1> QED BY <1>4, <1>5, <1>7, <1>8, <1>9

\* flush() moves the boundary between the batch in flight and the queue.
LEMMA FlushKeeps ==
    ASSUME NEW S \in SUBSET Entry, NEW q \in Seq(S), requests \in Seq(Seq(S)),
           waiting \in 0..Len(requests), travelling \subseteq 1..Len(requests),
           FlushOf(q)
    PROVE  /\ queue' \in Seq(S) /\ Len(queue') <= Len(q)
           /\ requests' \in Seq(Seq(S)) /\ waiting' \in 0..Len(requests')
           /\ travelling' \subseteq 1..Len(requests')
           /\ Flight' \in Seq(S) /\ Flight' \o queue' = Flight \o q
           /\ waiting # 0 \/ disabled =>
                  waiting' = waiting /\ requests' = requests /\ queue' = q
<1>1. Len(requests) \in Nat /\ Len(q) \in Nat
  BY LenProperties
<1>2. CASE MaySend(q) /\ Sends(q) /\ waiting' = Len(requests) + 1
  <2>1. /\ queue' \in Seq(S) /\ Len(queue') <= Len(q)
        /\ Batch(q) \in Seq(S) /\ Batch(q) \o queue' = q
        /\ requests' \in Seq(Seq(S)) /\ Len(requests') = Len(requests) + 1
        /\ requests'[Len(requests) + 1] = Batch(q)
        /\ travelling' \subseteq 1..Len(requests')
    BY <1>2, SendsTakesHead
  <2>2. waiting = 0 /\ ~disabled
    BY <1>2 DEF MaySend
  <2>3. waiting' # 0 /\ waiting' \in 0..Len(requests')
    BY <1>1, <1>2, <2>1
  <2>4. Flight' = Batch(q)
    BY <1>2, <2>1, <2>3 DEF Flight
  <2>5. Flight \o q = q
    BY <2>2, ConcatEmptySeq DEF Flight
  <2> QED BY <2>1, <2>2, <2>3, <2>4, <2>5
<1>3. CASE queue' = q /\ UNCHANGED <<waiting, requests, travelling>>
  <2>1. Flight' = Flight
    BY <1>3 DEF Flight
  <2>2. Flight \in Seq(S)
    <3>1. CASE waiting = 0
      BY <3>1, EmptySeq DEF Flight
    <3>2. CASE waiting \in 1..Len(requests)
      <4>1. requests[waiting] \in Seq(S)
        BY <3>2, ElementOfSeq
      <4> QED BY <3>2, <4>1, <1>1 DEF Flight
    <3> QED BY <1>1, <3>1, <3>2
  <2> QED BY <1>1, <1>3, <2>1, <2>2
<1> QED BY <1>2, <1>3 DEF FlushOf

\* What Inv says of what the client holds.
LEMMA HeldFacts ==
    ASSUME TypeOK, MintedOK
    PROVE  /\ tracked \in Nat /\ Minted \in SUBSET Entry
           /\ Flight \in Seq(Minted) /\ queue \in Seq(Minted) /\ Held \in Seq(Minted)
           /\ InFlight = EventsOf(Flight)
           /\ EventsOf(Held) = EventsOf(Flight) \cup EventsOf(queue)
           /\ Len(requests) \in Nat
           /\ \A n \in 1..Len(requests) : requests[n] \in Seq(Minted)
           /\ waiting # 0 => waiting \in 1..Len(requests) /\ Flight = requests[waiting]
           /\ waiting = 0 => Flight = <<>>
<1>1. tracked \in Nat /\ Minted \in SUBSET Entry
  BY DEF TypeOK, Minted, Entry
<1>2. /\ Len(requests) \in Nat
      /\ \A n \in 1..Len(requests) : requests[n] \in Seq(Minted)
  BY LenProperties, ElementOfSeq DEF MintedOK
<1>3. waiting \in 0..Len(requests)
  BY DEF TypeOK
<1>4. waiting # 0 => waiting \in 1..Len(requests) /\ Flight = requests[waiting]
  BY <1>2, <1>3 DEF Flight
<1>5. waiting = 0 => Flight = <<>>
  BY DEF Flight
<1>6. Flight \in Seq(Minted) /\ queue \in Seq(Minted)
  BY <1>2, <1>4, <1>5, EmptySeq DEF MintedOK
<1>7. /\ Held \in Seq(Minted)
      /\ EventsOf(Held) = EventsOf(Flight) \cup EventsOf(queue)
  BY <1>1, <1>6, ConcatProperties, EventsOfParts DEF Held
<1>8. InFlight = EventsOf(Flight)
  BY <1>4, <1>5, EmptyHasNone DEF InFlight
<1> QED BY <1>1, <1>2, <1>4, <1>5, <1>6, <1>7, <1>8

\* Whoever holds minted entries only holds events that were tracked.
LEMMA MintedEvents ==
    ASSUME tracked \in Nat, NEW q \in Seq(Minted)
    PROVE  EventsOf(q) \subseteq 1..tracked
<1>1. \A i \in 1..Len(q) : q[i].event \in 1..tracked
  BY ElementOfSeq DEF Minted
<1>2. DOMAIN q = 1..Len(q)
  BY LenProperties
<1> QED BY <1>1, <1>2 DEF EventsOf

-----------------------------------------------------------------------------
(* The client's steps *)

LEMMA InitInv == Init => Inv
<1> SUFFICES ASSUME Init PROVE Inv
  OBVIOUS
<1>1. /\ queue = <<>> /\ tracked = 0 /\ waiting = 0 /\ requests = <<>>
      /\ dropped = {} /\ told = {} /\ beaconed = {} /\ rows = {}
      /\ reply = NoReply /\ disabled = FALSE
  BY DEF Init, SdkInit
<1>2. /\ \A S : <<>> \in Seq(S)
      /\ Len(<<>>) = 0
  BY EmptySeq
<1>3. TypeOK
  <2>1. queue \in Seq(Entry) /\ Len(queue) <= Capacity
    BY <1>1, <1>2, SdkAssumption
  <2>2. /\ requests \in Seq(Seq(Entry)) /\ waiting \in 0..Len(requests)
        /\ travelling = {}
    <3>1. travelling = {}
      BY DEF Init, SdkInit
    <3>2. <<>> \in Seq(Seq(Entry)) /\ 0 \in 0..Len(<<>>)
      <4> DEFINE T == Seq(Entry)
      <4>1. <<>> \in Seq(T)
        BY EmptySeq
      <4>2. 0 \in 0..Len(<<>>)
        BY <1>2
      <4> QED BY <4>1, <4>2
    <3> QED BY <1>1, <3>1, <3>2
  <2>3. /\ tracked \in 0..MaxTracked /\ failures \in 0..MaxFailures
        /\ paused \in BOOLEAN /\ closed \in BOOLEAN /\ disabled \in BOOLEAN
    <3>1. 0 \in 0..MaxTracked /\ 0 \in 0..MaxFailures
      BY SdkAssumption
    <3> QED BY <3>1 DEF Init, SdkInit
  <2>4. reply \in Replies
    BY <1>1 DEF Replies, NoReply
  <2> QED BY <1>1, <2>1, <2>2, <2>3, <2>4 DEF TypeOK
<1>4. MintedOK
  BY <1>1, <1>2 DEF MintedOK
<1>5. Flight = <<>> /\ Held = <<>>
  <2>1. Flight = <<>>
    BY <1>1 DEF Flight
  <2>2. <<>> \o <<>> = <<>>
    BY <1>2, ConcatEmptySeq
  <2> QED BY <1>1, <2>1, <2>2 DEF Held
<1>6. NothingVanishes
  BY <1>1, EmptyHasNone DEF NothingVanishes, InFlight, Durable
<1>7. AnswerOK /\ DisabledOK
  BY <1>1 DEF AnswerOK, DisabledOK, NoReply
<1> QED BY <1>3, <1>4, <1>5, <1>6, <1>7, EmptyHasNone DEF Inv

\* What all of the client's steps have in common: it is enough to say what
\* becomes of the entries held and of the sets that account for the events.
LEMMA HolderInv ==
    ASSUME Inv,
           tracked' \in tracked..MaxTracked,
           queue' \in Seq(Minted') /\ Len(queue') <= Capacity,
           requests' \in Seq(Seq(Minted')), waiting' \in 0..Len(requests'),
           travelling' \subseteq 1..Len(requests'),
           failures' \in 0..MaxFailures, paused' \in BOOLEAN,
           closed' \in BOOLEAN, disabled' \in BOOLEAN,
           dropped' \subseteq 1..tracked', told' \subseteq 1..tracked',
           beaconed' \subseteq 1..tracked',
           UNCHANGED rows,
           Ordered(Held'),
           EventsOf(Flight') \cup EventsOf(queue') \cup Durable \cup told'
               \cup dropped' \cup beaconed' = 1..tracked',
           \/ reply' = NoReply
           \/ reply' = reply /\ waiting # 0 /\ Flight' = Flight /\ waiting' = waiting,
           DisabledOK'
    PROVE  Inv'
<1>1. TypeOK /\ MintedOK /\ AnswerOK
  BY DEF Inv
<1>2. tracked \in Nat /\ tracked' \in Nat /\ 1..tracked \subseteq 1..tracked'
  BY <1>1 DEF TypeOK
<1>3. Minted \subseteq Minted' /\ Minted' \in SUBSET Entry
  BY <1>2 DEF Minted, Entry
<1>4. queue' \in Seq(Entry) /\ requests' \in Seq(Seq(Entry))
  BY <1>3, Wider
<1>5. rows' \subseteq Minted' /\ rows' \subseteq Entry
  BY <1>1, <1>3 DEF MintedOK
<1>6. reply' \in Replies /\ (reply' # NoReply => waiting' # 0)
  BY <1>1 DEF TypeOK, Replies, NoReply
<1>7. TypeOK'
  BY <1>1, <1>2, <1>4, <1>5, <1>6 DEF TypeOK
<1>8. MintedOK'
  BY <1>5 DEF MintedOK
<1>9. InFlight' = EventsOf(Flight')
  <2>1. CASE waiting' = 0
    <3>1. Flight' = <<>> /\ InFlight' = {}
      BY <2>1 DEF Flight, InFlight
    <3> QED BY <3>1, EmptyHasNone
  <2>2. CASE waiting' # 0
    BY <2>2 DEF Flight, InFlight
  <2> QED BY <2>1, <2>2
<1>10. Durable' = Durable
  BY DEF Durable
<1>11. NothingVanishes'
  <2>1. 1..tracked' = EventsOf(queue') \cup InFlight' \cup Durable' \cup told'
                          \cup dropped' \cup beaconed'
    BY <1>9, <1>10
  <2> QED BY <2>1 DEF NothingVanishes
<1>12. AnswerOK'
  <2>1. CASE reply' = NoReply
    BY <2>1 DEF AnswerOK, NoReply
  <2>2. CASE reply' = reply /\ Flight' = Flight
    BY <1>1, <1>2, <1>10, <2>2 DEF AnswerOK
  <2> QED BY <2>1, <2>2
<1> QED BY <1>7, <1>8, <1>11, <1>12 DEF Inv

\* While nothing is awaited there is no reply.
LEMMA ReplyIsAwaited == TypeOK /\ waiting = 0 => reply = NoReply
BY DEF TypeOK

LEMMA EventsStay ==
    ASSUME Inv
    PROVE  EventsOf(Flight) \cup EventsOf(queue) \cup Durable \cup told
               \cup dropped \cup beaconed = 1..tracked
BY HeldFacts DEF Inv, NothingVanishes

\* Flush and Shutdown.
LEMMA FlushInv ==
    ASSUME Inv, FlushOf(queue), closed' \in BOOLEAN,
           UNCHANGED <<tracked, paused, failures, disabled, reply, dropped, told,
                       beaconed, rows>>
    PROVE  Inv'
<1>1. TypeOK /\ MintedOK /\ Ordered(Held) /\ DisabledOK
  BY DEF Inv
<1>2. /\ Minted \in SUBSET Entry /\ queue \in Seq(Minted)
      /\ requests \in Seq(Seq(Minted)) /\ Flight \in Seq(Minted)
  BY <1>1, HeldFacts DEF MintedOK
<1>3. waiting \in 0..Len(requests) /\ travelling \subseteq 1..Len(requests)
  BY <1>1 DEF TypeOK
<1>4. /\ queue' \in Seq(Minted) /\ Len(queue') <= Len(queue)
      /\ requests' \in Seq(Seq(Minted)) /\ waiting' \in 0..Len(requests')
      /\ travelling' \subseteq 1..Len(requests')
      /\ Flight' \in Seq(Minted) /\ Flight' \o queue' = Flight \o queue
      /\ waiting # 0 \/ disabled =>
             waiting' = waiting /\ requests' = requests /\ queue' = queue
  BY <1>2, <1>3, FlushKeeps
<1>5. Minted' = Minted
  BY DEF Minted
<1>6. Held' = Held
  BY <1>4 DEF Held
<1>7. EventsOf(Flight') \cup EventsOf(queue') = EventsOf(Flight) \cup EventsOf(queue)
  <2>1. EventsOf(Flight' \o queue') = EventsOf(Flight') \cup EventsOf(queue')
    BY <1>2, <1>4, EventsOfParts
  <2>2. EventsOf(Flight \o queue) = EventsOf(Flight) \cup EventsOf(queue)
    BY <1>2, EventsOfParts
  <2> QED BY <1>4, <2>1, <2>2
<1>8. \/ reply' = NoReply
      \/ reply' = reply /\ waiting # 0 /\ Flight' = Flight /\ waiting' = waiting
  BY <1>1, <1>4, ReplyIsAwaited DEF Flight
<1>9. DisabledOK'
  BY <1>1, <1>4 DEF DisabledOK
<1>10. Len(queue') <= Capacity
  BY <1>1, <1>2, <1>4, LenProperties, SdkAssumption DEF TypeOK
<1>11. /\ tracked' \in tracked..MaxTracked /\ failures' \in 0..MaxFailures
       /\ paused' \in BOOLEAN /\ disabled' \in BOOLEAN
       /\ dropped' \subseteq 1..tracked' /\ told' \subseteq 1..tracked'
       /\ beaconed' \subseteq 1..tracked'
  BY <1>1 DEF TypeOK
<1>12. EventsOf(Flight') \cup EventsOf(queue') \cup Durable \cup told'
           \cup dropped' \cup beaconed' = 1..tracked'
  BY <1>7, EventsStay
<1>13. queue' \in Seq(Minted') /\ requests' \in Seq(Seq(Minted')) /\ Ordered(Held')
  BY <1>1, <1>4, <1>5, <1>6
<1> QED BY <1>4, <1>8, <1>9, <1>10, <1>11, <1>12, <1>13, HolderInv

\* track(): one more entry at the end, what exceeds the capacity dropped at the
\* head of the queue.
LEMMA TrackInv == Inv /\ Track /\ UNCHANGED rows => Inv'
<1> SUFFICES ASSUME Inv, Track, UNCHANGED rows PROVE Inv'
  OBVIOUS
<1> DEFINE mine == [event |-> tracked + 1, key |-> tracked + 1]
           pushed == Append(queue, mine)
           kept == Trim(pushed)
<1>1. TypeOK /\ MintedOK /\ Ordered(Held) /\ DisabledOK
  BY DEF Inv
<1>2. /\ ~disabled /\ tracked < MaxTracked /\ tracked' = tracked + 1
      /\ dropped' = dropped \cup Trimmed(pushed)
      /\ UNCHANGED <<paused, failures, closed, disabled, reply, told, beaconed>>
  BY DEF Track
<1>3. FlushOf(kept) \/ (queue' = kept /\ UNCHANGED <<waiting, requests, travelling>>)
  BY DEF Track
<1>4. /\ tracked \in Nat /\ tracked' \in Nat
      /\ 1..tracked' = 1..tracked \cup {tracked + 1}
  BY <1>1, <1>2 DEF TypeOK
<1>5. Minted \subseteq Minted' /\ Minted' \in SUBSET Entry /\ mine \in Minted'
  BY <1>2, <1>4 DEF Minted, Entry
<1>6. /\ Flight \in Seq(Minted) /\ queue \in Seq(Minted) /\ Held \in Seq(Minted)
      /\ EventsOf(Held) \subseteq 1..tracked
  BY <1>1, <1>4, HeldFacts, MintedEvents
<1>7. /\ Flight \in Seq(Minted') /\ queue \in Seq(Minted') /\ Held \in Seq(Minted')
      /\ requests \in Seq(Seq(Minted')) /\ <<mine>> \in Seq(Minted')
  <2>1. requests \in Seq(Seq(Minted))
    BY <1>1 DEF MintedOK
  <2>2. /\ Flight \in Seq(Minted') /\ queue \in Seq(Minted') /\ Held \in Seq(Minted')
        /\ requests \in Seq(Seq(Minted'))
    BY <1>5, <1>6, <2>1, Wider
  <2>3. <<mine>> \in Seq(Minted')
    BY <1>5
  <2> QED BY <2>2, <2>3
<1>8. EventsOf(<<mine>>) = {tracked + 1} /\ Ordered(<<mine>>)
  <2>1. DOMAIN <<mine>> = 1..1 /\ Len(<<mine>>) = 1 /\ <<mine>>[1] = mine
    OBVIOUS
  <2>2. EventsOf(<<mine>>) = {tracked + 1}
    BY <2>1 DEF EventsOf
  <2>3. Ordered(<<mine>>)
    <3>1. \A i, j \in 1..1 : ~(i < j)
      OBVIOUS
    <3> QED BY <2>1, <3>1 DEF Ordered
  <2> QED BY <2>2, <2>3
<1>9. /\ pushed = queue \o <<mine>> /\ pushed \in Seq(Minted')
      /\ Held \o <<mine>> = Flight \o pushed
  <2>1. pushed = queue \o <<mine>> /\ pushed \in Seq(Minted')
    BY <1>5, <1>7, AppendIsConcat, AppendProperties
  <2>2. (Flight \o queue) \o <<mine>> = Flight \o (queue \o <<mine>>)
    BY <1>7, ConcatAssociative
  <2> QED BY <2>1, <2>2 DEF Held
<1>10. Ordered(Flight \o pushed)
  <2>1. \A e \in EventsOf(Held), f \in EventsOf(<<mine>>) : e < f
    BY <1>4, <1>6, <1>8
  <2> HIDE DEF mine, pushed
  <2>2. Ordered(Held \o <<mine>>)
    BY <1>1, <1>5, <1>7, <1>8, <2>1, OrderedParts
  <2> QED BY <1>9, <2>2
<1>11. EventsOf(pushed) = EventsOf(queue) \cup {tracked + 1}
  <2>1. EventsOf(queue \o <<mine>>) = EventsOf(queue) \cup EventsOf(<<mine>>)
    <3> HIDE DEF mine
    <3> QED BY <1>5, <1>7, EventsOfParts
  <2> QED BY <1>8, <1>9, <2>1
<1> HIDE DEF mine, pushed
<1>12. /\ kept \in Seq(Minted') /\ Len(kept) <= Capacity
       /\ Ordered(Flight \o kept)
       /\ EventsOf(pushed) = Trimmed(pushed) \cup EventsOf(kept)
  BY <1>5, <1>7, <1>9, <1>10, TrimKeeps
<1> HIDE DEF kept
<1>13. waiting \in 0..Len(requests) /\ travelling \subseteq 1..Len(requests)
  BY <1>1 DEF TypeOK
<1>14. /\ queue' \in Seq(Minted') /\ Len(queue') <= Len(kept)
       /\ requests' \in Seq(Seq(Minted')) /\ waiting' \in 0..Len(requests')
       /\ travelling' \subseteq 1..Len(requests')
       /\ Flight' \in Seq(Minted') /\ Flight' \o queue' = Flight \o kept
       /\ waiting # 0 => waiting' = waiting /\ Flight' = Flight
  <2>1. CASE FlushOf(kept)
    <3>1. /\ queue' \in Seq(Minted') /\ Len(queue') <= Len(kept)
          /\ requests' \in Seq(Seq(Minted')) /\ waiting' \in 0..Len(requests')
          /\ travelling' \subseteq 1..Len(requests')
          /\ Flight' \in Seq(Minted') /\ Flight' \o queue' = Flight \o kept
          /\ waiting # 0 \/ disabled =>
                 waiting' = waiting /\ requests' = requests /\ queue' = kept
      BY <1>5, <1>7, <1>12, <1>13, <2>1, FlushKeeps
    <3> QED BY <3>1 DEF Flight
  <2>2. CASE queue' = kept /\ UNCHANGED <<waiting, requests, travelling>>
    <3>1. Flight' = Flight
      BY <2>2 DEF Flight
    <3>2. Len(kept) \in Nat
      BY <1>12, LenProperties
    <3> QED BY <1>7, <1>12, <1>13, <2>2, <3>1, <3>2
  <2> QED BY <1>3, <2>1, <2>2
<1>15. EventsOf(Flight') \cup EventsOf(queue') = EventsOf(Flight) \cup EventsOf(kept)
  <2>1. EventsOf(Flight' \o queue') = EventsOf(Flight') \cup EventsOf(queue')
    <3>1. Minted' \in SUBSET Entry /\ Flight' \in Seq(Minted') /\ queue' \in Seq(Minted')
      BY <1>5, <1>14
    <3> QED BY <3>1, EventsOfParts
  <2>2. EventsOf(Flight \o kept) = EventsOf(Flight) \cup EventsOf(kept)
    BY <1>5, <1>7, <1>12, EventsOfParts
  <2> QED BY <1>14, <2>1, <2>2
<1>16. Ordered(Held')
  BY <1>12, <1>14 DEF Held
<1>17. EventsOf(Flight') \cup EventsOf(queue') \cup Durable \cup told'
           \cup dropped' \cup beaconed' = 1..tracked'
  <2>1. EventsOf(Flight) \cup EventsOf(queue) \cup Durable \cup told
            \cup dropped \cup beaconed = 1..tracked
    BY EventsStay
  <2> QED BY <1>2, <1>4, <1>11, <1>12, <1>15, <2>1
<1>18. /\ dropped' \subseteq 1..tracked' /\ told' \subseteq 1..tracked'
       /\ beaconed' \subseteq 1..tracked'
  BY <1>17
<1>19. /\ tracked' \in tracked..MaxTracked /\ failures' \in 0..MaxFailures
       /\ paused' \in BOOLEAN /\ closed' \in BOOLEAN /\ disabled' \in BOOLEAN
  BY <1>1, <1>2, <1>4, SdkAssumption DEF TypeOK
<1>20. Len(queue') <= Capacity
  <2>1. Len(kept) \in Nat /\ Len(queue') \in Nat /\ Capacity \in Nat
    BY <1>12, <1>14, LenProperties, SdkAssumption
  <2> QED BY <1>12, <1>14, <2>1
<1>21. \/ reply' = NoReply
       \/ reply' = reply /\ waiting # 0 /\ Flight' = Flight /\ waiting' = waiting
  BY <1>1, <1>2, <1>14, ReplyIsAwaited
<1>22. DisabledOK'
  BY <1>2 DEF DisabledOK
<1> QED BY <1>14, <1>16, <1>17, <1>18, <1>19, <1>20, <1>21, <1>22, HolderInv

\* The page goes away: the head of the queue leaves by a beacon.
LEMMA HiddenInv == Inv /\ Hidden /\ UNCHANGED rows => Inv'
<1> SUFFICES ASSUME Inv, Hidden, UNCHANGED rows PROVE Inv'
  OBVIOUS
<1>1. TypeOK /\ MintedOK /\ Ordered(Held) /\ DisabledOK
  BY DEF Inv
<1>2. /\ queue # <<>> /\ Sends(queue)
      /\ beaconed' = beaconed \cup EventsOf(Batch(queue))
      /\ UNCHANGED <<tracked, waiting, paused, failures, closed, disabled, reply,
                     dropped, told>>
  BY DEF Hidden
<1>3. /\ Minted \in SUBSET Entry /\ queue \in Seq(Minted)
      /\ requests \in Seq(Seq(Minted)) /\ Flight \in Seq(Minted)
      /\ Len(requests) \in Nat
      /\ waiting # 0 => waiting \in 1..Len(requests) /\ Flight = requests[waiting]
  BY <1>1, HeldFacts DEF MintedOK
<1>4. travelling \subseteq 1..Len(requests)
  BY <1>1 DEF TypeOK
<1>5. /\ queue' \in Seq(Minted) /\ Len(queue') <= Len(queue)
      /\ Batch(queue) \in Seq(Minted) /\ Batch(queue) \o queue' = queue
      /\ EventsOf(queue) = EventsOf(Batch(queue)) \cup EventsOf(queue')
      /\ requests' \in Seq(Seq(Minted)) /\ Len(requests') = Len(requests) + 1
      /\ \A n \in 1..Len(requests) : requests'[n] = requests[n]
      /\ travelling' \subseteq 1..Len(requests')
  BY <1>2, <1>3, <1>4, SendsTakesHead
<1>6. Minted' = Minted
  BY <1>2 DEF Minted
<1>7. Flight' = Flight /\ waiting' \in 0..Len(requests')
  BY <1>2, <1>3, <1>5 DEF Flight
<1>8. Ordered(Held')
  <2>1. /\ Ordered(Flight) /\ Ordered(queue)
        /\ \A e \in EventsOf(Flight), f \in EventsOf(queue) : e < f
    BY <1>1, <1>3, OrderedParts DEF Held
  <2>2. Ordered(queue')
    BY <1>3, <1>5, <2>1, OrderedParts
  <2>3. Ordered(Flight \o queue')
    BY <1>3, <1>5, <2>1, <2>2, OrderedParts
  <2> QED BY <1>7, <2>3 DEF Held
<1>9. EventsOf(Flight') \cup EventsOf(queue') \cup Durable \cup told'
           \cup dropped' \cup beaconed' = 1..tracked'
  BY <1>2, <1>5, <1>7, EventsStay
<1>10. /\ dropped' \subseteq 1..tracked' /\ told' \subseteq 1..tracked'
       /\ beaconed' \subseteq 1..tracked'
  BY <1>9
<1>11. /\ tracked' \in tracked..MaxTracked /\ failures' \in 0..MaxFailures
       /\ paused' \in BOOLEAN /\ closed' \in BOOLEAN /\ disabled' \in BOOLEAN
  BY <1>1, <1>2 DEF TypeOK
<1>12. Len(queue') <= Capacity
  BY <1>1, <1>3, <1>5, LenProperties, SdkAssumption DEF TypeOK
<1>13. \/ reply' = NoReply
       \/ reply' = reply /\ waiting # 0 /\ Flight' = Flight /\ waiting' = waiting
  BY <1>1, <1>2, <1>7, ReplyIsAwaited
<1>14. DisabledOK'
  BY <1>1, <1>2 DEF DisabledOK
<1>15. queue' \in Seq(Minted') /\ requests' \in Seq(Seq(Minted'))
  BY <1>5, <1>6
<1> QED BY <1>2, <1>5, <1>7, <1>8, <1>9, <1>10, <1>11, <1>12, <1>13, <1>14, <1>15,
           HolderInv

LEMMA PauseInv == Inv /\ PauseEnds /\ UNCHANGED rows => Inv'
<1> SUFFICES ASSUME Inv, PauseEnds, UNCHANGED rows PROVE Inv'
  OBVIOUS
<1>1. TypeOK /\ MintedOK /\ Ordered(Held) /\ AnswerOK /\ DisabledOK /\ NothingVanishes
  BY DEF Inv
<1>2. /\ paused' = FALSE
      /\ UNCHANGED <<queue, tracked, waiting, failures, closed, disabled, dropped,
                     told, beaconed, requests, travelling, reply, rows>>
  BY DEF PauseEnds, wireVars
<1>3. TypeOK'
  BY <1>1, <1>2 DEF TypeOK
<1>4. /\ Minted' = Minted /\ Flight' = Flight /\ Held' = Held /\ InFlight' = InFlight
      /\ Durable' = Durable
  BY <1>2 DEF Minted, Flight, Held, InFlight, Durable
<1>5. MintedOK' /\ Ordered(Held') /\ AnswerOK' /\ DisabledOK' /\ NothingVanishes'
  BY <1>1, <1>2, <1>4 DEF MintedOK, AnswerOK, DisabledOK, NothingVanishes
<1> QED BY <1>3, <1>5 DEF Inv

\* A flush settles: only the queue is held any more.
LEMMA SettleInv ==
    ASSUME Inv, Settles, UNCHANGED <<tracked, requests, travelling, beaconed, rows>>,
           queue' \in Seq(Minted), Len(queue') <= Capacity, Ordered(queue'),
           failures' \in 0..MaxFailures, paused' \in BOOLEAN, closed' \in BOOLEAN,
           disabled' \in BOOLEAN, disabled' => queue' = <<>>,
           EventsOf(queue') \cup Durable \cup told' \cup dropped' \cup beaconed
               = 1..tracked
    PROVE  Inv'
<1>1. TypeOK /\ MintedOK
  BY DEF Inv
<1>2. reply' = NoReply /\ waiting' = 0
  BY DEF Settles
<1>3. Minted' = Minted /\ Flight' = <<>>
  BY <1>2 DEF Minted, Flight
<1>4. Held' = queue'
  BY <1>3, ConcatEmptySeq DEF Held
<1>5. Ordered(Held')
  BY <1>4
<1>6. EventsOf(Flight') \cup EventsOf(queue') \cup Durable \cup told'
          \cup dropped' \cup beaconed' = 1..tracked'
  BY <1>3, EmptyHasNone
<1>7. /\ dropped' \subseteq 1..tracked' /\ told' \subseteq 1..tracked'
      /\ beaconed' \subseteq 1..tracked'
  BY <1>6
<1>8. tracked' \in tracked..MaxTracked /\ travelling' \subseteq 1..Len(requests')
  BY <1>1 DEF TypeOK
<1>9. waiting' \in 0..Len(requests')
  <2>1. Len(requests) \in Nat
    BY <1>1, HeldFacts
  <2> QED BY <1>2, <2>1
<1>10. queue' \in Seq(Minted') /\ requests' \in Seq(Seq(Minted'))
  BY <1>1, <1>3 DEF MintedOK
<1>11. DisabledOK'
  BY <1>2 DEF DisabledOK
<1> QED BY <1>2, <1>5, <1>6, <1>7, <1>8, <1>9, <1>10, <1>11, HolderInv

LEMMA HearInv == Inv /\ Hear /\ UNCHANGED rows => Inv'
<1> SUFFICES ASSUME Inv, Hear, UNCHANGED rows PROVE Inv'
  OBVIOUS
<1>1. TypeOK /\ MintedOK /\ Ordered(Held) /\ AnswerOK /\ DisabledOK
  BY DEF Inv
<1>2. /\ Minted \in SUBSET Entry /\ Flight \in Seq(Minted) /\ queue \in Seq(Minted)
      /\ waiting # 0 => Flight = requests[waiting]
  BY <1>1, HeldFacts
<1>3. /\ Len(queue) <= Capacity
      /\ failures \in 0..MaxFailures /\ paused \in BOOLEAN /\ closed \in BOOLEAN
      /\ disabled \in BOOLEAN
  BY <1>1 DEF TypeOK
<1>4. Ordered(queue) /\ Ordered(Flight)
  BY <1>1, <1>2, OrderedParts DEF Held
<1>5. EventsOf(Flight) \cup EventsOf(queue) \cup Durable \cup told
          \cup dropped \cup beaconed = 1..tracked
  BY EventsStay
<1>6. disabled => queue = <<>>
  BY <1>1 DEF DisabledOK
<1>7. reply.kind # "none" => waiting # 0
  BY <1>1 DEF TypeOK, NoReply
<1>8. CASE HearAccepted
  <2>1. /\ Settles /\ told' = told \cup reply.rejected
        /\ UNCHANGED <<queue, tracked, paused, failures, closed, disabled, dropped,
                       beaconed, requests, travelling>>
    BY <1>8 DEF HearAccepted
  <2>2. /\ reply.rejected \subseteq 1..tracked
        /\ EventsOf(Flight) \subseteq reply.rejected \cup Durable
    BY <1>1, <1>8 DEF HearAccepted, AnswerOK
  <2>3. EventsOf(queue') \cup Durable \cup told' \cup dropped' \cup beaconed = 1..tracked
    BY <1>5, <2>1, <2>2
  <2> QED BY <1>2, <1>3, <1>4, <1>6, <2>1, <2>3, SettleInv
<1>9. CASE HearRefused
  <2>1. /\ Settles /\ told' = told \cup EventsOf(Flight)
        /\ UNCHANGED <<queue, tracked, paused, failures, closed, disabled, dropped,
                       beaconed, requests, travelling>>
    BY <1>2, <1>7, <1>9 DEF HearRefused
  <2>2. EventsOf(queue') \cup Durable \cup told' \cup dropped' \cup beaconed = 1..tracked
    BY <1>5, <2>1
  <2> QED BY <1>2, <1>3, <1>4, <1>6, <2>1, <2>2, SettleInv
<1>10. CASE HearFatal
  <2>1. /\ Settles /\ told' = told \cup EventsOf(Flight) \cup EventsOf(queue)
        /\ disabled' = TRUE /\ queue' = <<>>
        /\ UNCHANGED <<tracked, paused, failures, closed, dropped, beaconed,
                       requests, travelling>>
    BY <1>2, <1>7, <1>10 DEF HearFatal
  <2>2. EventsOf(queue') \cup Durable \cup told' \cup dropped' \cup beaconed = 1..tracked
    BY <1>5, <2>1, EmptyHasNone
  <2>3. queue' \in Seq(Minted) /\ Len(queue') <= Capacity /\ Ordered(queue')
    BY <2>1, EmptySeq, EmptyHasNone, SdkAssumption
  <2> QED BY <1>3, <2>1, <2>2, <2>3, SettleInv
<1>11. CASE Retry
  <2>1. Requeued(requests[waiting]) = Held
    BY <1>2, <1>11 DEF Retry, Requeued, Held
  <2>2. /\ Settles /\ failures < MaxFailures /\ failures' = failures + 1
        /\ paused' = TRUE /\ queue' = Trim(Held) /\ waiting # 0
        /\ dropped' = dropped \cup Trimmed(Held)
        /\ UNCHANGED <<tracked, closed, disabled, told, beaconed, requests, travelling>>
    BY <1>11, <2>1 DEF Retry
  <2>3. Held \in Seq(Minted) /\ EventsOf(Held) = EventsOf(Flight) \cup EventsOf(queue)
    BY <1>1, HeldFacts
  <2>4. /\ Trim(Held) \in Seq(Minted) /\ Len(Trim(Held)) <= Capacity
        /\ Ordered(<<>> \o Trim(Held))
        /\ EventsOf(Held) = Trimmed(Held) \cup EventsOf(Trim(Held))
    <3>1. <<>> \in Seq(Minted) /\ <<>> \o Held = Held
      BY <2>3, EmptySeq, ConcatEmptySeq
    <3>2. Ordered(<<>> \o Held)
      BY <1>1, <3>1
    <3> HIDE DEF Held
    <3> QED BY <1>2, <2>3, <3>1, <3>2, TrimKeeps
  <2>5. Ordered(queue')
    BY <2>2, <2>4, ConcatEmptySeq
  <2>6. EventsOf(queue') \cup Durable \cup told' \cup dropped' \cup beaconed = 1..tracked
    BY <1>5, <2>2, <2>3, <2>4
  <2>7. failures' \in 0..MaxFailures
    BY <1>3, <2>2, SdkAssumption
  <2>8. disabled' => queue' = <<>>
    BY <1>1, <2>2 DEF DisabledOK
  <2> QED BY <1>3, <2>2, <2>4, <2>5, <2>6, <2>7, <2>8, SettleInv
<1> QED BY <1>8, <1>9, <1>10, <1>11 DEF Hear

-----------------------------------------------------------------------------
(* The server's steps *)

\* What a request adds to the rows accounts for all of it that is not rejected.
LEMMA StoredFacts ==
    ASSUME TypeOK, MintedOK, NEW n \in 1..Len(requests),
           NEW rejected \in SUBSET EventsOf(requests[n])
    PROVE  /\ Stored(n, rejected) \subseteq Minted
           /\ rejected \subseteq 1..tracked
           /\ EventsOf(requests[n]) \subseteq
                  rejected \cup {x.event : x \in rows \cup Stored(n, rejected)}
<1>1. requests[n] \in Seq(Minted) /\ tracked \in Nat
  BY HeldFacts
<1>2. /\ DOMAIN requests[n] = 1..Len(requests[n])
      /\ \A i \in 1..Len(requests[n]) : requests[n][i] \in Minted
  BY <1>1, LenProperties, ElementOfSeq
<1>3. Stored(n, rejected) \subseteq Minted
  BY <1>2 DEF Stored, EntriesOf
<1>4. rejected \subseteq 1..tracked
  BY <1>1, MintedEvents
<1>5. ASSUME NEW i \in DOMAIN requests[n], requests[n][i].event \notin rejected
      PROVE  \E x \in rows \cup Stored(n, rejected) : x.event = requests[n][i].event
  <2> DEFINE mine == requests[n][i]
  <2>1. mine \in Minted /\ mine \in EntriesOf(n, rejected)
    BY <1>2, <1>5 DEF EntriesOf
  <2>2. CASE mine.key \in Recorded
    <3>1. PICK x \in rows : x.key = mine.key
      BY <2>2 DEF Recorded
    <3>2. x \in Minted
      BY DEF MintedOK
    <3>3. x.event = mine.event
      BY <2>1, <3>1, <3>2 DEF Minted
    <3> QED BY <3>3
  <2>3. CASE mine.key \notin Recorded
    BY <2>1, <2>3 DEF Stored
  <2> QED BY <2>2, <2>3
<1>6. EventsOf(requests[n]) \subseteq
          rejected \cup {x.event : x \in rows \cup Stored(n, rejected)}
  BY <1>5 DEF EventsOf
<1> QED BY <1>3, <1>4, <1>6

LEMMA ServerInv == ASSUME Inv, NEW n \in travelling, ServerHandles(n) PROVE Inv'
<1>1. TypeOK /\ MintedOK /\ Ordered(Held) /\ NothingVanishes /\ AnswerOK /\ DisabledOK
  BY DEF Inv
<1>2. n \in 1..Len(requests) /\ Len(requests) \in Nat
  BY <1>1, HeldFacts DEF TypeOK
<1>3. /\ travelling' = travelling \ {n}
      /\ UNCHANGED <<queue, tracked, waiting, paused, failures, closed, disabled,
                     dropped, told, beaconed, requests>>
  BY DEF ServerHandles, ServerAccepts, ServerSaysRetry, ServerRefuses, ServerForbids,
         Received, clientVars
<1>4. /\ Minted' = Minted /\ Flight' = Flight /\ Held' = Held /\ InFlight' = InFlight
      /\ EventsOf(queue') = EventsOf(queue)
  BY <1>3 DEF Minted, Flight, Held, InFlight
<1>5. PICK rejected \in SUBSET EventsOf(requests[n]),
           kind \in {"accepted", "retry", "refused", "fatal"} :
          /\ rows' \in {rows, rows \cup Stored(n, rejected)}
          /\ kind = "accepted" => rows' = rows \cup Stored(n, rejected)
          /\ Answers(n, [kind |-> kind, rejected |-> rejected])
  <2>1. CASE ServerAccepts(n)
    BY <2>1 DEF ServerAccepts
  <2>2. CASE ServerSaysRetry(n)
    BY <2>2 DEF ServerSaysRetry
  <2>3. CASE ServerRefuses(n)
    BY <2>3 DEF ServerRefuses
  <2>4. CASE ServerForbids(n)
    BY <2>4 DEF ServerForbids
  <2> QED BY <2>1, <2>2, <2>3, <2>4 DEF ServerHandles
<1> DEFINE answer == [kind |-> kind, rejected |-> rejected]
<1>6. /\ Stored(n, rejected) \subseteq Minted /\ rejected \subseteq 1..tracked
      /\ EventsOf(requests[n]) \subseteq
             rejected \cup {x.event : x \in rows \cup Stored(n, rejected)}
  BY <1>1, <1>2, StoredFacts
<1>7. rows \subseteq rows' /\ rows' \subseteq Minted
  BY <1>1, <1>5, <1>6 DEF MintedOK
<1>8. Durable \subseteq Durable' /\ Durable' \subseteq 1..tracked
  BY <1>3, <1>7 DEF Durable, Minted
<1>9. /\ reply' = reply \/ (reply' = answer /\ n = waiting)
      /\ waiting # 0 \/ reply' = reply
  BY <1>2, <1>5 DEF Answers
<1>10. tracked \in Nat /\ Minted \subseteq Entry
  BY <1>1, HeldFacts
<1>11. answer \in Replies
  BY <1>6, <1>10 DEF Replies
<1>12. TypeOK'
  <2>1. reply' \in Replies /\ (reply' # NoReply => waiting' # 0)
    BY <1>1, <1>3, <1>9, <1>11 DEF TypeOK
  <2>2. rows' \subseteq Entry /\ travelling' \subseteq 1..Len(requests')
    BY <1>1, <1>3, <1>7, <1>10 DEF TypeOK
  <2> QED BY <1>1, <1>3, <2>1, <2>2 DEF TypeOK
<1>13. MintedOK'
  BY <1>1, <1>3, <1>4, <1>7 DEF MintedOK
<1>14. NothingVanishes'
  <2>1. 1..tracked = EventsOf(queue) \cup InFlight \cup Durable' \cup told
                         \cup dropped \cup beaconed
    BY <1>1, <1>8 DEF NothingVanishes
  <2> QED BY <1>3, <1>4, <2>1 DEF NothingVanishes
<1>15. AnswerOK'
  <2>1. CASE reply' = reply
    BY <1>1, <1>3, <1>4, <1>8, <2>1 DEF AnswerOK
  <2>2. CASE reply' = answer /\ n = waiting
    <3>1. Flight = requests[n]
      BY <1>1, <1>2, <2>2, HeldFacts
    <3>2. SUFFICES ASSUME kind = "accepted"
                   PROVE  /\ rejected \subseteq 1..tracked'
                          /\ EventsOf(Flight') \subseteq rejected \cup Durable'
      BY <2>2 DEF AnswerOK
    <3>3. rows' = rows \cup Stored(n, rejected)
      BY <1>5, <3>2
    <3> QED BY <1>3, <1>4, <1>6, <3>1, <3>3 DEF Durable
  <2> QED BY <1>9, <2>1, <2>2
<1>16. DisabledOK' /\ Ordered(Held')
  BY <1>1, <1>3, <1>4 DEF DisabledOK
<1> QED BY <1>12, <1>13, <1>14, <1>15, <1>16 DEF Inv

-----------------------------------------------------------------------------
(* The theorems *)

LEMMA NextInv == Inv /\ [Next]_vars => Inv'
<1> SUFFICES ASSUME Inv, [Next]_vars PROVE Inv'
  OBVIOUS
<1>1. CASE UNCHANGED vars
  <2>1. UNCHANGED <<queue, tracked, waiting, paused, failures, closed, disabled,
                    dropped, told, beaconed, requests, travelling, reply, rows>>
    BY <1>1 DEF vars, sdkVars, clientVars, wireVars
  <2> QED BY <2>1 DEF Inv, TypeOK, MintedOK, NothingVanishes, AnswerOK, DisabledOK,
                      Minted, Flight, Held, InFlight, Durable
<1>2. CASE Track /\ UNCHANGED rows
  BY <1>2, TrackInv
<1>3. CASE Flush /\ UNCHANGED rows
  <2>1. closed' \in BOOLEAN
    BY <1>3 DEF Flush, Inv, TypeOK
  <2> QED BY <1>3, <2>1, FlushInv DEF Flush
<1>4. CASE Hidden /\ UNCHANGED rows
  BY <1>4, HiddenInv
<1>5. CASE Shutdown /\ UNCHANGED rows
  BY <1>5, FlushInv DEF Shutdown
<1>6. CASE PauseEnds /\ UNCHANGED rows
  BY <1>6, PauseInv
<1>7. CASE Hear /\ UNCHANGED rows
  BY <1>7, HearInv
<1>8. CASE \E n \in travelling : ServerHandles(n)
  BY <1>8, ServerInv
<1> QED BY <1>1, <1>2, <1>3, <1>4, <1>5, <1>6, <1>7, <1>8 DEF Next, SdkNext

LEMMA InvHolds == Spec => []Inv
BY InitInv, NextInv, PTL DEF Spec

\* SdkClient and Delivery: every value stays of its type, the queue within
\* maxQueueSize, and a reply is only ever there for the flush that awaits it.
THEOREM TypesHold == Spec => []TypeOK
<1>1. Inv => TypeOK
  BY DEF Inv
<1> QED BY <1>1, InvHolds, PTL

\* queue.ts: what is in the queue is in the order of track(), and a batch in
\* flight, which requeue() may put back in front, is older than all of it.
THEOREM OrderIsKept == Spec => []OldestFirst
<1>1. Inv => OldestFirst
  <2> SUFFICES ASSUME Inv PROVE OldestFirst
    OBVIOUS
  <2>1. /\ Minted \in SUBSET Entry /\ Flight \in Seq(Minted) /\ queue \in Seq(Minted)
        /\ InFlight = EventsOf(Flight) /\ Ordered(Flight \o queue)
    BY HeldFacts DEF Inv, Held
  <2>2. Ordered(queue) /\ \A e \in InFlight, f \in EventsOf(queue) : e < f
    BY <2>1, OrderedParts
  <2> QED BY <2>2 DEF OldestFirst, Ordered
<1> QED BY <1>1, InvHolds, PTL

\* sink.ts with track(): as a retry keeps the key that was minted, an event has
\* one row however often its batch arrives.
THEOREM OneRowEach == Spec => []OneRowPerEvent
<1>1. Inv => OneRowPerEvent
  BY DEF Inv, MintedOK, Minted, OneRowPerEvent
<1> QED BY <1>1, InvHolds, PTL

\* handle(), trim() and onHidden(): every event that track() took is held, is
\* durable, or went in one of the ways that are accounted for.
THEOREM NoneVanishes == Spec => []NothingVanishes
<1>1. Inv => NothingVanishes
  BY DEF Inv
<1> QED BY <1>1, InvHolds, PTL

\* Counted.disabled: once a fatal status was heard, no step of the client sends
\* or queues anything.
THEOREM DisabledStaysSilent == Spec => DisabledIsSilent
<1>1. Inv /\ [Next]_vars => [disabled => requests' = requests /\ queue' = <<>>]_vars
  <2> SUFFICES ASSUME Inv, Next, disabled
               PROVE  requests' = requests /\ queue' = <<>>
    OBVIOUS
  <2>1. queue = <<>> /\ waiting = 0 /\ reply = NoReply
    BY ReplyIsAwaited DEF Inv, DisabledOK
  <2>2. CASE Track
    BY <2>2 DEF Track
  <2>3. CASE Flush \/ Shutdown
    BY <2>1, <2>3 DEF Flush, Shutdown, FlushOf, MaySend
  <2>4. CASE Hidden
    BY <2>1, <2>4 DEF Hidden
  <2>5. CASE PauseEnds
    BY <2>1, <2>5 DEF PauseEnds, wireVars
  <2>6. CASE Hear
    BY <2>1, <2>6 DEF Hear, HearAccepted, HearRefused, HearFatal, Retry, NoReply
  <2>7. CASE \E n \in travelling : ServerHandles(n)
    BY <2>1, <2>7 DEF ServerHandles, ServerAccepts, ServerSaysRetry, ServerRefuses,
                      ServerForbids, Received, clientVars
  <2> QED BY <2>2, <2>3, <2>4, <2>5, <2>6, <2>7 DEF Next, SdkNext
<1> QED BY <1>1, InvHolds, PTL DEF Spec, DisabledIsSilent

=============================================================================
