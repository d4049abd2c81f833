----------------------------- MODULE SinkCalls -----------------------------
(***************************************************************************)
(* The coalescer as the caller of its event sink.  GroupCommit has the     *)
(* sink inside its own actions; here two history variables note the calls  *)
(* of writeBatch that its commits make (group-commit.ts:350), which of     *)
(* them took effect and what each resolved with.  With them its sink can   *)
(* be compared with the port, EventSink: what the coalescer is checked     *)
(* against is what LiticsSink implements.                                  *)
(*                                                                         *)
(* A history variable is written and never read: the coalescer behaves as  *)
(* it does without.                                                        *)
(***************************************************************************)
EXTENDS GroupCommit

\* A call hands over the events of one group.  The waiters tell it from a call
\* that carries the same events for others; no two commits have the same.
Call ==
    {w \in [project : Project, events : SUBSET Copy, waiters : SUBSET Request] :
        /\ \A x \in w.events : x[1] \in w.waiters /\ x[2] \in BatchOf[x[1]]
        /\ \A r \in w.waiters : ProjectOf[r] = w.project}

CallOf(c) == [project |-> c.project, events |-> c.events, waiters |-> c.waiters]

VARIABLES
    effected,  \* the calls whose batch took effect
    resolved   \* what each call resolved with

callVars == <<effected, resolved>>

KeyedCopy == {x \in Copy : x[2] \in Keyed}

\* A dedup key is scoped to its project; so are a receipt and a row.
Port == INSTANCE EventSink
    WITH Writer <- Call, Item <- Copy, Keyed <- KeyedCopy,
         KeyOf <- [x \in KeyedCopy |-> <<ProjectOf[x[1]], x[2]>>],
         Batch <- [w \in Call |-> w.events],
         receipts <- {pe \in Project \X Keyed : pe[2] \in receipts[pe[1]]},
         rows <- UNION {rows[p] : p \in Project},
         stored <- [w \in Call |-> w \in effected],
         answer <- resolved

-----------------------------------------------------------------------------
CallsInit ==
    /\ Init
    /\ effected = {}
    /\ resolved = [w \in Call |-> Port!Pending]

TakesEffect(c) ==
    /\ effected' = effected \cup {CallOf(c)}
    /\ UNCHANGED resolved

Resolves(c, answer) ==
    /\ resolved' = [resolved EXCEPT ![CallOf(c)] = answer]
    /\ UNCHANGED effected

\* The coalescer between its calls.
Otherwise ==
    /\ \/ \E r \in Request : Submit(r) \/ QuotaAnswers(r)
       \/ \E c \in commits : SettleCommitted(c) \/ CommitEnds(c)
       \/ Advance \/ Tick \/ Drain \/ DrainResolves
       \/ Finished
    /\ UNCHANGED callVars

CallsNext ==
    \/ \E c \in commits :
          \/ SinkCommits(c) /\ TakesEffect(c)
          \/ (SinkFails(c) \/ ReceiptLost(c)) /\ Resolves(c, Port!Failed)
          \/ RecordUsage(c) /\ Resolves(c, Port!Written(c.written))
    \/ \E c \in late : SinkCommitsLate(c) /\ TakesEffect(c)
    \/ Otherwise

CallsSpec == CallsInit /\ [][CallsNext]_<<vars, callVars>>

-----------------------------------------------------------------------------
(***************************************************************************)
(* The sink inside GroupCommit keeps the promise of the port and no more   *)
(* is assumed of it: a call takes effect as a whole and once, also after   *)
(* its error, and the answer that group-commit.ts:360 reads names exactly  *)
(* what this call stored (event-sink.ts:28).                               *)
(***************************************************************************)
SinkKeepsPromise == Port!Spec
=============================================================================
