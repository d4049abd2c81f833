----------------------------- MODULE EventSink -----------------------------
(***************************************************************************)
(* What packages/ingestion/ports promises of an event sink: one writeBatch *)
(* call stores a batch as a whole or not at all, stores each keyed event   *)
(* at most once for ever, and answers with exactly what it stored.  An     *)
(* error promises nothing: the batch may be stored already, or still be.   *)
(***************************************************************************)
EXTENDS Integers, FiniteSets

CONSTANTS
    Writer,   \* the calls of writeBatch
    Item,     \* the positions of all batches
    Keyed,    \* the items whose event has a dedup key
    KeyOf,    \* their key, scoped to the project
    Batch     \* the items of each call

VARIABLES
    receipts,  \* the keys recorded so far
    rows,      \* the items stored
    stored,    \* the calls whose batch took effect
    answer     \* what each call resolved with

vars == <<receipts, rows, stored, answer>>

KeysOf(S) == {KeyOf[i] : i \in S \cap Keyed}

Pending    == [kind |-> "pending", written |-> {}]
Failed     == [kind |-> "err", written |-> {}]
Written(S) == [kind |-> "ok", written |-> S]

\* S is what the batch of w stores: every unkeyed item and one item of each key
\* that has no receipt.
Fresh(w, S) ==
    /\ S \subseteq Batch[w]
    /\ Batch[w] \ Keyed \subseteq S
    /\ KeysOf(S) = KeysOf(Batch[w]) \ receipts
    /\ \A i, j \in S \cap Keyed : KeyOf[i] = KeyOf[j] => i = j

Init ==
    /\ receipts = {} /\ rows = {}
    /\ stored = [w \in Writer |-> FALSE]
    /\ answer = [w \in Writer |-> Pending]

Store(w) ==
    /\ ~stored[w] /\ answer[w].kind # "ok"
    /\ \E S \in SUBSET Batch[w] :
        /\ Fresh(w, S)
        /\ receipts' = receipts \cup KeysOf(S)
        /\ rows' = rows \cup S
    /\ stored' = [stored EXCEPT ![w] = TRUE]
    /\ UNCHANGED answer

AnswerOk(w) ==
    /\ answer[w] = Pending
    /\ stored[w] \/ Batch[w] = {}
    /\ answer' = [answer EXCEPT ![w] = Written(rows \cap Batch[w])]
    /\ UNCHANGED <<receipts, rows, stored>>

AnswerErr(w) ==
    /\ answer[w] = Pending
    /\ answer' = [answer EXCEPT ![w] = Failed]
    /\ UNCHANGED <<receipts, rows, stored>>

Next == \E w \in Writer : Store(w) \/ AnswerOk(w) \/ AnswerErr(w)

Spec == Init /\ [][Next]_vars

-----------------------------------------------------------------------------
\* A key has a receipt exactly when one item of it is stored, and never two.
OneRowPerKey ==
    /\ KeysOf(rows) = receipts
    /\ \A i, j \in rows \cap Keyed : KeyOf[i] = KeyOf[j] => i = j

\* An answer names the rows of its own batch, and every event it does not name
\* is one whose key is recorded.
AnswersAreExact ==
    \A w \in Writer : answer[w].kind = "ok" =>
        /\ answer[w].written = rows \cap Batch[w]
        /\ Batch[w] \ Keyed \subseteq rows
        /\ KeysOf(Batch[w]) \subseteq receipts
=============================================================================
