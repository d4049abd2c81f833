--------------------------- MODULE MCIngestServer ---------------------------
(* Small instances of IngestServer for TLC.                                 *)
EXTENDS IngestServer

CONSTANTS p1, p2, r1, r3, r4, r5, r6, a, b, n

\* r3 resends what r1 carries, r4 brings the same key to the other project, beside an
\* event of its own, r5 has nothing left after admission and r6 is too large.
MCProjectOf == [r \in Request |-> IF r \in {r4, r5} THEN p2 ELSE p1]
MCBatchOf ==
    [r \in Request |->
        CASE r = r1 -> {a, n} [] r = r3 -> {a} [] r = r4 -> {a, n}
          [] r = r5 -> {}     [] r = r6 -> {a, b, n}]
=============================================================================
