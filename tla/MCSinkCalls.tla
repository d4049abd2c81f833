---------------------------- MODULE MCSinkCalls ----------------------------
(* A small instance of SinkCalls for TLC.                                   *)
EXTENDS SinkCalls

CONSTANTS p1, p2, r1, r2, r3, a, n

\* r2 resends the keyed event of r1; r3 brings the same key to the other project.
MCProjectOf == [r \in Request |-> IF r = r3 THEN p2 ELSE p1]
MCBatchOf == [r \in Request |-> IF r = r1 THEN {a, n} ELSE {a}]
=============================================================================
