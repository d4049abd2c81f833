---------------------------- MODULE MCLiticsSink ----------------------------
(* Small instances of LiticsSink for TLC: w2 has w1's keys in the opposite *)
(* order of their positions, w3 a key twice and an event without one, w4   *)
(* nothing.                                                                *)
EXTENDS LiticsSink, TLC

CONSTANTS w1, w2, w3, w4

MCBatch == (w1 :> {1, 2}) @@ (w2 :> {3, 4}) @@ (w3 :> {5, 6, 7}) @@ (w4 :> {})

MCKeyOf == (1 :> 10) @@ (2 :> 20) @@ (3 :> 20) @@ (4 :> 10) @@ (5 :> 20) @@ (6 :> 20)
=============================================================================
