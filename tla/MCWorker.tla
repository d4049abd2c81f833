------------------------------ MODULE MCWorker ------------------------------
(* A small instance of Worker for TLC.                                      *)
EXTENDS Worker

CONSTANTS retention, maintenance

\* The sweep runs every other time that the maintenance check does.
MCEvery == [j \in Job |-> IF j = Retention THEN 2 ELSE 1]
=============================================================================
