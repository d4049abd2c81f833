------------------------------ MODULE MCOutbox ------------------------------
(* Small instances of Outbox for TLC. *)
EXTENDS Outbox, TLC

CONSTANT c1

\* One command, whose events the workers then fight over.
Together == c1 :> {1, 2}
=============================================================================
