---------------------------- MODULE MCWorkspaces ----------------------------
(* A small instance of Workspaces for TLC: the shapes an organization from  *)
(* before may have.                                                         *)
EXTENDS Workspaces

CONSTANTS a, b

Of(x, n, role) == [account |-> x, n |-> n, role |-> role]

Shapes ==
    {{},
     {Of(a, 1, "owner"), Of(a, 2, "owner"), Of(b, 1, "member")},
     {Of(a, 1, "owner"), Of(a, 2, "other"), Of(b, 1, "owner")}}
=============================================================================
