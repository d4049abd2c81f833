----------------------------- MODULE MCProjects -----------------------------
(***************************************************************************)
(* Projects with small values: see MCProjects.cfg and ProjectsCap.cfg.     *)
(***************************************************************************)
EXTENDS Projects
=============================================================================
