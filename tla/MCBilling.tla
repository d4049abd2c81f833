------------------------------ MODULE MCBilling ------------------------------
(***************************************************************************)
(* Billing with small values: see MCBilling.cfg and BillingLost.cfg.       *)
(***************************************************************************)
EXTENDS Billing
=============================================================================
