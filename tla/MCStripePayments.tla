-------------------------- MODULE MCStripePayments --------------------------
(***************************************************************************)
(* StripePayments on the instance of StripePayments.cfg.                   *)
(***************************************************************************)
EXTENDS StripePayments

=============================================================================
