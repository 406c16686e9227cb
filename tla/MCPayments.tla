----------------------------- MODULE MCPayments -----------------------------
(*****************************************************************************)
(* Payments for TLC: one order and one intent under three handlers, so that  *)
(* two calls for its success and one for its decline or a refund overlap.    *)
(*****************************************************************************)
EXTENDS Payments

CONSTANTS o1, i1, h1, h2, h3

=============================================================================
