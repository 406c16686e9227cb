---------------------------- MODULE MCEngagements ----------------------------
(*****************************************************************************)
(* Engagements for TLC: one mandate, two handlers and four requests, so that *)
(* two orders, two signature requests, a request and a webhook call, or two  *)
(* registrations overlap, and an escalation goes before or between.          *)
(*****************************************************************************)
EXTENDS Engagements

CONSTANTS m1, h1, h2

=============================================================================
