---------------------------- MODULE MCAstePipeline ----------------------------
(*****************************************************************************)
(* AstePipeline for TLC.                                                     *)
(*****************************************************************************)
EXTENDS AstePipeline

CONSTANTS d1, d2, w1, w2, h1, h2

=============================================================================
