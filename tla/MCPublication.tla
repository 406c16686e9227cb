--------------------------- MODULE MCPublication ---------------------------
(*****************************************************************************)
(* Publication for TLC: one payment, two handlers, a clock of four ticks.    *)
(*****************************************************************************)
EXTENDS Publication, TLC

CONSTANTS p1, h1, h2

Symmetry == Permutations(Handlers)

=============================================================================
