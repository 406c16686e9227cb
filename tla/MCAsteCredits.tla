---------------------------- MODULE MCAsteCredits ----------------------------
(*****************************************************************************)
(* AsteCredits for TLC: one user who buys two packs and reads two analyses.  *)
(*****************************************************************************)
EXTENDS AsteCredits

CONSTANTS u1, p1, p2, a1, a2, h1, h2

MCBuyer == [p \in Payments |-> u1]
MCPack == [p \in Payments |-> IF p = p1 THEN 1 ELSE 3]
MCReader == [a \in Analyses |-> u1]

=============================================================================
