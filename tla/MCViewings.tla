----------------------------- MODULE MCViewings -----------------------------
(*****************************************************************************)
(* Viewings for TLC.  Two requests are in flight at once.                    *)
(*****************************************************************************)
EXTENDS Viewings, TLC

CONSTANTS v1, v2, v3, p1, p2, p3, h1, h2

\* Two starts closer than a slot and its buffer.
MCStarts == {2, 3}

\* One visitor at a time.
MCSchedules == {[s \in MCStarts |-> 1]}

\* An open house for two that the owner turns into single visits, or the other way round.
MCOpen == {[s \in {2} |-> c] : c \in {1, 2}}

Symmetry == Permutations(Ids) \cup Permutations(Seekers) \cup Permutations(Handlers)

=============================================================================
