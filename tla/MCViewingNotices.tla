-------------------------- MODULE MCViewingNotices --------------------------
(*****************************************************************************)
(* ViewingNotices for TLC: one viewing, one request in flight beside the     *)
(* mails on their way, one scheduler with one run at a time or two.  The     *)
(* unit is a sweep interval; both reminder windows are as narrow as one.     *)
(*****************************************************************************)
EXTENDS ViewingNotices, TLC

CONSTANTS v1, p1, h1, s1, r1, r2

MCStarts == {3, 4}

MCClosed == [s \in MCStarts |-> 0]
MCSchedules == {MCClosed, [s \in MCStarts |-> 1]}

MCRemLo == [k \in Kinds |-> IF k = "24h" THEN 2 ELSE 0]
MCRemHi == [k \in Kinds |-> IF k = "24h" THEN 3 ELSE 1]

RunSymmetry == Permutations(Runs)

\* The owner publishes the windows before anything else happens and leaves them, for neither
\* mails nor reminders read them.  Overlapping runs are looked at without faults, and without
\* mails that arrive, which no run reads.
Bound ==
    /\ schedule = MCClosed => peak = 0 /\ faults = 0
    /\ ~edited
    /\ peak > 1 => faults = 0 /\ \A v \in Ids : calendar[v] = NoEntry

=============================================================================
