---------------------------- MODULE CreditLedger ----------------------------
(*****************************************************************************)
(* What the Aste credits promise: a payment is credited once, a report is    *)
(* opened once for one credit, and nobody owes credits.                      *)
(*****************************************************************************)
EXTENDS Integers

CONSTANTS
    Users,
    Payments,  \* Stripe payment ids
    Analyses,
    Buyer,     \* the user who made a payment
    Pack,      \* the credits it bought
    Reader     \* the user whose analysis it is

VARIABLES
    credited,  \* payments that were credited
    opened,    \* analyses whose full report was paid for
    credits    \* user |-> credits left

ledgerVars == <<credited, opened, credits>>

LedgerInit ==
    /\ credited = {}
    /\ opened = {}
    /\ credits = [u \in Users |-> 0]

\* A payment is credited to its buyer.
Grant(p) ==
    /\ p \notin credited
    /\ credited' = credited \cup {p}
    /\ credits' = [credits EXCEPT ![Buyer[p]] = @ + Pack[p]]
    /\ UNCHANGED opened

\* The reader of an analysis pays one credit for its report.
Open(a) ==
    /\ a \notin opened
    /\ credits[Reader[a]] >= 1
    /\ opened' = opened \cup {a}
    /\ credits' = [credits EXCEPT ![Reader[a]] = @ - 1]
    /\ UNCHANGED credited

LedgerNext == (\E p \in Payments : Grant(p)) \/ (\E a \in Analyses : Open(a))

LedgerSpec == LedgerInit /\ [][LedgerNext]_ledgerVars

=============================================================================
