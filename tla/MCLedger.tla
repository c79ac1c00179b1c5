------------------------------ MODULE MCLedger ------------------------------
(* Small instances of the ledger service for TLC. *)
EXTENDS LedgerRefinement

CONSTANTS p1, p2, m1

\* Two payments of one merchant.
OneMerchant == [p \in Payments |-> m1]

Ev(i, k, p, a) == [id |-> i, kind |-> k, pay |-> p, amount |-> a]

\* Two valid events, one that fails validation and one the service skips.
MCEvents == {Ev(1, "succeeded", p1, 1), Ev(2, "succeeded", p2, 2),
             Ev(3, "invalid", p2, 2), Ev(4, "failed", p2, 2)}
=============================================================================
