----------------------------- MODULE MCPayment -----------------------------
(* Small instances of the payment service for TLC. *)
EXTENDS PaymentRefinement, TLC

CONSTANT k1

\* Every call carries the same key.
OneKey == [r \in Requests |-> k1]

\* With one key the calls are interchangeable.
Interchangeable == Permutations(Requests)
=============================================================================
