---------------------------- MODULE LedgerPromise ----------------------------
(***************************************************************************)
(* What the ledger service promises to the merchants: a balance moves only *)
(* when a valid event is booked, by that event's amount, and an event is   *)
(* booked once and for good, however often it is delivered or posted and   *)
(* whatever fails underneath.                                              *)
(***************************************************************************)
EXTENDS Integers

CONSTANTS
    Valid,      \* the payment.succeeded events that pass validation
    Merchants,
    MerchantOf  \* the merchant of each payment

VARIABLES
    booked,     \* the events entered in the journal
    balance     \* the merchants' pending balances

vars == <<booked, balance>>

Init ==
    /\ booked = {}
    /\ balance = [m \in Merchants |-> 0]

Book(e) ==
    /\ e \notin booked
    /\ booked' = booked \union {e}
    /\ balance' = [balance EXCEPT ![MerchantOf[e.pay]] = @ + e.amount]

Next == \E e \in Valid : Book(e)

Spec == Init /\ [][Next]_vars
=============================================================================
