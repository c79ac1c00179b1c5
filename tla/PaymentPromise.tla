--------------------------- MODULE PaymentPromise ---------------------------
(***************************************************************************)
(* What the payment service promises about one idempotency key, whoever    *)
(* calls it, however often, and whatever fails underneath: one payment, at *)
(* most one question to the bank, one outcome that never changes, and      *)
(* announcements of that outcome only.                                     *)
(***************************************************************************)
CONSTANTS Keys

VARIABLES
    payment,    \* status of the key's payment
    bank,       \* what the bank did for it
    announced   \* the event types published about it

vars == <<payment, bank, announced>>

Init ==
    /\ payment = [k \in Keys |-> "none"]
    /\ bank = [k \in Keys |-> "unasked"]
    /\ announced = [k \in Keys |-> {}]

Open(k) ==
    /\ payment[k] = "none"
    /\ payment' = [payment EXCEPT ![k] = "processing"]
    /\ UNCHANGED <<bank, announced>>

Ask(k) ==
    /\ payment[k] = "processing"
    /\ bank[k] = "unasked"
    /\ \E did \in {"unreached", "approved", "declined"} :
         bank' = [bank EXCEPT ![k] = did]
    /\ UNCHANGED <<payment, announced>>

\* Only an approval completes the payment; an approval the service never heard of
\* fails it.
Decide(k) ==
    /\ payment[k] = "processing"
    /\ bank[k] # "unasked"
    /\ \/ bank[k] = "approved" /\ payment' = [payment EXCEPT ![k] = "completed"]
       \/ payment' = [payment EXCEPT ![k] = "failed"]
    /\ UNCHANGED <<bank, announced>>

Announce(k) ==
    /\ \/ /\ payment[k] = "completed"
          /\ announced' = [announced EXCEPT ![k] = {"payment.succeeded"}]
       \/ /\ payment[k] = "failed"
          /\ announced' = [announced EXCEPT ![k] = {"payment.failed"}]
    /\ UNCHANGED <<payment, bank>>

Next == \E k \in Keys : Open(k) \/ Ask(k) \/ Decide(k) \/ Announce(k)

Spec == Init /\ [][Next]_vars

\* Every decided payment is announced in the end.
FairSpec == Spec /\ \A k \in Keys : WF_vars(Announce(k))
=============================================================================
