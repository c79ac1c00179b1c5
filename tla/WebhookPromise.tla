---------------------------- MODULE WebhookPromise ----------------------------
(***************************************************************************)
(* What the webhook service promises about one delivery: it is on record   *)
(* before the merchant is called and stays on record for good, it counts   *)
(* as delivered only when a call has reached the merchant, and it dies     *)
(* only together with a dead letter, which is never withdrawn.  A further  *)
(* attempt at a delivery already settled may open it again.                *)
(***************************************************************************)
CONSTANTS Deliveries

VARIABLES
    status,     \* of each delivery
    called,     \* the deliveries some call has carried to the merchant
    letters     \* the deliveries with a dead letter

vars == <<status, called, letters>>

Init ==
    /\ status = [d \in Deliveries |-> "none"]
    /\ called = {}
    /\ letters = {}

Becomes(d, s) == status' = [status EXCEPT ![d] = s]

Open(d) ==
    /\ status[d] = "none"
    /\ Becomes(d, "open")
    /\ UNCHANGED <<called, letters>>

Call(d) ==
    /\ status[d] # "none"
    /\ called' = called \union {d}
    /\ UNCHANGED <<status, letters>>

Deliver(d) ==
    /\ status[d] # "none"
    /\ d \in called
    /\ Becomes(d, "delivered")
    /\ UNCHANGED <<called, letters>>

Bury(d) ==
    /\ status[d] # "none"
    /\ Becomes(d, "dead")
    /\ letters' = letters \union {d}
    /\ UNCHANGED called

Reopen(d) ==
    /\ status[d] \in {"delivered", "dead"}
    /\ Becomes(d, "open")
    /\ UNCHANGED <<called, letters>>

Next ==
    \E d \in Deliveries : Open(d) \/ Call(d) \/ Deliver(d) \/ Bury(d) \/ Reopen(d)

Spec == Init /\ [][Next]_vars
=============================================================================
