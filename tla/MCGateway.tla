----------------------------- MODULE MCGateway -----------------------------
(* A small instance of the gateway and the auth service for TLC. *)
EXTENDS Gateway

\* A short-lived key that reads payments, one whose "full" hides an unknown scope, one
\* that is refused.
MCForms == {[items |-> <<"payments:read">>, life |-> 1],
            [items |-> <<"ledger:write", "full", "pay">>, life |-> 9],
            [items |-> <<"pay", "full">>, life |-> 9]}

\* The last has dot segments.
MCRoutes == {
    [path |-> "payments", dots |-> "none", rest |-> "", get |-> TRUE, body |-> "none"],
    [path |-> "payments", dots |-> "none", rest |-> "/*", get |-> FALSE, body |-> "{..}"],
    [path |-> "webhooks", dots |-> "webhooks", rest |-> "/*", get |-> TRUE, body |-> "none"]}

\* The payment service's clock is as fast, the webhook service's as slow as may be.
MCAhead == [s \in Services |->
               CASE s = "payments" -> 1 [] s = "webhooks" -> -2 [] OTHER -> 0]

\* Calls are interchangeable.
Interchangeable == Permutations(Calls)
=============================================================================
