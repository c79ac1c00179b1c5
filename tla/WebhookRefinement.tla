-------------------------- MODULE WebhookRefinement --------------------------
(* The webhook service implements WebhookPromise. *)
EXTENDS Webhook

\* A delivery that waits for its first attempt and one that waits for the next are open.
StatusOf(s) ==
    CASE s = "absent" -> "none"
      [] s \in Terminal -> s
      [] OTHER -> "open"

Status == [d \in Deliveries |-> StatusOf(row[d])]

Called == {d \in Deliveries : \E n \in 0..MaxRetries : posts[<<d, n>>] > 0}

Promise == INSTANCE WebhookPromise WITH status <- Status, called <- Called

\* Whatever is handed over again, retried, cut off by a crash or written without an
\* answer, each step of the service does to each delivery only what the promise allows.
KeepsPromise == Promise!Spec
=============================================================================
