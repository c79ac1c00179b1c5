--------------------------- MODULE PipelineRefinement ---------------------------
(* Payment service and ledger, joined by the topic, implement PipelinePromise. *)
EXTENDS Pipeline

Approved == {r \in Requests : bank[r] = "approved"}
Completed == {r \in Requests : row[r] = "completed"}

\* The successes announced in the topic; copies of a message are one announcement.
Successes ==
    {[id |-> log[i].id, pay |-> log[i].pay] :
        i \in {j \in 1..Len(log) : EventType(log[j].status) = "payment.succeeded"}}

Booked == {a \in Successes : a.id \in processed}
Accepted == processed \intersect CallerIds

Promise == INSTANCE PipelinePromise WITH
    Payments <- Requests,
    Ids <- 0..MaxEvents,
    CallerIds <- CallerIds,
    approved <- Approved,
    completed <- Completed,
    announced <- Successes,
    booked <- Booked,
    accepted <- Accepted,
    balance <- pending["merchant"]

\* Every step of either service, whatever crashes, fails or is repeated, is one of the
\* promise's or changes nothing it speaks of: announced money follows the bank from its
\* approval to the balance, and never the other way; a caller's own event moves the
\* balance once and stands for no announcement.
KeepsPromise == Promise!Spec
=============================================================================
