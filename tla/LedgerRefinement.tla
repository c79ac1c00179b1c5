--------------------------- MODULE LedgerRefinement ---------------------------
(* The ledger service implements LedgerPromise. *)
EXTENDS Ledger

\* The events the journal has an entry of, on either side.
EventsBooked == {e \in Events : debits[e.id] + credits[e.id] > 0}

ValidEvents == {e \in Events : e.kind = "succeeded"}

Promise == INSTANCE LedgerPromise WITH
    Valid <- ValidEvents, booked <- EventsBooked, balance <- pending

\* Seen by the merchants, every behaviour of the service is one the promise allows: the
\* transactions of the consumer and of the HTTP handlers, which look at processed_events
\* before they begin, change journal and balance together, for a valid event, once.
KeepsPromise == Promise!Spec
=============================================================================
