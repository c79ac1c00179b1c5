------------------------------- MODULE Pipeline -------------------------------
(***************************************************************************)
(* The payment service and the ledger service joined by the payments topic: *)
(* what the ledger consumes is what CreatePayment and the recovery job      *)
(* publish, at the moments they publish it.  Either process may crash on    *)
(* its own.  Beside the topic the ledger has its HTTP endpoint, which books *)
(* an event whoever posts it: one of the topic's, or one a caller composed. *)
(***************************************************************************)
EXTENDS Payment

CONSTANTS
    CallerEvents,       \* what callers of the ledger's endpoint compose themselves
    LedgerHandlers,     \* the goroutines that may serve its HTTP posts
    LedgerCommitFaults, \* whether the ledger's offset commits may fail
    LedgerPosts,        \* bound on HTTP posts
    LedgerRestarts      \* bound on its restarts

CallerIds == {e.id : e \in CallerEvents}

\* Event ids are UUIDs: a caller's own event has an id that is none of the producer's
\* and that names one event.
ASSUME PipelineAssumption ==
    /\ CallerEvents \subseteq [id: CallerIds, kind: {"succeeded", "invalid"},
                              pay: Requests, amount: {1}]
    /\ CallerIds \intersect 0..MaxEvents = {}
    /\ \A e, f \in CallerEvents : e.id = f.id => e = f
    /\ "consumer" \notin LedgerHandlers

VARIABLES committed, next, step, job, debits, credits, pending, processed, posts,
          restarts

ledgerVars == <<committed, next, step, job, debits, credits, pending, processed,
                posts, restarts>>
pipelineVars == <<vars, ledgerVars>>

\* validatePaymentSucceededEvent requires status "completed"; the other conditions
\* hold of every event the payment service builds.
KindOf(e) ==
    CASE EventType(e.status) = "payment.failed" -> "failed"
      [] e.status = "completed" -> "succeeded"
      [] OTHER -> "invalid"

\* The topic as the ledger decodes it.  All payments are of one unit, to one merchant.
Decoded ==
    [i \in 1..Len(log) |-> [id |-> log[i].id, kind |-> KindOf(log[i]),
                            pay |-> log[i].pay, amount |-> 1]]

Ledger == INSTANCE Ledger WITH
    log <- Decoded,
    Ids <- 0..MaxEvents \union CallerIds,
    Payments <- Requests,
    Merchants <- {"merchant"},
    MerchantOf <- [r \in Requests |-> "merchant"],
    Amounts <- {1},
    Events <- CallerEvents,
    Consumer <- "consumer",
    Handlers <- LedgerHandlers,
    DbFaults <- {},
    CommitFaults <- LedgerCommitFaults,
    MaxLog <- MaxEvents,
    MaxPosts <- LedgerPosts,
    MaxRestarts <- LedgerRestarts

PipelineInit == Init /\ Ledger!Init

\* POST /transactions/payment-succeeded: an event of the topic posted by hand, or one the
\* caller composed, of which neither the bank nor the payment service knows.
Posted == CallerEvents \union {Decoded[i] : i \in 1..Len(log)}

PaymentMoves == Next /\ UNCHANGED ledgerVars
LedgerMoves == UNCHANGED vars /\ Ledger!ServiceStep
ConsumerMoves == UNCHANGED vars /\ Ledger!ConsumerStep
CallerMoves ==
    UNCHANGED vars /\ \E h \in LedgerHandlers, e \in Posted : Ledger!HttpPost(h, e)

PipelineNext == PaymentMoves \/ LedgerMoves \/ CallerMoves

PipelineSpec == PipelineInit /\ [][PipelineNext]_pipelineVars

\* The payment service's fairness, and the ledger consumer's goroutine.
PipelineFairSpec ==
    /\ PipelineSpec
    /\ \A r \in Requests : WF_pipelineVars(RequestStep(r) /\ UNCHANGED ledgerVars)
    /\ WF_pipelineVars(RecoveryStep /\ UNCHANGED ledgerVars)
    /\ \A r \in Requests : \A s \in Final :
         SF_pipelineVars(/\ RecoveryPublishes([pay |-> r, status |-> s])
                         /\ UNCHANGED ledgerVars)
    /\ WF_pipelineVars(ConsumerMoves)

-----------------------------------------------------------------------------
(* Properties. *)

\* The times a payment was entered in the ledger's journal.
PostedFor(r) == {log[i].id : i \in {j \in 1..Len(log) :
                                log[j].pay = r /\ log[j].id \in processed}}

\* Money is booked only for payments the bank approved and the payment service
\* records as completed, whatever was retried, republished, redelivered or posted by
\* hand; only what a caller of the ledger's endpoint composed under an id of its own
\* is booked on the caller's word.
BookedMoneyWasApproved ==
    \A i \in processed \ CallerIds : \E r \in Requests :
        /\ i \in PostedFor(r)
        /\ bank[r] = "approved" /\ row[r] = "completed"

\* The pending balance is what the processed events amount to, end to end.
BalanceCountsEvents == pending["merchant"] = Cardinality(processed)

\* A completed payment that is marked published, and so is never published again, is
\* in the ledger or in a message the ledger has not committed and will read again,
\* although the mark, the books and the offset are three writes of two services.
MarkedIsNotLost ==
    \A r \in published :
        row[r] = "completed" =>
            \E i \in 1..Len(log) :
                log[i].pay = r /\ (log[i].id \in processed \/ committed < i)

\* Every completed payment is entered in the ledger, although the publication, the
\* publisher, the consumer or its offset commits may fail in between.
EveryCompletedPaymentBooked ==
    \A r \in Requests : row[r] = "completed" ~> PostedFor(r) # {}

\* A payment is entered in the ledger once.
OnePostingPerPayment == \A r \in Requests : Cardinality(PostedFor(r)) <= 1
=============================================================================
