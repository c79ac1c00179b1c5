-------------------------------- MODULE Ledger --------------------------------
(***************************************************************************)
(* The ledger service: the Kafka consumer of the payments topic, the HTTP  *)
(* endpoint that accepts the same event, and HandlePaymentSucceeded, which *)
(* both call: a look at processed_events, then one database transaction    *)
(* that writes a debit, a credit, the pending balance and the processed    *)
(* mark.                                                                   *)
(*                                                                         *)
(* An offset is a position in log.  The consumer and each HTTP handler are *)
(* workers that run HandlePaymentSucceeded concurrently; a worker's step   *)
(* is one call to Kafka or Postgres.  The transaction is one step: nothing *)
(* of it is visible before its commit, and the insert into processed_events *)
(* waits for any other transaction that inserts the same event id.         *)
(***************************************************************************)
EXTENDS Integers, Sequences, FiniteSets, Sums

CONSTANTS
    Ids,            \* event ids
    Payments,       \* payment ids
    Merchants,
    MerchantOf,     \* the merchant of each payment
    Amounts,        \* amounts in minor units, all positive
    Events,         \* what may be in the topic or be posted over HTTP
    Consumer,       \* the goroutine that runs consume
    Handlers,       \* the goroutines that may serve an HTTP post
    DbFaults,       \* the workers whose database calls may fail in this instance
    CommitFaults,   \* whether offset commits may fail
    MaxLog,         \* bound on the length of the topic
    MaxPosts,       \* bound on HTTP posts
    MaxRestarts     \* bound on restarts

\* "succeeded" passes validatePaymentSucceededEvent, "invalid" does not; "failed"
\* and "unknown" are the other event types; "unsigned" and "malformed" messages are
\* rejected before their type is looked at.
Kinds == {"succeeded", "invalid", "failed", "unknown", "unsigned", "malformed"}
Event == [id: Ids, kind: Kinds, pay: Payments, amount: Amounts]

ASSUME LedgerEventsAssumption ==
    /\ Events \subseteq Event
    /\ \A e, f \in Events : e.id = f.id => e = f
ASSUME LedgerDataAssumption ==
    /\ MerchantOf \in [Payments -> Merchants]
    /\ Amounts \subseteq Nat \ {0}
ASSUME LedgerBoundsAssumption ==
    /\ MaxLog \in Nat /\ MaxPosts \in Nat /\ MaxRestarts \in Nat
    /\ Consumer \notin Handlers
    /\ DbFaults \subseteq {Consumer} \union Handlers /\ CommitFaults \in BOOLEAN

Workers == {Consumer} \union Handlers

VARIABLES
    log,        \* Kafka: the payments topic
    committed,  \* Kafka: offsets up to this one are committed for the group
    next,       \* the reader's position: offsets up to this one were fetched
    step,       \* the next call of each worker
    job,        \* the event each worker has in hand
    debits,     \* Postgres: debit journal entries written for each event
    credits,    \* Postgres: credit journal entries written for each event
    pending,    \* Postgres: merchant_balances.pending
    processed,  \* Postgres: processed_events
    posts,      \* HTTP posts so far
    restarts    \* restarts so far

offsets == <<committed, next>>
books == <<debits, credits, pending, processed>>
bounds == <<posts, restarts>>
vars == <<log, offsets, step, job, books, bounds>>

NoEvent == [id |-> "none"]

TypeOK ==
    /\ log \in Seq(Event)
    /\ committed \in 0..Len(log)
    /\ next \in 0..Len(log)
    /\ step \in [Workers -> {"idle", "check", "post", "commit"}]
    /\ job \in [Workers -> Event \union {NoEvent}]
    /\ debits \in [Ids -> Nat]
    /\ credits \in [Ids -> Nat]
    /\ pending \in [Merchants -> Nat]
    /\ processed \subseteq Ids
    /\ posts \in Nat
    /\ restarts \in Nat

Init ==
    /\ log = <<>>
    /\ committed = 0
    /\ next = 0
    /\ step = [w \in Workers |-> "idle"]
    /\ job = [w \in Workers |-> NoEvent]
    /\ debits = [i \in Ids |-> 0]
    /\ credits = [i \in Ids |-> 0]
    /\ pending = [m \in Merchants |-> 0]
    /\ processed = {}
    /\ posts = 0
    /\ restarts = 0

-----------------------------------------------------------------------------
Goto(w, s) == step' = [step EXCEPT ![w] = s]

\* Where a worker goes whose handler returned nil.
Over(w) == IF w = Consumer THEN "commit" ELSE "idle"

\* Variant: an event goes on whether or not validatePaymentSucceededEvent passes it.
BeginUnvalidated(w, e) ==
    /\ job' = [job EXCEPT ![w] = e]
    /\ Goto(w, IF e.kind \in {"succeeded", "invalid"} THEN "check" ELSE Over(w))

\* handleMessage and HandlePaymentSucceeded up to the first query: only a valid
\* payment.succeeded event goes on; an invalid one and the other types end at once
\* with no error.
Begin(w, e) ==
    /\ job' = [job EXCEPT ![w] = e]
    /\ Goto(w, IF e.kind = "succeeded" THEN "check" ELSE Over(w))

\* The handler returned nil: the consumer commits the offset, an HTTP call is answered.
Succeed(w) == Goto(w, Over(w))

\* The handler returned an error: the consumer goes on to its next fetch without a
\* commit, an HTTP call answers 500.
Fail(w) == Goto(w, "idle")

\* The topic receives a message (the payment service's part).
Produce(e) ==
    /\ Len(log) < MaxLog
    /\ log' = Append(log, e)
    /\ UNCHANGED <<offsets, step, job, books, bounds>>

\* Variant: ReadMessage in place of FetchMessage, which commits what it returns.
FetchCommitting ==
    /\ step[Consumer] = "idle"
    /\ next < Len(log)
    /\ next' = next + 1
    /\ committed' = next + 1
    /\ Begin(Consumer, log[next + 1])
    /\ UNCHANGED <<log, books, bounds>>

\* FetchMessage moves the reader's own position, committed or not.
Fetch ==
    /\ step[Consumer] = "idle"
    /\ next < Len(log)
    /\ next' = next + 1
    /\ Begin(Consumer, log[next + 1])
    /\ UNCHANGED <<log, committed, books, bounds>>

\* POST /transactions/payment-succeeded with a body that binds.
HttpPost(h, e) ==
    /\ h \in Handlers
    /\ step[h] = "idle"
    /\ posts < MaxPosts
    /\ posts' = posts + 1
    /\ e.kind \in {"succeeded", "invalid"}
    /\ Begin(h, e)
    /\ UNCHANGED <<log, offsets, books, restarts>>

-----------------------------------------------------------------------------
(* HandlePaymentSucceeded. *)

IsEventProcessed(e) == e.id \in processed

\* The first query is made outside the transaction.
Check(w) ==
    /\ step[w] = "check"
    /\ \/ IsEventProcessed(job[w]) /\ Succeed(w)
       \/ ~IsEventProcessed(job[w]) /\ Goto(w, "post")
       \/ w \in DbFaults /\ Fail(w)
    /\ UNCHANGED <<log, offsets, job, books, bounds>>

\* The balance row of a new merchant is inserted, an old one incremented.
IncrementPendingBalance(m, amount) == pending' = [pending EXCEPT ![m] = @ + amount]

\* The primary key refuses an event that another transaction has marked.
MarkEventProcessed(e) ==
    /\ e.id \notin processed
    /\ processed' = processed \union {e.id}

\* Variant: the processed mark is an upsert, which a second transaction passes.
PostingsWithUpsert(e) ==
    /\ debits' = [debits EXCEPT ![e.id] = @ + 1]
    /\ credits' = [credits EXCEPT ![e.id] = @ + 1]
    /\ IncrementPendingBalance(MerchantOf[e.pay], e.amount)
    /\ processed' = processed \union {e.id}

\* Variant: the balance row is inserted for a new merchant and never incremented.
PostingsFirstOnly(e) ==
    /\ debits' = [debits EXCEPT ![e.id] = @ + 1]
    /\ credits' = [credits EXCEPT ![e.id] = @ + 1]
    /\ pending' = [pending EXCEPT ![MerchantOf[e.pay]] = IF @ = 0 THEN e.amount ELSE @]
    /\ MarkEventProcessed(e)

\* The committed transaction: debit, credit, balance and processed mark.
Postings(e) ==
    /\ debits' = [debits EXCEPT ![e.id] = @ + 1]
    /\ credits' = [credits EXCEPT ![e.id] = @ + 1]
    /\ IncrementPendingBalance(MerchantOf[e.pay], e.amount)
    /\ MarkEventProcessed(e)

\* The transaction commits; or the primary key of processed_events or a database
\* fault rolls it back; or the connection is lost after the commit.
Post(w) ==
    /\ step[w] = "post"
    /\ \/ Postings(job[w]) /\ Succeed(w)
       \/ IsEventProcessed(job[w]) /\ UNCHANGED books /\ Fail(w)
       \/ w \in DbFaults /\ (Postings(job[w]) \/ UNCHANGED books) /\ Fail(w)
    /\ UNCHANGED <<log, offsets, job, bounds>>

\* Variant: the offset of the message after the one in hand is committed.
CommitNext ==
    /\ step[Consumer] = "commit"
    /\ \/ committed' = next + 1
       \/ CommitFaults /\ UNCHANGED committed
    /\ Goto(Consumer, "idle")
    /\ UNCHANGED <<log, next, job, books, bounds>>

\* CommitMessages commits the offset of the message in hand, and with it every lower
\* one.  When it fails the loop goes on.
Commit ==
    /\ step[Consumer] = "commit"
    /\ \/ committed' = next
       \/ CommitFaults /\ UNCHANGED committed
    /\ Goto(Consumer, "idle")
    /\ UNCHANGED <<log, next, job, books, bounds>>

\* Variant: the reader resumes after what it fetched, not after what it committed.
RestartAfterFetched ==
    /\ restarts < MaxRestarts
    /\ restarts' = restarts + 1
    /\ step' = [w \in Workers |-> "idle"]
    /\ job' = [w \in Workers |-> NoEvent]
    /\ UNCHANGED <<log, offsets, books, posts>>

\* The process dies and restarts: work in hand is lost, the reader resumes at the
\* group's committed offset.
Restart ==
    /\ restarts < MaxRestarts
    /\ restarts' = restarts + 1
    /\ step' = [w \in Workers |-> "idle"]
    /\ job' = [w \in Workers |-> NoEvent]
    /\ next' = committed
    /\ UNCHANGED <<log, committed, books, posts>>

-----------------------------------------------------------------------------
(* The queries of GET /balance and GET /balance/verify. *)

\* The stored balance, zero for a merchant without a row; no code changes available.
GetMaterialisedBalance(m) == [available |-> 0, pending |-> pending[m]]

\* The events the merchant's journal has entries of.
Journal(m) == {e \in Events : debits[e.id] + credits[e.id] > 0 /\ MerchantOf[e.pay] = m}

\* What the journal says: credits less debits are available, nothing is pending.
ComputeBalanceFromJournal(m) ==
    [available |-> SumOver([e \in Events |-> (credits[e.id] - debits[e.id]) * e.amount],
                           Journal(m)),
     pending |-> 0]

\* The two queries are made apart, but what the first one reads never changes.
VerifyBalance(m) ==
    GetMaterialisedBalance(m).available = ComputeBalanceFromJournal(m).available

-----------------------------------------------------------------------------
WorkerStep(w) == Check(w) \/ Post(w)

ConsumerStep == Fetch \/ WorkerStep(Consumer) \/ Commit

ServiceStep ==
    \/ ConsumerStep
    \/ \E h \in Handlers : WorkerStep(h)
    \/ Restart

Next ==
    \/ \E e \in Events : Produce(e)
    \/ ServiceStep
    \/ \E h \in Handlers, e \in Events : HttpPost(h, e)

Spec == Init /\ [][Next]_vars

\* The consumer's goroutine is scheduled; nobody is bound to post, produce or restart.
FairSpec == Spec /\ WF_vars(ConsumerStep)

-----------------------------------------------------------------------------
(* Properties. *)

\* An event is posted exactly once if it is marked processed and not at all if it is
\* not, whatever redelivery, concurrent HTTP post, rollback or restart came between
\* the look at processed_events and the transaction; every debit has its credit, so
\* the journal nets to zero as VerifyBalance requires.
PostedExactlyOnce ==
    \A i \in Ids : /\ debits[i] = credits[i]
                   /\ debits[i] = IF i \in processed THEN 1 ELSE 0

\* The stored balance is the journal's, in each of its columns: the verification
\* endpoint, which looks at available only, never reports a mismatch, and pending,
\* which it does not look at, is the sum of the merchant's credits.
PendingMatchesJournal ==
    \A m \in Merchants :
        /\ VerifyBalance(m)
        /\ GetMaterialisedBalance(m).pending =
               SumOver([e \in Events |-> credits[e.id] * e.amount], Journal(m))

\* An offset is committed only once its event has been dealt with: no valid event at
\* or below the committed offset is missing from the books.
CommittedIsPosted ==
    \A i \in 1..committed : log[i].kind = "succeeded" => log[i].id \in processed

\* Every valid event that reaches the topic is posted.
EveryEventPosted ==
    \A e \in Events :
        e.kind = "succeeded" =>
            ((\E i \in 1..Len(log) : log[i] = e) ~> e.id \in processed)
=============================================================================
