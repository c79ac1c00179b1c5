# Formal model of the payment microservices

TLA+ modules, TLC runs and TLAPS proofs for the payment platform in this
repository: a gateway, an auth service, a payment service, a ledger service, a
webhook service and a mock bank, tied together by HTTP and one Kafka topic.
The modules model the code under `services/`, not the documents that describe
it; where the two disagree the disagreement is a run of its own (see
*Disagreements*).

`PROJECT.json` lists the components, the runs, the map from each definition to
the lines it stands for, the hazards and the theorems. To repeat anything here:

    tlc -config PaymentFaults.cfg MCPayment     # a run: module and cfg in PROJECT.json
    tlapm PaymentProofs.tla                     # the proofs

## The system

| part | state it keeps | operations that change it | talks to |
| --- | --- | --- | --- |
| gateway (`services/gateway`) | rate-limit buckets, in memory | every request counts against a bucket | auth (validate a key), payment, ledger, webhook by HTTP |
| auth (`services/auth`) | merchants, keys, revoked keys (Postgres); 30-second validation cache (Redis) | create merchant, validate (fills the cache), revoke (deletes from it) | called by the gateway |
| payment (`services/payment`) | payments, idem_keys (Postgres); cached responses and locks (Redis); the recovery job's batch (memory) | POST /payments, recovery tick | bank by HTTP, the topic as producer |
| bank mock (`services/bank-mock`) | none | random verdict after a random delay | called by payment |
| ledger (`services/ledger`) | journal, merchant balances, processed events (Postgres); group offset (Kafka) | consume a message, POST /transactions/payment-succeeded | the topic as consumer |
| webhook (`services/webhook`) | endpoints, deliveries, dead letters (Postgres); BullMQ jobs (Redis); group offset (Kafka) | consume a message, endpoint CRUD, worker attempts, manual retry | the topic as consumer, merchants by HTTP |

How a payment runs. The gateway authenticates the call and proxies it.
`CreatePayment` looks the idempotency key up in Redis and Postgres, takes a
ten-second Redis lock, looks again, inserts the payment and the idempotency
record, asks the bank, saves the row, stores the final response in record and
cache, and, when the payment completed, publishes an event and marks the row
published. A call that finds the lock taken polls for a stored response. A
recovery job republishes every thirty seconds what is final and not marked. The
ledger books `payment.succeeded` events; the webhook service turns every event
into one delivery for each subscribed endpoint and a BullMQ worker posts it.

What is hard, and the property each part owes:

* **Payment.** The lock expires under a slow holder, Redis calls fail open,
  four writes to three stores are not atomic, `Save` writes the whole row, the
  recovery job runs beside the requests, and the gateway hangs up after five
  seconds although the bank may take ten, which cancels the request's later
  calls. It owes one bank call and one payment per key, a record before the
  call, no answer that runs ahead of the row or says what the bank did not, a
  truthful topic, decisions that stand, an end to every request, a decision on
  every payment, the same payment shown to a repeated call, and an announcement
  of every outcome.
* **Ledger.** Kafka redelivers, `processed_events` is looked at outside the
  transaction, an HTTP endpoint does the same work, an offset covers all lower
  ones. It owes one posting per event, a balance that is the journal's, and no
  committed offset ahead of the books.
* **The two joined.** The publisher may publish twice or late, the consumer may
  read twice or late, and the ledger's HTTP endpoint books what a caller composes
  beside the topic. They owe that every completed payment is booked and that,
  a caller's own events apart, only approved money is.
* **Webhook.** Row and job are written to two stores, a message with one failed
  endpoint is handed over again, the merchant's answer and the job's completion
  are apart, a manual retry runs beside the delivery's own job, and the consumer
  group starts at the topic's end until it has committed once. It owes that no
  delivery is left behind, that dead letters are earned, that calls to the
  merchant are bounded, that no completed job hides an open delivery, that
  delivered stays delivered, that deliveries end.
* **Auth.** A validation in flight can put a key back into the cache that a
  revocation has just deleted, and the delete itself may fail or die with the
  process. It owes bounded staleness: a revoked or an expired key is accepted
  only for a stated number of seconds more.
* **Gateway.** A counting window per client, in a map pruned when large; scopes
  that come from the key through a normal form and a cache; a signature on every
  call, made by one clock and judged by another in a second language; routers
  that want a slash where the API has none; a path that is judged as written and
  served as the URL parser resolves it. It owes a limit over every window,
  wherever it begins, routes that open to exactly the keys created for them, and
  calls that are not turned away while it waits for them.

## Modules and the code they model

### `Payment.tla`: `CreatePayment`, publication and recovery

State: `stage`, `phase`, `left`, `seen`, `outcome`, `reply` are the locals of
each HTTP call; `row` and `published` are the payments table, `idem` the
idem_keys table; `cache` and `locks` are Redis; `bank` is what the bank really
did; `log` is the topic; `batch` and `marking` are the recovery goroutine's
locals. A request is one HTTP call and names the payment it would create; a
client's retry is another request with the same key.

| actions | code |
| --- | --- |
| `CacheHit`, `CacheMiss`, `RecordFound`, `RecordMissing`, `RecordError`, `FillCache` | `getIdempotencyResult`, from its three call sites (`phase`) |
| `LockAcquired`, `LockRefused`, `LockExpires` | `SetNx` and its ten-second TTL; an error counts as a refusal, even when Redis had set the lock |
| `Continue`, `PollCancelled` | `pollForResults`: limit, error and cancellation |
| `InsertPayment`, `InsertIdem` | the two inserts and their unique constraints |
| `AuthorizePayment` | the bank client and the three ways `CreatePayment` takes its answer |
| `SavePayment`, `StoreIdem`, `StoreCache` | `paymentRepo.Update` (gorm `Save`), `storeIdempotencyResult` |
| `Publish`, `Mark` | `PublishEvent` called by the request |
| `RecoveryScan`, `RecoveryPublishes`, `RecoveryPublishFails`, `RecoveryMark` | `runRecovery` |
| `Crash` | death and restart of the process: requests and the batch are lost, the stores stay |

Each action is one call to a store, the bank or Kafka with the code up to the
next such call; anything may run in between. `Faults` names what may go wrong in
an instance: `db` (a write fails, or commits and reports an error), `redis` (a
call fails), `expiry` (a cached response goes), `bank` (the call times out or
errs, whatever the bank did), `cancel` (a polling client leaves), `kafka` (a
write fails), `ack` (the broker keeps a message the writer thinks failed, and
the writer's own retries leave copies of it). When the gateway gives a request
up, Go cancels its context, which makes the bank call, Redis and Kafka calls fail
at any moment and ends a poll, while the database calls, which do not take the
context, go on: the faults `bank`, `redis`, `kafka` and `cancel` without `db`.
`PaymentProgress` checks under these that the payment is decided all the same
and that the client's next call is shown it. The bank mock is the set of answers
`BankCall` allows.

### `PaymentPromise.tla`, `PaymentRefinement.tla`: what the service promises

The abstract specification sees one payment, one question to the bank and a set
of announced event types per key, four actions in all. The refinement maps a
key's payment to the row of the request that created it, its bank record to the
request that asked, its announcements to the types in the topic.

### `Ledger.tla`: consumer and postings

`log`, `committed`, `next` are the topic, the group's offset and the reader's
own position; `step` and `job` are where the consumer and each HTTP handler
stand; `debits`, `credits` count journal entries per event, `pending` is the
balance row, `processed` the processed_events table. `Fetch`, `Commit`,
`HttpPost`, `Check` (the look at `processed_events`) and `Post` (the
transaction) are one call each; `Restart` returns the reader to the committed
offset. The transaction is one step because nothing in it is visible before its
commit and its insert of the event id waits for a rival's. `VerifyBalance` and the
two queries it compares are operators on these variables; `Journal` is the set of a
merchant's journal rows, `SumOver` (`Sums.tla`) SQL's `SUM` over them. `DbFaults` names the
workers whose database calls may fail (or commit and report an error);
`CommitFaults` says whether committing an offset may fail, after which the loop
goes on.

### `LedgerPromise.tla`, `LedgerRefinement.tla`: what the ledger promises

The abstract specification has one action: a valid event not booked yet is
booked and its amount added to the merchant's balance. The refinement takes the
events with a journal entry for the booked ones, so that a transaction that
wrote one of its four tables without the others would be no step of it.

### `Pipeline.tla`: payment and ledger joined

EXTENDS `Payment` and instantiates `Ledger` on the topic the first writes, as
the second decodes it (`KindOf`, `Decoded`). A step is a step of one service;
both crash on their own. `CallerMoves` is the ledger's endpoint
`POST /transactions/payment-succeeded`, which the gateway opens to keys with
`ledger:write`: `Posted` is what may arrive there, an event of the topic posted
by hand or one of `CallerEvents`, composed by a caller. The ledger books the
latter without the bank or the topic, so nothing here claims that all booked
money was approved: `BookedMoneyWasApproved` is about every event but those. An
event id is a UUID, so a caller's own event has an id no producer draws and that
names one event (`PipelineAssumption`); a caller that puts other data under an
id it has seen announced is left out.

### `PipelinePromise.tla`, `PipelineRefinement.tla`: what the two promise together

Money follows the bank: a payment is approved, then completed, then announced
under an id of its own, then booked, and each announcement moves the balance by
one. Beside that chain, `Accept` takes a caller's own event at its word, once. The
refinement reads the first two off the bank and the payments table, the
announcements off the topic's `payment.succeeded` messages (copies of one message
are one), bookings and accepted events off the ledger. How often a payment is
announced is not promised, because it is not kept (`PipelineDuplicate`).

### `Webhook.tla`: consumer, deliveries, endpoints

`endpoint`, `row`, `letters` are Postgres; `jobs` is BullMQ's record of each
job (the delivery's own and those of manual retries), with attempts made and
stalls; `worker`, `doing` are the worker's position, `todo` the dispatch's
position for each endpoint; `posts` counts calls that reached the merchant.

| actions | code |
| --- | --- |
| `Register`, `Update`, `Remove` | `EndpointsService`, as far as deliveries depend on it; the foreign key keeps endpoints that have deliveries |
| `SkipMessage` | the early returns of `handleMessage` and `dispatch`: no value, bad signature, bad JSON, no merchant |
| `Dispatch`, `CreateDelivery`, `AddJob`, `Settle`, `CommitOffset` | `handleMessage`, `dispatch` with `Promise.allSettled`, `enqueue` (upsert, then `queue.add`), KafkaJS resolving and committing offsets |
| `Take`, `Load`, `MarkInactive`, `PostToMerchant`, `MarkDelivered`, `MarkFailed`, `MarkDeadWithLetter` | `DeliveryProcessor.process`, with what its `try` covers |
| `Complete`, `FailAttempt`, `Stalled` | BullMQ settling an attempt and finding a job whose worker died (external) |
| `RetryDelivery` | `POST /deliveries/:id/retry`, for any state |
| `Rejoin` | KafkaJS leaves the group between two messages and joins it again |
| `Crash` | the one Node process dies: the job stays active in Redis |

Both of the last go through `Resume`: the consumer continues at the committed
offset, and a group that has never committed one at the end of the topic
(`fromBeginning: false`); `start` remembers where, and `PassedOver` names the
events this skips, the only ones `NothingLeftBehind` excuses; `EveryDeliveryEnds`
also excuses what BullMQ gave up for stalling once too often (`StalledOut`).

### `WebhookPromise.tla`, `WebhookRefinement.tla`: what a delivery may go through

A delivery is on record before the merchant is called, delivered only after a
call has reached the merchant, dead only together with a dead letter, which is
never withdrawn; a further attempt may open it again. "pending" and "failed" rows
are both open. The calls of all jobs of a delivery, its own and those of manual
retries, count as its calls.

### `AuthKeys.tla`: keys, validation, revocation

`row` and `revoked` are Postgres (api_keys, and revoked_keys with the time of
the revocation); `cached` is when the Redis entry of each key ends; `stage`,
`carries`, `began`, `verdict` are the calls of `POST /internal/validate`;
`duty`, `target` are the calls of `POST /keys/:id/revoke`. `clock` counts
seconds, because the property is about seconds: an entry lives at most
`CacheTTL`, a call at most `Patience`, the gateway's timeout, which cancels the
context of everything the call does.

| actions | code |
| --- | --- |
| `CreateKey` | `CreateMerchant`: scopes parsed up to the first "full", merchant and key in one transaction |
| `Validate`, `CacheHit`, `CacheMiss`, `CheckRevoked`, `LoadKey`, `FillCache` | `ValidateKey`: cache, revoked_keys, `GetByHash`, the lifetime from `keyValidationCacheTTL`, the cache write whose error is ignored |
| `FindByID`, `RevokeKey`, `DeleteCached` | `RevokeKey`: lookup, the transaction of two writes, the cache delete whose error is ignored |
| `HangUp`, `Crash` | the caller's timeout; death and restart of the process |
| `Begin`, `End`, `CallersDie` | the callers, whoever they are |

### `InternalAuth.tla`: signatures between services

No state: what is signed (`CanonicalInternalRequest`, `SignInternalRequest`),
and the two verifiers, which are separate programs. The webhook service's guard
(`CanActivate`) admits a timestamp exactly `MaxClockSkew` away and hashes what
Express parsed; the Go middleware (`RequireInternalAuth`, the same file in three
services) excludes both ends and hashes the bytes. A hash stands for its input.

### `Gateway.tla`: rate limit, authentication, forwarding

EXTENDS `AuthKeys` and takes the place of its callers: a request is a call. It
EXTENDS `InternalAuth` for its own calls; `Ahead` is how far each service's clock
is ahead of the gateway's.
`buckets` is the limiter's map; `route`, `phase` and `sentAt` are each request;
`passes` is history, what the limiter let through since the last restart, and
is read by the property only.

| actions | code |
| --- | --- |
| `Request` | `RateLimitGuard.canActivate` (`WithCurrent`, `Prune`) and `AuthGuard` up to its HTTP call, which run without an await between them |
| `Authorize` | `AuthGuard` from the answer on: `RequiredScopes`, `HasAnyScope`, the refusals |
| `Forward` | `ProxyController` completes the path (`Target`), `ProxyService` parses the URL (`Served`), signs and sends |
| `Answered` | the proxied service answers, or the proxy gives up |
| `Restart` | the process dies: its map and its calls are gone |

`ProxyService.withQuery` sends `new URL(targetUrl).toString()`, in which dot
segments are resolved. A request therefore has a path as it is written, which
`AuthGuard` and the router look at, and one it is served under (`Served`), which
is signed and sent. `CallsAreHeard` covers both kinds; `RoutesFollowTheKey` is
about requests for which the two agree, because for the others the code judges
the scopes of the path as written.

### What is abstracted

* A key is the pair (merchant, idempotency key). The Redis key is built from the
  first twelve hex digits of the key's hash, the unique index from the whole
  key; the model takes the hash for injective.
* Amounts, currencies, card data, names and trace headers: a payment
  is its id and status, an event its id and kind. Messages with a bad signature
  or body are kinds of their own in the ledger, which skips or fails on them, and
  one message, `Unusable`, in the webhook service, which skips them.
* In the signature: the secret, the query string and the request and merchant
  ids, which signer and verifier take from the same headers.
* Time, outside auth and gateway: a lock or cached response may expire at any
  moment, the ticker and a retry's backoff fire at any moment, deadlines are the `bank`, `cancel` and
  fault outcomes. This allows every order the clock allows and more.
* One instance of each service, as `docker-compose.prod.yml` runs them, and one
  partition of the topic. One merchant in the webhook service, where every query
  is scoped to one.
* In auth: `last_used_at`, which nothing reads; a key stands for its merchant; a
  Redis write is not in flight any more once the caller has hung up, as Go
  cancels its context. The scope text arrives split into its items.
* In the ledger an event id stands for one event with one amount. The consumer
  and its producer keep to that; a caller of the HTTP endpoint picks both, and is
  taken to draw a new id for each event.
* BullMQ's own calls that settle an attempt (`Complete`, `FailAttempt`) do not
  fail on Redis; a process that dies before one of them is a `Crash`.
* In the gateway: a client is the whole Authorization header, as in `bucketKey`,
  so two spellings of one key would be two clients with a limit each; clients
  without a key share one address; dot segments lead to one of the paths in
  `Paths`; `/health` and
  `/metrics` skip both guards; what the service behind does is one step, because
  every outcome ends the request the same way.
* An endpoint's URL and secret: a refused URL is one of the failures of
  `PostToMerchant`, a secret that cannot be decrypted a query that fails. The
  secret never changes, only the form it is stored in.
* BullMQ, KafkaJS, kafka-go, Redis and Postgres appear as the calls the code
  makes of them. What is taken from them and not from this repository is marked
  external in the map.

## The runs

| run | question | bounds | states | expected |
| --- | --- | --- | --- | --- |
| `PaymentFaults` | Do three calls with one key, every fault and a crash keep the safety properties (one bank call, on record before it is made, honest answers, a truthful topic and final records that stay final among them), the inductive invariant of the proofs and the abstract promise? | 3 calls, 1 key, 2 lookups in the poll, 2 copies, 2 events, 1 crash | 1.4 million | pass |
| `PaymentProgress` | Is every call answered, every payment decided, a repeated call shown it, every outcome announced, and the fair promise kept, although callers hang up and Redis, Kafka and the bank fail? | 2 calls, 1 key, 2 lookups, 5 events, 1 crash | 47 000 | pass |
| `PaymentReplay` | Can the cached response go back to "processing"? | 2 calls, no fault at all | | violation |
| `PaymentBankAnswer` | Does what the bank answered reach the row? | 2 calls, 1 crash, no other fault | | violation |
| `LedgerFaults` | Is each event posted once, is the balance the journal's, do offsets trail the books, is every valid event posted and `LedgerPromise` kept, under races with HTTP posts that roll back or lose their commit, failing offset commits and restarts? | 4 events (2 valid, 1 invalid, 1 skipped), 3 messages, 2 HTTP handlers with database faults, 2 posts, 2 restarts | 641 000 | pass |
| `LedgerLostEvent` | And with one database fault in the consumer? | 3 messages | | violation |
| `PipelineProgress` | Is only approved money booked, a caller's own event apart, and every completed payment; is a payment marked published never lost between the services; is `PipelinePromise` kept? | 1 payment, 2 copies, 3 events, a crash of each service, 1 HTTP handler with 1 post of a caller's or an announced event | 580 000 | pass |
| `PipelineDuplicate` | Is it booked once? | 1 payment, no fault, the recovery tick between publish and mark | | violation |
| `WebhookFaults` | Under all faults, is no delivery left behind (a part of `Consistent`), are letters earned, calls bounded and completed jobs decided, and are the inductive invariant and `WebhookPromise` kept? | 1 endpoint, 2 attempts, 2 messages, 1 manual retry, 1 update, 2 crashes or rejoins | 5.8 million | pass |
| `WebhookProgress` | Does every delivery end, and delivered stay delivered, and does no job fail? | 2 endpoints, 2 attempts, 1 message, 2 crashes or rejoins | 74 000 | pass |
| `WebhookExhausted` | Has every exhausted job left a dead letter? | 1 endpoint, 2 attempts | | violation |
| `GatewayAccess` | Does a revoked or expired key die in time, does the limit hold over every window, do routes open to the right keys, are signed calls heard? | 1 key, 2 calls, 1 revocation, 3 key forms, 3 routes, 3 seconds, 3 arrivals, 1 crash, 1 restart; limit 1 in a window of 2, pruning at 2 buckets; skew 3, one clock 1 ahead, one 2 behind | 4.4 million | pass |

Why the bounds are enough. Three calls with one key are a lock holder, one that
overtakes it and one that polls or replays; calls with different keys meet only
in the recovery batch, which the proofs cover for any set of requests. Two
lookups in the poll give one that repeats and the last one, which are the two
cases of the loop. Two copies or events are the least that can disagree. Two
attempts give one that is not the last and one that is. Two crashes are one more
than the stall limit of one: after the second BullMQ fails a job that was active
both times, and its delivery stays open, which `EveryDeliveryEnds` names
(`StalledOut`) and excuses. `WebhookProgress` pays for the second crash with a
topic of one message; that message comes again whenever an enqueue failed or a
commit was missed, and what a second message adds, unusable or repeated, is in
`WebhookFaults` and, for `NothingLeftBehind` and the rest of the safety
properties, in the proofs. A message repeated in the topic is the same event id
twice.
Three seconds are `Patience + CacheTTL`: a call that begins with the revocation
can refill the cache at its last moment and the entry be used up to its last.
A limit of one lets a second passage in a window show; a larger one, where a
bucket that is full and one that is not differ, is covered by the proof, which
takes any limit, window and threshold. Two buckets are the key's and that of the
client without one, so pruning happens. With a skew of three and a patience of
one, a clock one second ahead and one two seconds behind are the extremes
`GatewayAssumption` allows.
The liveness runs would fail, not pass, if their event bound were ever reached:
a full topic disables publication for good.

The `GatewayAccess` run uses the symmetry of calls; it checks no liveness.

No cfg checks for deadlock: a service with no call, message or tick to serve
stands still, and the bounded environment ends there.

Every property of a passing run has a mutant in `PROJECT.json`: a variant of
one definition, named *Variant* in its comment, under which TLC finds that
property violated. No variant is part of any specification.

### Fairness

* Payment: weak fairness of each request's goroutine and of the recovery
  goroutine, which Go schedules and whose ticker never stops; strong fairness of
  a successful publication for each payment the job keeps trying, that is, Kafka
  may fail any finite number of times in a row. Clients owe nothing, and no
  crash, expiry or failure is promised.
* Ledger: weak fairness of the consumer's goroutine. Nobody need post or
  produce.
* Pipeline: both of these.
* Webhook: weak fairness of the consumer, the worker and BullMQ's stalled check;
  strong fairness of each waiting job being taken, since BullMQ serves its
  waiting list in order, and of a `queue.add` tried for ever succeeding once.

## Disagreements

| run | what the code does | what the documents say |
| --- | --- | --- |
| `PaymentReplay` | `getIdempotencyResult` reads the record and writes it to Redis later; if the lock's holder stores its final response in between, the cache returns to "processing" for the rest of its 24 hours | `README.md`: "Durable response replay via stored idempotency records" |
| `PaymentBankAnswer` | after a crash between the bank call and `paymentRepo.Update` nothing finishes the payment: the recovery scan reads final rows only and retries replay "processing" | `README.md`: "The bank response marks the payment as `completed` or `failed`" |
| `LedgerLostEvent` | after a handler error the loop fetches on, and the next commit covers the failed offset | `kafka.go`: "we commit after successful processing" |
| `PipelineDuplicate` | each publication draws a new event id, so a payment published by its request and by the recovery job is booked twice | `README.md`: "Processed-event tracking to prevent duplicate ledger mutations" |
| `WebhookExhausted` | when the last attempt throws in the loads, before the `try`, or in `markDeadWithLetter`, the job is spent without a dead letter, and its id then blocks a new one | `README.md`: "eventually dead-lettered if exhausted" |

Met while modelling and not a run: `VerifyBalance` compares `available`, which
nothing changes, and not `pending`, which every posting does, so it answers
"balanced" whatever is stored (`README.md` promises to "compare derived and
stored states"; `PendingMatchesJournal` makes the comparison); a retry of a
declined call replays 201 with a failed payment where the first call got 400;
the webhook worker does not look at a delivery's status, so a job waiting in its
backoff posts again after a manual retry has delivered (`CallsAreBounded` counts
those calls).

## The proofs

The modules whose name ends in `Proofs` are checked by TLAPS for all values of
the constants that satisfy the named assumptions in `Payment.tla`
(`RequestsAssumption`, `BoundsAssumption`, `NoSnapshotAssumption`), `Ledger.tla`
(`LedgerEventsAssumption`, `LedgerDataAssumption`, `LedgerBoundsAssumption`),
`Pipeline.tla` (`PipelineAssumption`),
`Webhook.tla` (`WebhookAssumption`), `AuthKeys.tla` (`AuthAssumption`),
`InternalAuth.tla` (`InternalAuthAssumption`) and `Gateway.tla`
(`GatewayAssumption`, which says among others that no clock differs by more than
the skew less the gateway's timeout).

**Payment.** `PaymentTypes` proves `TypeOK`. None of the safety properties is
inductive: that the loser of a race does not ask the bank depends on where every
request stands, and what a replay shows on what was stored before. The
strengthening is `Consistent`, in four parts:

* `Positions`: what a request's position says of the tables: between its insert
  and its save it owns a "processing" row; after `storeIdem` the record is its
  result; only a completed payment is published.
* `Rows`: one row per key; only a row's owner has asked the bank; a completed
  row was approved.
* `Snapshots`: whatever a record, the cache, a lookup in flight or an answer
  holds is of the key's own payment, and if it is final it is the row's status
  and the durable record.
* `Announcements`: what is in the topic, in the recovery batch or being marked
  repeats the row of a decided payment; what is marked is in the topic.

Each part is needed by another: a replay copies a `Snapshots` fact, which only
`StoreIdem` creates, from a `Positions` fact, which only `Rows` lets survive the
other requests of the key. The proof has one lemma per group of actions
(`LookupKeeps`, `LockKeeps`, `ExpiryKeeps`, one per creating action,
`RecoveryKeeps`, `CrashKeeps`), joined in `ConsistentStep` and
`PaymentConsistent`. From it follow `BankAskedOnce`, `SamePaymentShown`,
`AnswersTrailStores`, `TopicIsTruthful` and the action property `DecisionsStand`.
The last contains what does hold of the "durable response replay" that
`PaymentReplay` refutes for the cache: the record in Postgres, once final, is never
changed, because only the request past its insert writes it, and writes what it
concluded. `BankCallsRecorded` and `AnswersHonest` rest on two invariants of
their own, each about what a position says of the stores: a request past
`insertIdem` owns its key's record, and what a record, a cached copy or an
answer says of a decision the bank said before it.

**The payment promise.** `ServiceKeepsPromise` (`RefinementProofs`) proves the
safety part of the refinement, `Spec => KeepsPromise`. Under the mapping each
action changes at most one of the abstract variables: `InsertPayment` opens,
`AuthorizePayment` and `SavePayment` decide, a publication announces, and every
other action is a stutter; that a second request of the key cannot open or ask
again is `Rows` and `Positions` of the inductive invariant. `KeepsPromiseInTime`
adds fairness and stays with TLC.

**The pipeline.** `PipelineProofs` joins the two inductive invariants: the
ledger's steps leave the payment service's variables alone, the payment
service's steps only append to the topic the ledger reads.
`OnlyApprovedMoneyBooked` then follows from the truthful topic and from `Known`:
what the ledger's workers have in hand, and so what they post, is a message of the
topic or an event a caller composed, and their ids differ. `BalanceIsTheCount`,
that the balance is the number of events booked, follows from the ledger's books
alone. `MarkedReachTheBooks` needs a third invariant, `Reader`: all that the
consumer has fetched is in the books, except the message in its hand, which is
not committed. What is marked
published is in the topic, and what is in the topic is then booked or above the
committed offset. `PipelineKeepsPromise` is the refinement of `PipelinePromise`,
and contains the order of the whole chain. Its invariant `Numbered` says that
two messages with one id are copies of each other and that the next id is fresh:
so a publication announces something new, and a posting books exactly one
announcement. In this composition the ledger's database does not fail; with such
faults `LedgerLostEvent` refutes what `MarkedReachTheBooks` says.

**Ledger.** `LedgerTypes` proves `TypeOK` with `Busy` (a worker that checks or
posts has an event in hand). `BooksPostOnce` proves `PostedExactlyOnce` for any
number of handlers. `OffsetsTrailBooks` proves `CommittedIsPosted` when the
consumer's own database calls do not fail (`Consumer \notin DbFaults`), from
`Offsets`: all below the reader's position is in the books, except the message
in the consumer's hand. With them it is false, as `LedgerLostEvent` shows.
`BalanceIsTheJournal` proves `PendingMatchesJournal` for any events, amounts and
merchants. Its invariant, `Tallied`, says that each merchant's balance is the
sum of the amounts of the merchant's processed events; `Known`, that what a
worker posts is one of the valid events, so that an id stands for one amount.
The sum is a fold of the community modules, over which no induction theorem can
be applied here, as those take an operator. `SumProofs` does its inductions with
sets instead: the least number in the complement of a set contradicts the set's
being closed under successors (`NaturalsReached`), and likewise for finite sets
(`FiniteSetReached`). From this, the fold over a finite set has one table of
partial sums, and a sum over a set with one element more is the old sum and that
element (`SumWithElement`), whichever element the fold takes first.
`LedgerKeepsPromise` is the refinement of `LedgerPromise`: by
`PostedExactlyOnce` what is in the journal is what is processed, by `Known` it
is valid, so a posting is a `Book` and everything else a stutter.

**Webhook.** None of the safety properties is inductive here either: how often a
merchant was called depends on where the worker stands, what is left behind on
the dispatch under way. `Consistent` has six parts: `JobRecords` (each call to
the merchant is paid for by an attempt made, a stall or the attempt under way),
`Hand` (what the worker's next call says of its job), `Rows` (a tried row has a
job, dead rows have letters, completed jobs have decided), `Dispatching` (what
each endpoint's half of the dispatch has done), `NothingLeftBehind` itself, and
`Undamaged`, which says what holds until the first crash, failed write or manual
retry and carries `DeliveredStaysDelivered`. One lemma per action or group of
actions; `WebhookConsistent` joins them. `LastAttemptsComplete` delimits the
disagreement `WebhookExhausted`: while no database call fails and the process
has not died twice, no job fails at all, whatever the merchant answers and
however often Redis refuses a job. Its
invariant, `Spent`, counts: a job stalls at most once per crash, a job without a
worker (`Stray`) once less, and the worker hands an attempt back only if it is
not the last. `ServiceKeepsPromise` is the refinement of `WebhookPromise`;
`Reached` says that the worker is about to mark delivered only after its call
counted, and `Consistent` gives the rest.

**Auth.** `AuthTypes` proves `TypeOK` with `Bound` (a call in flight carries a
key and began in the past). The bounds on stale keys are about the moment of an
acceptance; the inductive invariant, `Staleness` (`CacheIsShortLived`), is about
what has been read so far. A call past the look at revoked_keys began no later
than the revocation (`ReadInTime`), so its cache write comes within `Patience`
of it and the entry ends within `CacheTTL` more; likewise for the key's end and
the shortest lifetime. `RevokedKeysDie` and `ExpiredKeysDie` follow for the two
ways to be accepted, from the cache and from the tables.

**Gateway.** `GatewayIsACaller` proves `GatewaySpec => Spec`: whatever the
gateway does is what `AuthKeys` lets its callers do, so `RevokedKeysStayOut` and
`ExpiredKeysStayOut` are the component's theorems carried over. `LimitHolds`
proves `RateLimited`. Its invariant, `Windows`, says of each client that the
passages of one bucket are numbered in order and those of a later bucket begin
a whole window after the earlier bucket did (`Spaced`), and that the live bucket
is remembered with its last passage's number (`Remembered`); pruning must not
break the second. Any `2 * MaxRequests` passages in a row then either reach
into a third bucket or fill two, the first of which begins at the first passage.
`RoutesOpenToTheirKeys` proves `RoutesFollowTheKey`, for the routes that property
is about, from one lemma on the normal form of a key's scopes and one on what each
route requires. `CallsAreAdmitted`
proves `CallsAreHeard`: a call was signed in the past and at most `Patience` ago
(`Phases`), so every clock the assumption allows finds its timestamp fresh by
either comparison, and the verifier computes what was signed.

Only model-checked: liveness (`EveryRequestEnds`, `EveryPaymentDecided`,
`RepeatedCallIsShown`, `EveryOutcomeAnnounced`, `KeepsPromiseInTime`,
`EveryEventPosted`, `EveryCompletedPaymentBooked`, `EveryDeliveryEnds`), which the
prover does not handle. Every invariant and every action property of a passing
run, and the safety part of each refinement, is a theorem. `OneBankCallPerKey`
and `BalanceCountsEvents` are theorems no run repeats: the first follows from
`BankCallsAreRecorded`, the second from `BookedMoneyWasApproved` and
`PipelinePromise`, which runs check.

## Not modelled

* URL checks and secret encryption (`security/url-safety.ts`,
  `security/secret-crypto.ts`): pure functions over addresses and bytes.
* Logging, metrics, tracing, configuration and HTTP helpers of the five services:
  they change nothing the properties see.
* Reads (`GetPayment`, `ListPayments`, listings of endpoints, deliveries and dead
  letters): they change no state.
* Generated and auxiliary code: the Prisma client under
  `webhook/src/generated` (nine files, more lines than all hand-written
  TypeScript and JavaScript together), the k6 load tests, infrastructure.

Hazards without a property, with the reason, are in `PROJECT.json`: the
time-to-live of a record past its expiry, a secret that cannot be decrypted, and
two that depend on a library's default: `POST /v1/auth/keys` as `README.md`
writes it, without the slash its route is registered with, is sent on as it is
and comes back as a redirection; and a POST without a body to the webhook
service, such as a manual retry, arrives there as `{}`, which is not what was
signed. `CallsAreHeard` leaves these two out and says so. Two are covered in part: a path
with dot segments, whose scopes `RoutesFollowTheKey` does not speak of when they
lead elsewhere, and the ledger's HTTP endpoint, which books what its caller says.

## What could come next

* The webhook service as a second consumer in `Pipeline`, where republication
  makes two deliveries of one payment.
* Clock-valued lifetimes of the lock and the idempotency record.
