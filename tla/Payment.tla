------------------------------- MODULE Payment -------------------------------
(***************************************************************************)
(* The payment service: POST /payments (CreatePayment), the idempotency    *)
(* lookup, lock and replay it is built on, the Kafka publication of the     *)
(* outcome and the recovery job that republishes what was missed.           *)
(*                                                                         *)
(* A request is one HTTP call; a client's retry is another request with    *)
(* the same key.  A payment's id is the request that creates it (the code   *)
(* draws a fresh ULID per call).  A key stands for the pair (merchant,     *)
(* idempotency key).  Each action is one call to Redis, Postgres, the bank *)
(* or Kafka with the code up to the next such call; between two of them    *)
(* any other request, the recovery job, an expiry or a crash may run.      *)
(***************************************************************************)
EXTENDS Naturals, Sequences, FiniteSets

CONSTANTS
    Requests,       \* the HTTP calls, each the id of the payment it would create
    Keys,           \* (merchant, idempotency key) pairs
    KeyOf,          \* the key each request carries
    NoSnapshot,     \* "no stored response"
    PollLookups,    \* lookups made by pollForResults (6 in the code)
    WriterAttempts, \* copies of one message that Kafka writer retries may leave
    Faults,         \* what may go wrong in this instance
    MaxEvents,      \* bound on the length of the topic
    MaxCrashes      \* bound on process crashes

FaultNames == {"db", "redis", "expiry", "bank", "cancel", "kafka", "ack"}

ASSUME RequestsAssumption == KeyOf \in [Requests -> Keys]
ASSUME BoundsAssumption ==
    /\ PollLookups \in Nat \ {0}
    /\ WriterAttempts \in Nat \ {0}
    /\ MaxEvents \in Nat
    /\ MaxCrashes \in Nat
    /\ Faults \subseteq FaultNames

Final == {"completed", "failed"}
Snapshot == [pay: Requests, status: Final \union {"processing"}]

ASSUME NoSnapshotAssumption == NoSnapshot \notin Snapshot

MaybeSnapshot == Snapshot \union {NoSnapshot}
BankRecord == {"unasked", "unreached", "approved", "declined"}
Message == [id: Nat, pay: Requests, status: Final \union {"processing"}]
Outcome == {"undecided", "completed", "declined", "unavailable"}
Lookup == {"cache", "db", "fill"}
Creating == {"insert", "insertIdem", "bank", "save", "storeIdem", "storeCache",
             "publish", "mark"}
Stage == {"idle", "setnx", "done", "dead"} \union Lookup \union Creating
ReplyKind == {"none", "created", "declined", "unavailable", "conflict", "error"}

VARIABLES
    stage,      \* the next call of each request
    phase,      \* which lookup the request is in: "first", "locked" or "poll"
    left,       \* lookups that remain to a polling request
    seen,       \* the record a lookup read from the database, not yet cached
    outcome,    \* the in-memory payment: what the bank call decided
    reply,      \* the response of each request
    row,        \* Postgres: status of each payment row, or "absent"
    published,  \* Postgres: payments with event_published = true
    idem,       \* Postgres: the idem_keys record of each key
    cache,      \* Redis: the cached response of each key
    locks,      \* Redis: the keys whose lock is set
    bank,       \* what the bank did for each payment
    log,        \* Kafka: the payments topic
    nextEvent,  \* the next fresh event id
    batch,      \* recovery job: payments read by the scan, still to publish
    marking,    \* recovery job: the payment published, still to mark
    crashes     \* crashes so far

local == <<phase, left, seen, outcome>>
postgres == <<row, published, idem>>
redis == <<cache, locks>>
kafka == <<log, nextEvent>>
recovery == <<batch, marking>>
vars == <<stage, local, reply, postgres, redis, bank, kafka, recovery, crashes>>

TypeOK ==
    /\ stage \in [Requests -> Stage]
    /\ phase \in [Requests -> {"first", "locked", "poll"}]
    /\ left \in [Requests -> 0..PollLookups]
    /\ seen \in [Requests -> MaybeSnapshot]
    /\ outcome \in [Requests -> Outcome]
    /\ reply \in [Requests -> [kind: ReplyKind, snap: MaybeSnapshot]]
    /\ row \in [Requests -> {"absent", "processing"} \union Final]
    /\ published \subseteq Requests
    /\ idem \in [Keys -> MaybeSnapshot]
    /\ cache \in [Keys -> MaybeSnapshot]
    /\ locks \subseteq Keys
    /\ bank \in [Requests -> BankRecord]
    /\ log \in Seq(Message)
    /\ nextEvent \in Nat
    /\ batch \subseteq Snapshot
    /\ marking \in MaybeSnapshot
    /\ crashes \in Nat

Init ==
    /\ stage = [r \in Requests |-> "idle"]
    /\ phase = [r \in Requests |-> "first"]
    /\ left = [r \in Requests |-> 0]
    /\ seen = [r \in Requests |-> NoSnapshot]
    /\ outcome = [r \in Requests |-> "undecided"]
    /\ reply = [r \in Requests |-> [kind |-> "none", snap |-> NoSnapshot]]
    /\ row = [r \in Requests |-> "absent"]
    /\ published = {}
    /\ idem = [k \in Keys |-> NoSnapshot]
    /\ cache = [k \in Keys |-> NoSnapshot]
    /\ locks = {}
    /\ bank = [r \in Requests |-> "unasked"]
    /\ log = <<>>
    /\ nextEvent = 0
    /\ batch = {}
    /\ marking = NoSnapshot
    /\ crashes = 0

-----------------------------------------------------------------------------
(* Transitions of a request. *)

At(r, s) == stage[r] = s

Goto(r, s) ==
    /\ stage' = [stage EXCEPT ![r] = s]
    /\ UNCHANGED reply

Respond(r, kind, snap) ==
    /\ stage' = [stage EXCEPT ![r] = "done"]
    /\ reply' = [reply EXCEPT ![r] = [kind |-> kind, snap |-> snap]]

StatusOf(o) == IF o = "completed" THEN "completed" ELSE "failed"

\* The serialised payment of request r once the bank call has decided it.
Result(r) == [pay |-> r, status |-> StatusOf(outcome[r])]

\* What the handler answers once a decided payment has been stored.
Answer(r) ==
    CASE outcome[r] = "completed" -> Respond(r, "created", Result(r))
      [] outcome[r] = "declined" -> Respond(r, "declined", NoSnapshot)
      [] OTHER -> Respond(r, "unavailable", NoSnapshot)

\* A client sends the request.
Arrive(r) ==
    /\ At(r, "idle")
    /\ Goto(r, "cache")
    /\ UNCHANGED <<local, postgres, redis, bank, kafka, recovery, crashes>>

-----------------------------------------------------------------------------
(* getIdempotencyResult, from its three call sites. *)

CacheHit(r) ==
    /\ At(r, "cache")
    /\ cache[KeyOf[r]] # NoSnapshot
    /\ Respond(r, "created", cache[KeyOf[r]])
    /\ UNCHANGED <<local, postgres, redis, bank, kafka, recovery, crashes>>

\* Nothing cached, or Redis failed: either way the database is asked.
CacheMiss(r) ==
    /\ At(r, "cache")
    /\ cache[KeyOf[r]] = NoSnapshot \/ "redis" \in Faults
    /\ Goto(r, "db")
    /\ UNCHANGED <<local, postgres, redis, bank, kafka, recovery, crashes>>

RecordFound(r) ==
    /\ At(r, "db")
    /\ idem[KeyOf[r]] # NoSnapshot
    /\ seen' = [seen EXCEPT ![r] = idem[KeyOf[r]]]
    /\ Goto(r, "fill")
    /\ UNCHANGED <<phase, left, outcome, postgres, redis, bank, kafka, recovery,
                   crashes>>

\* Variant: the poll loop without its limit.
ContinueUnbounded(r) ==
    \/ phase[r] = "first" /\ Goto(r, "setnx") /\ UNCHANGED left
    \/ phase[r] = "locked" /\ Goto(r, "insert") /\ UNCHANGED left
    \/ phase[r] = "poll" /\ Goto(r, "cache") /\ left' = [left EXCEPT ![r] = @ - 1]

\* Variant: a poll loop that waits for the lock's holder for as long as it takes.
ContinueUncounted(r) ==
    \/ phase[r] = "first" /\ Goto(r, "setnx") /\ UNCHANGED left
    \/ phase[r] = "locked" /\ Goto(r, "insert") /\ UNCHANGED left
    \/ phase[r] = "poll" /\ Goto(r, "cache") /\ UNCHANGED left

\* What a lookup without an answer leads to: take the lock, create the payment,
\* look again after the next delay, or give up.
Continue(r) ==
    \/ /\ phase[r] = "first"
       /\ Goto(r, "setnx")
       /\ UNCHANGED left
    \/ /\ phase[r] = "locked"
       /\ Goto(r, "insert")
       /\ UNCHANGED left
    \/ /\ phase[r] = "poll"
       /\ left[r] > 1
       /\ left' = [left EXCEPT ![r] = @ - 1]
       /\ Goto(r, "cache")
    \/ /\ phase[r] = "poll"
       /\ left[r] <= 1
       /\ Respond(r, "conflict", NoSnapshot)
       /\ UNCHANGED left

RecordMissing(r) ==
    /\ At(r, "db")
    /\ idem[KeyOf[r]] = NoSnapshot
    /\ Continue(r)
    /\ UNCHANGED <<phase, seen, outcome, postgres, redis, bank, kafka, recovery,
                   crashes>>

\* A failed query ends the request, except in the poll loop, which ignores it.
RecordError(r) ==
    /\ At(r, "db")
    /\ "db" \in Faults
    /\ \/ phase[r] # "poll" /\ Respond(r, "error", NoSnapshot) /\ UNCHANGED left
       \/ phase[r] = "poll" /\ Continue(r)
    /\ UNCHANGED <<phase, seen, outcome, postgres, redis, bank, kafka, recovery,
                   crashes>>

\* Variant: a failed write of the cache fails the request.
FillCacheReporting(r) ==
    /\ At(r, "fill")
    /\ \/ /\ cache' = [cache EXCEPT ![KeyOf[r]] = seen[r]]
          /\ Respond(r, "created", seen[r])
       \/ "redis" \in Faults /\ UNCHANGED cache /\ Respond(r, "error", NoSnapshot)
    /\ seen' = [seen EXCEPT ![r] = NoSnapshot]
    /\ UNCHANGED <<phase, left, outcome, postgres, locks, bank, kafka, recovery,
                   crashes>>

\* The record read earlier is written to the cache and answers the request; a
\* failed write is ignored.
FillCache(r) ==
    /\ At(r, "fill")
    /\ \/ cache' = [cache EXCEPT ![KeyOf[r]] = seen[r]]
       \/ "redis" \in Faults /\ UNCHANGED cache
    /\ Respond(r, "created", seen[r])
    /\ seen' = [seen EXCEPT ![r] = NoSnapshot]
    /\ UNCHANGED <<phase, left, outcome, postgres, locks, bank, kafka, recovery,
                   crashes>>

-----------------------------------------------------------------------------
(* The lock. *)

LockAcquired(r) ==
    /\ At(r, "setnx")
    /\ KeyOf[r] \notin locks
    /\ locks' = locks \union {KeyOf[r]}
    /\ phase' = [phase EXCEPT ![r] = "locked"]
    /\ Goto(r, "cache")
    /\ UNCHANGED <<left, seen, outcome, postgres, cache, bank, kafka, recovery,
                   crashes>>

\* The lock is held, or Redis failed (possibly after it set the lock): poll.
LockRefused(r) ==
    /\ At(r, "setnx")
    /\ \/ KeyOf[r] \in locks /\ UNCHANGED locks
       \/ "redis" \in Faults /\ locks' \in {locks, locks \union {KeyOf[r]}}
    /\ phase' = [phase EXCEPT ![r] = "poll"]
    /\ left' = [left EXCEPT ![r] = PollLookups]
    /\ Goto(r, "cache")
    /\ UNCHANGED <<seen, outcome, postgres, cache, bank, kafka, recovery, crashes>>

\* The request's context is cancelled while the loop waits for its next lookup
\* (the final lookup follows the fifth without a wait).
PollCancelled(r) ==
    /\ At(r, "cache")
    /\ phase[r] = "poll"
    /\ left[r] > 1
    /\ "cancel" \in Faults
    /\ Respond(r, "error", NoSnapshot)
    /\ UNCHANGED <<local, postgres, redis, bank, kafka, recovery, crashes>>

\* The lock is never deleted: its ten-second TTL frees it, whatever the holder does.
LockExpires(k) ==
    /\ k \in locks
    /\ locks' = locks \ {k}
    /\ UNCHANGED <<stage, local, reply, postgres, cache, bank, kafka, recovery,
                   crashes>>

\* A cached response outlives its TTL or is evicted.
CacheExpires(k) ==
    /\ "expiry" \in Faults
    /\ cache[k] # NoSnapshot
    /\ cache' = [cache EXCEPT ![k] = NoSnapshot]
    /\ UNCHANGED <<stage, local, reply, postgres, locks, bank, kafka, recovery,
                   crashes>>

-----------------------------------------------------------------------------
(* Creating the payment. *)

SameKey(r) == {s \in Requests : KeyOf[s] = KeyOf[r]}

\* A database write takes the request to its next call, or to a 500 when the
\* connection is lost after the commit.
Writes(r, write, next) ==
    /\ write
    /\ \/ Goto(r, next)
       \/ "db" \in Faults /\ Respond(r, "error", NoSnapshot)

\* A constraint or a fault refuses the write: 500.
Refused(r, conflict) ==
    /\ conflict \/ "db" \in Faults
    /\ Respond(r, "error", NoSnapshot)

InsertRow(r) ==
    /\ \A s \in SameKey(r) : row[s] = "absent"
    /\ row' = [row EXCEPT ![r] = "processing"]

KeyTaken(r) == \E s \in SameKey(r) : row[s] # "absent"

\* Variant: a refused insert is taken for "created before" and goes on to the bank.
InsertPaymentResuming(r) ==
    /\ At(r, "insert")
    /\ \/ Writes(r, InsertRow(r), "insertIdem")
       \/ KeyTaken(r) /\ Goto(r, "bank") /\ UNCHANGED row
    /\ UNCHANGED <<local, published, idem, redis, bank, kafka, recovery, crashes>>

\* The unique index on (merchant_id, idempotency_key) refuses a second payment.
InsertPayment(r) ==
    /\ At(r, "insert")
    /\ \/ Writes(r, InsertRow(r), "insertIdem")
       \/ Refused(r, KeyTaken(r)) /\ UNCHANGED row
    /\ UNCHANGED <<local, published, idem, redis, bank, kafka, recovery, crashes>>

InsertRecord(r) ==
    /\ idem[KeyOf[r]] = NoSnapshot
    /\ idem' = [idem EXCEPT ![KeyOf[r]] = [pay |-> r, status |-> "processing"]]

\* Variant: the payment goes on to the bank although its record was not written.
InsertIdemIgnoringErrors(r) ==
    /\ At(r, "insertIdem")
    /\ InsertRecord(r) \/ ("db" \in Faults /\ UNCHANGED idem)
    /\ Goto(r, "bank")
    /\ UNCHANGED <<local, row, published, redis, bank, kafka, recovery, crashes>>

InsertIdem(r) ==
    /\ At(r, "insertIdem")
    /\ \/ Writes(r, InsertRecord(r), "bank")
       \/ Refused(r, idem[KeyOf[r]] # NoSnapshot) /\ UNCHANGED idem
    /\ UNCHANGED <<local, row, published, redis, bank, kafka, recovery, crashes>>

\* Variant: the status in the bank's answer is not looked at.
BankCallIgnoringVerdict(did, concluded) ==
    \/ did \in {"approved", "declined"} /\ concluded = "completed"
    \/ "bank" \in Faults /\ did # "unasked" /\ concluded = "unavailable"

\* Variant: a call that failed counts as declined.
BankCallFailedIsDeclined(did, concluded) ==
    \/ did = "approved" /\ concluded = "completed"
    \/ did = "declined" /\ concluded = "declined"
    \/ "bank" \in Faults /\ did # "unasked" /\ concluded = "declined"

\* What the bank did and what the service concludes from the call.  A call that
\* times out, is cancelled or answers badly counts as "provider unavailable",
\* whether or not the bank acted on it.
BankCall(did, concluded) ==
    \/ did = "approved" /\ concluded = "completed"
    \/ did = "declined" /\ concluded = "declined"
    \/ "bank" \in Faults /\ did # "unasked" /\ concluded = "unavailable"

AskBank(r, next) ==
    /\ At(r, "bank")
    /\ \E did \in BankRecord, concluded \in Outcome :
         /\ BankCall(did, concluded)
         /\ bank' = [bank EXCEPT ![r] = did]
         /\ outcome' = [outcome EXCEPT ![r] = concluded]
    /\ Goto(r, next)
    /\ UNCHANGED <<phase, left, seen, postgres, redis, kafka, recovery, crashes>>

\* Variant: the update of the payment row is forgotten.
AuthorizeWithoutSave(r) == AskBank(r, "storeIdem")

\* Variant: a payment the provider did not answer for is not saved.
AuthorizeGivingUp(r) ==
    /\ At(r, "bank")
    /\ \E did \in BankRecord, concluded \in Outcome :
         /\ BankCall(did, concluded)
         /\ bank' = [bank EXCEPT ![r] = did]
         /\ outcome' = [outcome EXCEPT ![r] = concluded]
         /\ \/ concluded # "unavailable" /\ Goto(r, "save")
            \/ concluded = "unavailable" /\ Respond(r, "unavailable", NoSnapshot)
    /\ UNCHANGED <<phase, left, seen, postgres, redis, kafka, recovery, crashes>>

AuthorizePayment(r) == AskBank(r, "save")

\* gorm's Save writes the whole in-memory payment, event_published = false included.
SaveRow(r) ==
    /\ row' = [row EXCEPT ![r] = StatusOf(outcome[r])]
    /\ published' = published \ {r}

SavePayment(r) ==
    /\ At(r, "save")
    /\ \/ Writes(r, SaveRow(r), "storeIdem")
       \/ Refused(r, FALSE) /\ UNCHANGED <<row, published>>
    /\ UNCHANGED <<local, idem, redis, bank, kafka, recovery, crashes>>

UpdateRecord(r) == idem' = [idem EXCEPT ![KeyOf[r]] = Result(r)]

\* Variant: a failed update of the record is logged and forgotten.
StoreIdemIgnoringErrors(r) ==
    /\ At(r, "storeIdem")
    /\ UpdateRecord(r) \/ ("db" \in Faults /\ UNCHANGED idem)
    /\ Goto(r, "storeCache")
    /\ UNCHANGED <<local, row, published, redis, bank, kafka, recovery, crashes>>

StoreIdem(r) ==
    /\ At(r, "storeIdem")
    /\ \/ Writes(r, UpdateRecord(r), "storeCache")
       \/ Refused(r, FALSE) /\ UNCHANGED idem
    /\ UNCHANGED <<local, row, published, redis, bank, kafka, recovery, crashes>>

\* The second half of storeIdempotencyResult; a failed cache write is ignored.
\* Only a completed payment goes on to publish its event.
StoreCache(r) ==
    /\ At(r, "storeCache")
    /\ \/ cache' = [cache EXCEPT ![KeyOf[r]] = Result(r)]
       \/ "redis" \in Faults /\ UNCHANGED cache
    /\ \/ outcome[r] = "completed" /\ Goto(r, "publish")
       \/ outcome[r] # "completed" /\ Answer(r)
    /\ UNCHANGED <<local, postgres, locks, bank, kafka, recovery, crashes>>

-----------------------------------------------------------------------------
(* PublishEvent, called by a request and by the recovery job. *)

\* payment.failed announces a failed payment; every other status is announced as
\* payment.succeeded.
EventType(status) ==
    IF status = "failed" THEN "payment.failed" ELSE "payment.succeeded"

\* n copies of one message with a fresh event id reach the topic: the writer's
\* own retries repeat a message whose acknowledgement was lost.
AppendCopies(snap, n) ==
    /\ Len(log) + n <= MaxEvents
    /\ log' = log \o [i \in 1..n |->
                [id |-> nextEvent, pay |-> snap.pay, status |-> snap.status]]
    /\ nextEvent' = IF n = 0 THEN nextEvent ELSE nextEvent + 1

Copies == IF "ack" \in Faults THEN 1..WriterAttempts ELSE {1}

KafkaWrites(snap) == \E n \in Copies : AppendCopies(snap, n)

\* WriteMessages returned an error, perhaps after the broker kept the message.
KafkaFails(snap) ==
    \/ "kafka" \in Faults /\ UNCHANGED kafka
    \/ "ack" \in Faults /\ KafkaWrites(snap)

\* A publication error is only logged: the request answers 201.
Publish(r) ==
    /\ At(r, "publish")
    /\ \/ KafkaWrites(Result(r)) /\ Goto(r, "mark")
       \/ KafkaFails(Result(r)) /\ Answer(r)
    /\ UNCHANGED <<local, postgres, redis, bank, recovery, crashes>>

MarkEventPublished(p) ==
    \/ published' = published \union {p}
    \/ "db" \in Faults /\ UNCHANGED published

Mark(r) ==
    /\ At(r, "mark")
    /\ MarkEventPublished(r)
    /\ Answer(r)
    /\ UNCHANGED <<local, row, idem, redis, bank, kafka, recovery, crashes>>

-----------------------------------------------------------------------------
(* The recovery job. *)

\* Variant: the scan without its filter on the status.
GetAllUnpublishedAnyStatus ==
    {[pay |-> r, status |-> row[r]] : r \in {s \in Requests :
        row[s] # "absent" /\ s \notin published}}

\* Variant: the scan looks for completed payments only.
GetAllUnpublishedCompleted ==
    {[pay |-> r, status |-> row[r]] : r \in {s \in Requests :
        row[s] = "completed" /\ s \notin published}}

GetAllUnpublished ==
    {[pay |-> r, status |-> row[r]] : r \in {s \in Requests :
        row[s] \notin {"absent", "processing"} /\ s \notin published}}

\* A tick of the 30-second ticker; the job is one goroutine, so a tick during a
\* run waits for its end.
RecoveryScan ==
    /\ batch = {} /\ marking = NoSnapshot
    /\ batch' = GetAllUnpublished
    /\ batch' # {}
    /\ UNCHANGED <<stage, local, reply, postgres, redis, bank, kafka, marking,
                   crashes>>

RecoveryPublishes(snap) ==
    /\ snap \in batch /\ marking = NoSnapshot
    /\ KafkaWrites(snap)
    /\ batch' = batch \ {snap}
    /\ marking' = snap
    /\ UNCHANGED <<stage, local, reply, postgres, redis, bank, crashes>>

\* Variant: the payment is marked although the publication failed.
RecoveryMarksAnyway(snap) ==
    /\ snap \in batch /\ marking = NoSnapshot
    /\ KafkaFails(snap)
    /\ batch' = batch \ {snap}
    /\ marking' = snap
    /\ UNCHANGED <<stage, local, reply, postgres, redis, bank, crashes>>

RecoveryPublishFails(snap) ==
    /\ snap \in batch /\ marking = NoSnapshot
    /\ KafkaFails(snap)
    /\ batch' = batch \ {snap}
    /\ UNCHANGED <<stage, local, reply, postgres, redis, bank, marking, crashes>>

RecoveryMark ==
    /\ marking # NoSnapshot
    /\ MarkEventPublished(marking.pay)
    /\ marking' = NoSnapshot
    /\ UNCHANGED <<stage, local, reply, row, idem, redis, bank, kafka, batch, crashes>>

-----------------------------------------------------------------------------
\* The process dies and is restarted (restart: unless-stopped): requests in
\* flight and the recovery batch are lost, Postgres, Redis and Kafka keep theirs.
Crash ==
    /\ crashes < MaxCrashes
    /\ crashes' = crashes + 1
    /\ stage' = [r \in Requests |->
                   IF stage[r] \in {"idle", "done"} THEN stage[r] ELSE "dead"]
    /\ batch' = {}
    /\ marking' = NoSnapshot
    /\ UNCHANGED <<local, reply, postgres, redis, bank, kafka>>

LookupStep(r) ==
    \/ CacheHit(r) \/ CacheMiss(r) \/ PollCancelled(r)
    \/ RecordFound(r) \/ RecordMissing(r) \/ RecordError(r)
    \/ FillCache(r)

CreateStep(r) ==
    \/ InsertPayment(r) \/ InsertIdem(r)
    \/ AuthorizePayment(r)
    \/ SavePayment(r) \/ StoreIdem(r) \/ StoreCache(r)
    \/ Publish(r) \/ Mark(r)

RequestStep(r) ==
    LookupStep(r) \/ LockAcquired(r) \/ LockRefused(r) \/ CreateStep(r)

RecoveryStep ==
    \/ RecoveryScan
    \/ \E snap \in batch : RecoveryPublishes(snap) \/ RecoveryPublishFails(snap)
    \/ RecoveryMark

Next ==
    \/ \E r \in Requests : Arrive(r) \/ RequestStep(r)
    \/ \E k \in Keys : LockExpires(k) \/ CacheExpires(k)
    \/ RecoveryStep
    \/ Crash

Spec == Init /\ [][Next]_vars

\* The scheduler runs every request's goroutine and the recovery goroutine; the
\* ticker fires for ever.  Kafka may fail any number of times, but not on every
\* one of infinitely many attempts for one payment.  Clients owe nothing, and no
\* expiry or crash is promised.
Fairness ==
    /\ \A r \in Requests : WF_vars(RequestStep(r))
    /\ WF_vars(RecoveryStep)
    /\ \A r \in Requests : \A s \in Final :
         SF_vars(RecoveryPublishes([pay |-> r, status |-> s]))

FairSpec == Spec /\ Fairness
-----------------------------------------------------------------------------
(* Properties. *)

Asked(r) == bank[r] # "unasked"
Created(r) == row[r] # "absent"

\* Every payment a client is shown for a key, by the call that created it or by a
\* replay from Redis or Postgres, is the same payment.
OnePaymentShownPerKey ==
    \A r, s \in Requests :
        /\ reply[r].kind = "created" /\ reply[s].kind = "created"
        /\ KeyOf[r] = KeyOf[s]
        => reply[r].snap.pay = reply[s].snap.pay

\* A stored response never runs ahead of the payment: the record, the cached copy
\* and the answers given to clients show a final status only when the row has that
\* status, so no replay can report an outcome a crash then loses; and a client told of
\* an outcome can always have the answer replayed from the database.
AnswersAreBacked ==
    LET Decided(snap) == snap # NoSnapshot /\ snap.status \in Final
        Backed(snap) == Decided(snap) => row[snap.pay] = snap.status
    IN  /\ \A k \in Keys : Backed(idem[k]) /\ Backed(cache[k])
        /\ \A r \in Requests :
             /\ Backed(reply[r].snap)
             /\ Decided(reply[r].snap) => idem[KeyOf[r]] = reply[r].snap

\* The bank is asked only about a payment on record: whatever becomes of the call, each
\* later call with the key finds that payment instead of asking again or being refused.
BankCallsAreRecorded ==
    \A r \in Requests :
        Asked(r) => idem[KeyOf[r]] # NoSnapshot /\ idem[KeyOf[r]].pay = r

\* Hence the bank is asked to authorise at most one payment per key, even when the
\* ten-second lock has expired under a slow request or Redis has failed: the unique
\* index decides, and the loser is refused before it reaches the bank.
OneBankCallPerKey ==
    \A r, s \in Requests : Asked(r) /\ Asked(s) /\ KeyOf[r] = KeyOf[s] => r = s

\* A client is told of a decline only when the bank declined, and of a completed payment
\* only when it approved: an answer of the bank that was lost, for a timeout on either
\* side, passes for neither.
AnswersAreHonest ==
    \A r \in Requests :
        /\ reply[r].kind = "declined" => bank[r] = "declined"
        /\ reply[r].snap # NoSnapshot /\ reply[r].snap.status = "completed"
             => bank[reply[r].snap.pay] = "approved"

\* The topic tells the truth: an event is about a payment whose row has the status
\* the event carries, and one of type payment.succeeded about a payment the bank
\* approved.  A payment still being processed is never announced, and event_published
\* is set only for payments whose event is in the topic: a crash or a Kafka error never
\* makes the recovery job skip a payment nobody announced.
EventsTellTheOutcome ==
    /\ \A i \in 1..Len(log) :
         LET e == log[i] IN
         /\ row[e.pay] = e.status
         /\ EventType(e.status) = "payment.succeeded"
              => e.status = "completed" /\ bank[e.pay] = "approved"
    /\ \A r \in published : \E i \in 1..Len(log) : log[i].pay = r

RowStands(r) ==
    /\ row[r] \in Final => row'[r] = row[r]
    /\ r \in published => r \in published'

RecordStands(k) ==
    idem[k] # NoSnapshot =>
        \/ idem'[k] = idem[k]
        \/ /\ idem[k].status = "processing"
           /\ \E s \in Final : idem'[k] = [idem[k] EXCEPT !.status = s]

\* A decided payment stays decided and a published one stays published, although
\* the request and the recovery job write the same row and the request writes all of
\* it, event_published included: the scan never races a request that has yet to save.
\* Once stored, a key's record stays the record of the same payment, and once final it
\* stays as it is, so that a replay from the database never goes back, whoever else
\* holds the lock or creates with the same key.
DecisionsAreFinal ==
    [][(\A r \in Requests : RowStands(r)) /\ (\A k \in Keys : RecordStands(k))]_vars

\* Every request that arrives is answered unless the process dies: the poll loop
\* ends, and nothing waits for a lock holder that never comes back.
EveryRequestEnds ==
    \A r \in Requests : ~At(r, "idle") ~> At(r, "done") \/ At(r, "dead")

\* A payment once created is decided unless the process dies or the database fails,
\* although the gateway may hang up, and with it the bank, Redis and Kafka calls of the
\* request fail, at any moment.
EveryPaymentDecided ==
    \A r \in Requests : Created(r) ~> row[r] \in Final \/ At(r, "dead")

\* A call that begins once a payment is on record for its key is shown that payment,
\* such as the retry of a client whose first call the gateway gave up.
RepeatedCallIsShown ==
    \A r \in Requests :
        At(r, "cache") /\ phase[r] = "first" /\ idem[KeyOf[r]] # NoSnapshot
            ~> reply[r].kind = "created" \/ At(r, "dead")

\* Every payment that reaches a final status is announced and marked, whatever died
\* between the database write and the publication.
EveryOutcomeAnnounced ==
    \A r \in Requests : row[r] \in Final ~> r \in published

-----------------------------------------------------------------------------
(* The inductive invariant behind the safety properties. *)

Announced(r) == \E i \in 1..Len(log) : log[i].pay = r

\* What the position of a request says of the tables: it owns the row it created,
\* still "processing" until it saves, and it has stored the record it replays.
Position(r) ==
    /\ stage[r] = "fill" => seen[r] # NoSnapshot
    /\ stage[r] \in {"insertIdem", "bank", "save"} => row[r] = "processing"
    /\ stage[r] \in {"insertIdem", "bank"} => ~Asked(r)
    /\ stage[r] \in {"save", "storeIdem", "storeCache", "publish", "mark"} =>
          /\ outcome[r] # "undecided"
          /\ Asked(r)
          /\ outcome[r] = "completed" => bank[r] = "approved"
    /\ stage[r] \in {"storeIdem", "storeCache", "publish", "mark"} =>
          row[r] = StatusOf(outcome[r])
    /\ stage[r] \in {"storeCache", "publish", "mark"} => idem[KeyOf[r]] = Result(r)
    /\ stage[r] \in {"publish", "mark"} => outcome[r] = "completed"
    /\ stage[r] = "mark" => Announced(r)

Positions == \A r \in Requests : Position(r)

\* One row per key; the bank is asked, and a payment completed, only where a row
\* and an approval say so.
Rows ==
    /\ \A r, s \in Requests : Created(r) /\ Created(s) /\ KeyOf[r] = KeyOf[s] => r = s
    /\ \A r \in Requests : /\ Asked(r) => Created(r)
                           /\ row[r] = "completed" => bank[r] = "approved"

\* A snapshot kept for key k is of the key's own payment, and a final one is the row's
\* status and the key's durable record.
Sound(snap, k) ==
    snap # NoSnapshot =>
        /\ KeyOf[snap.pay] = k
        /\ Created(snap.pay)
        /\ snap.status \in Final => row[snap.pay] = snap.status /\ idem[k] = snap

Snapshots ==
    /\ \A k \in Keys : Sound(idem[k], k) /\ Sound(cache[k], k)
    /\ \A r \in Requests : /\ Sound(seen[r], KeyOf[r])
                           /\ Sound(reply[r].snap, KeyOf[r])
                           /\ reply[r].kind = "created" => reply[r].snap # NoSnapshot

\* What is or will be in the topic repeats the row of a decided payment.
Truthful(e) == e.status \in Final /\ row[e.pay] = e.status

Announcements ==
    /\ \A i \in 1..Len(log) : Truthful(log[i])
    /\ \A snap \in batch : Truthful(snap)
    /\ marking # NoSnapshot => Truthful(marking) /\ Announced(marking.pay)
    /\ \A r \in published : row[r] \in Final /\ Announced(r)

\* The parts hold together: each is needed to preserve another.
Consistent == Positions /\ Rows /\ Snapshots /\ Announcements

-----------------------------------------------------------------------------
(* What the README says of replays and of the bank's answer. *)

\* Once a replay of the key returns the final response, no later replay returns an
\* earlier one: the cached response never goes back to the "processing" snapshot.
ReplayNeverRegresses ==
    [][\A k \in Keys :
        cache[k] # NoSnapshot /\ cache[k].status \in Final
            => cache'[k] \in {cache[k], NoSnapshot}]_vars

\* What the bank answered ends up in the payment's row.
BankAnswerRecorded ==
    \A r \in Requests : bank[r] \in {"approved", "declined"} ~> row[r] \in Final
=============================================================================
