------------------------------- MODULE Webhook -------------------------------
(***************************************************************************)
(* The webhook service: the Kafka consumer that turns each event into one  *)
(* delivery per subscribed endpoint, the BullMQ worker that posts          *)
(* deliveries to merchants, retries and dead-letters them, the manual      *)
(* retry and the endpoint operations.                                      *)
(*                                                                         *)
(* The service runs in one Node process: the consumer, the worker (BullMQ's *)
(* default concurrency of one) and HTTP handlers interleave at each await, *)
(* so each action is one call to Postgres, Redis or the merchant with the   *)
(* code up to the next one.  One merchant is modelled: every row and query  *)
(* is scoped to one.  A delivery's id is a hash of endpoint and event, a    *)
(* function of the pair.  A retry's backoff only passes time, so a delayed  *)
(* job counts as waiting.                                                   *)
(***************************************************************************)
EXTENDS Naturals, Sequences, FiniteSets

CONSTANTS
    Endpoints,
    Events,         \* event ids of correctly signed events
    Unusable,       \* a message without value, valid signature, JSON or merchant
    Attempts,       \* attempts of a job (5 in the code)
    Faults,         \* what may go wrong in this instance
    MaxLog,         \* bound on the length of the topic
    MaxRetries,     \* bound on manual retries
    MaxEdits,       \* bound on the updates of one endpoint
    MaxCrashes      \* bound on process crashes

ASSUME WebhookAssumption ==
    /\ Attempts \in Nat \ {0}
    /\ Faults \subseteq {"db", "queue", "http"}
    /\ Unusable \notin Events
    /\ MaxLog \in Nat /\ MaxRetries \in Nat /\ MaxEdits \in Nat /\ MaxCrashes \in Nat

Deliveries == Endpoints \X Events

\* <<d, 0>> is the job with the delivery's own id, <<d, n>> that of a manual retry.
Jobs == Deliveries \X (0..MaxRetries)
MainJob(d) == <<d, 0>>
DeliveryOf(j) == j[1]

\* maxStalledCount, a BullMQ default.
StallLimit == 1

VARIABLES
    endpoint,   \* Postgres: state of each endpoint; "subscribed" means active and so
    edits,      \* updates made to each endpoint
    row,        \* Postgres: status of each delivery, or "absent"
    letters,    \* Postgres: deliveries with a dead letter
    jobs,       \* Redis: BullMQ's record of each job
    retries,    \* manual retries so far
    worker,     \* the job the worker has in hand
    doing,      \* the worker's next call
    posts,      \* calls made to the merchant on behalf of each job
    log,        \* Kafka: the payments topic, from the group's first join on
    committed,  \* Kafka: messages up to this one are committed; 0 when none ever was
    start,      \* where the group last joined for want of a committed offset
    next,       \* messages up to this one are handled
    busy,       \* a message is being dispatched
    todo,       \* the dispatch's next call for each endpoint
    crashes     \* crashes and rejoins so far

endpoints == <<endpoint, edits>>
deliveries == <<row, letters>>
queue == <<jobs, retries>>
processor == <<worker, doing, posts>>
kafka == <<log, committed>>
dispatch == <<start, next, busy, todo>>
vars == <<endpoints, deliveries, queue, processor, kafka, dispatch, crashes>>

NoJob == <<"none">>
Terminal == {"delivered", "dead"}
EndpointStates == {"new", "subscribed", "unsubscribed", "inactive", "removed"}
Exists(ep) == endpoint[ep] \notin {"new", "removed"}

TypeOK ==
    /\ endpoint \in [Endpoints -> EndpointStates]
    /\ edits \in [Endpoints -> 0..MaxEdits]
    /\ row \in [Deliveries -> {"absent", "pending", "failed"} \union Terminal]
    /\ letters \subseteq Deliveries
    /\ jobs \in [Jobs -> [state: {"none", "waiting", "active", "completed", "failed"},
                          made: 0..Attempts, stalls: 0..StallLimit]]
    /\ retries \in 0..MaxRetries
    /\ worker \in Jobs \union {NoJob}
    /\ doing \in {"idle", "load", "inactive", "post", "markDelivered", "markFailed",
                  "markDead", "complete", "fail"}
    /\ posts \in [Jobs -> Nat]
    /\ log \in Seq(Events \union {Unusable})
    /\ committed \in 0..next
    /\ start \in 0..next
    /\ next \in 0..Len(log)
    /\ busy \in BOOLEAN
    /\ todo \in [Endpoints -> {"none", "create", "add", "ok", "rejected"}]
    /\ crashes \in Nat

Init ==
    /\ endpoint = [ep \in Endpoints |-> "new"]
    /\ edits = [ep \in Endpoints |-> 0]
    /\ row = [d \in Deliveries |-> "absent"]
    /\ letters = {}
    /\ jobs = [j \in Jobs |-> [state |-> "none", made |-> 0, stalls |-> 0]]
    /\ retries = 0
    /\ worker = NoJob
    /\ doing = "idle"
    /\ posts = [j \in Jobs |-> 0]
    /\ log = <<>>
    /\ committed = 0
    /\ start = 0
    /\ next = 0
    /\ busy = FALSE
    /\ todo = [ep \in Endpoints |-> "none"]
    /\ crashes = 0

-----------------------------------------------------------------------------
(* Endpoints. *)

Register(ep) ==
    /\ endpoint[ep] = "new"
    /\ \E s \in {"subscribed", "unsubscribed"} : endpoint' = [endpoint EXCEPT ![ep] = s]
    /\ UNCHANGED <<edits, deliveries, queue, processor, kafka, dispatch, crashes>>

Update(ep) ==
    /\ Exists(ep)
    /\ edits[ep] < MaxEdits
    /\ edits' = [edits EXCEPT ![ep] = @ + 1]
    /\ \E s \in {"subscribed", "unsubscribed", "inactive"} :
         endpoint' = [endpoint EXCEPT ![ep] = s]
    /\ UNCHANGED <<deliveries, queue, processor, kafka, dispatch, crashes>>

\* The foreign key refuses to delete an endpoint that has deliveries.
Deletable(ep) == Exists(ep) /\ \A e \in Events : row[<<ep, e>>] = "absent"

Remove(ep) ==
    /\ Deletable(ep)
    /\ edits[ep] < MaxEdits
    /\ edits' = [edits EXCEPT ![ep] = @ + 1]
    /\ endpoint' = [endpoint EXCEPT ![ep] = "removed"]
    /\ UNCHANGED <<deliveries, queue, processor, kafka, dispatch, crashes>>

-----------------------------------------------------------------------------
(* The Kafka consumer. *)

\* The topic receives a message, perhaps an event it has already.
Produce(m) ==
    /\ Len(log) < MaxLog
    /\ log' = Append(log, m)
    /\ UNCHANGED <<endpoints, deliveries, queue, processor, committed, dispatch, crashes>>

Current == log[next + 1]

FindActiveForEvent == {ep \in Endpoints : endpoint[ep] = "subscribed"}

\* handleMessage returns early: the message is logged and counts as handled.
SkipMessage ==
    /\ ~busy
    /\ next < Len(log)
    /\ Current = Unusable
    /\ next' = next + 1
    /\ UNCHANGED <<endpoints, deliveries, queue, processor, kafka, start, busy, todo,
                   crashes>>

\* handleMessage and dispatch up to findActiveForEvent.  When the query fails, or a
\* secret it returns cannot be decrypted, the message stays where it is.
Dispatch ==
    /\ ~busy
    /\ next < Len(log)
    /\ Current \in Events
    /\ busy' = TRUE
    /\ todo' = [ep \in Endpoints |->
                  IF ep \in FindActiveForEvent THEN "create" ELSE "none"]
    /\ UNCHANGED <<endpoints, deliveries, queue, processor, kafka, start, next, crashes>>

Goes(ep, s) == todo' = [todo EXCEPT ![ep] = s]

\* Variant: the upsert's update clause sets the status again.
UpsertResetting(d) == row' = [row EXCEPT ![d] = "pending"]

\* The upsert leaves an existing row alone.
Upsert(d) == row' = [row EXCEPT ![d] = IF @ = "absent" THEN "pending" ELSE @]

\* The first half of enqueue; an endpoint removed since the query breaks the foreign
\* key.  A delivery already terminal is not enqueued.
CreateDelivery(ep) ==
    LET d == <<ep, Current>> IN
    /\ todo[ep] = "create"
    /\ \/ /\ Exists(ep)
          /\ Upsert(d)
          /\ Goes(ep, IF row[d] \in Terminal THEN "ok" ELSE "add")
       \/ /\ ~Exists(ep) \/ "db" \in Faults
          /\ UNCHANGED row \/ (Exists(ep) /\ Upsert(d))
          /\ Goes(ep, "rejected")
    /\ UNCHANGED <<endpoints, letters, queue, processor, kafka, start, next, busy,
                   crashes>>

Waiting == [state |-> "waiting", made |-> 0, stalls |-> 0]

\* BullMQ ignores a job whose id it holds, in whatever state, completed and failed
\* included.
QueueAdd(j) ==
    jobs' = [jobs EXCEPT ![j] = IF @.state = "none" THEN Waiting ELSE @]

\* Variant: enqueue gives the job no id, so that the queue takes it each time.
AddJobWithoutId(ep) ==
    /\ todo[ep] = "add"
    /\ jobs' = [jobs EXCEPT ![MainJob(<<ep, Current>>)] = Waiting]
    /\ Goes(ep, "ok")
    /\ UNCHANGED <<endpoints, deliveries, retries, processor, kafka, start, next, busy,
                   crashes>>

\* The second half of enqueue.
AddJob(ep) ==
    /\ todo[ep] = "add"
    /\ \/ QueueAdd(MainJob(<<ep, Current>>)) /\ Goes(ep, "ok")
       \/ /\ "queue" \in Faults
          /\ UNCHANGED jobs \/ QueueAdd(MainJob(<<ep, Current>>))
          /\ Goes(ep, "rejected")
    /\ UNCHANGED <<endpoints, deliveries, retries, processor, kafka, start, next, busy,
                   crashes>>

Settled == \A ep \in Endpoints : todo[ep] \in {"none", "ok", "rejected"}

\* Variant: the rejections are logged and the message is taken as handled.
SettleAnyway ==
    /\ busy /\ Settled
    /\ busy' = FALSE
    /\ todo' = [ep \in Endpoints |-> "none"]
    /\ next' = next + 1
    /\ UNCHANGED <<endpoints, deliveries, queue, processor, kafka, start, crashes>>

\* Promise.allSettled: one rejection makes the whole message fail, and KafkaJS hand it
\* over again.
Settle ==
    /\ busy /\ Settled
    /\ busy' = FALSE
    /\ todo' = [ep \in Endpoints |-> "none"]
    /\ next' = IF \E ep \in Endpoints : todo[ep] = "rejected" THEN next ELSE next + 1
    /\ UNCHANGED <<endpoints, deliveries, queue, processor, kafka, start, crashes>>

\* KafkaJS commits the offset of what it has handled since it joined, from time to time.
CommitOffset ==
    /\ committed < next /\ start < next
    /\ committed' = next
    /\ UNCHANGED <<endpoints, deliveries, queue, processor, log, dispatch, crashes>>

-----------------------------------------------------------------------------
(* The worker. *)

Does(s) == doing' = s /\ UNCHANGED worker

Take(j) ==
    /\ doing = "idle"
    /\ jobs[j].state = "waiting"
    /\ jobs' = [jobs EXCEPT ![j].state = "active"]
    /\ worker' = j
    /\ doing' = "load"
    /\ UNCHANGED <<endpoints, deliveries, retries, posts, kafka, dispatch, crashes>>

InHand == DeliveryOf(worker)

\* The delivery's row is there, rows being never deleted; its endpoint may have been
\* deactivated, but keeps receiving once unsubscribed.
Load ==
    /\ doing = "load"
    /\ \/ endpoint[InHand[1]] = "inactive" /\ Does("inactive")
       \/ endpoint[InHand[1]] \in {"subscribed", "unsubscribed"} /\ Does("post")
       \/ "db" \in Faults /\ Does("fail")
    /\ UNCHANGED <<endpoints, deliveries, queue, posts, kafka, dispatch, crashes>>

SetRow(s) == row' = [row EXCEPT ![InHand] = s]

\* A write takes the worker to its next call; a failed one, perhaps committed all the
\* same, throws.
Marks(write, next_, thrown) ==
    \/ write /\ Does(next_)
    \/ "db" \in Faults /\ (write \/ UNCHANGED deliveries) /\ Does(thrown)

MarkInactive ==
    /\ doing = "inactive"
    /\ Marks(SetRow("failed") /\ UNCHANGED letters, "complete", "fail")
    /\ UNCHANGED <<endpoints, queue, posts, kafka, dispatch, crashes>>

\* Variant: the last attempt is taken one too late.
IsLastAttemptLate == jobs[worker].made >= Attempts

IsLastAttempt == jobs[worker].made >= Attempts - 1

\* Variant: the worker takes the attempts made for the number of the one under way.
CaughtLate == IF jobs[worker].made >= Attempts THEN "markDead" ELSE "markFailed"

Caught == IF IsLastAttempt THEN "markDead" ELSE "markFailed"

\* Variant: the answer is not looked at.
PostUnchecked ==
    /\ doing = "post"
    /\ \/ posts' = [posts EXCEPT ![worker] = @ + 1]
       \/ "http" \in Faults /\ UNCHANGED posts
    /\ Does("markDelivered")
    /\ UNCHANGED <<endpoints, deliveries, queue, kafka, dispatch, crashes>>

\* The merchant answers 2xx, or the call fails, whether or not the merchant got it; it is
\* not made at all when the endpoint's URL does not resolve to an address it may have.
PostToMerchant ==
    /\ doing = "post"
    /\ \/ /\ posts' = [posts EXCEPT ![worker] = @ + 1]
          /\ Does("markDelivered") \/ ("http" \in Faults /\ Does(Caught))
       \/ "http" \in Faults /\ UNCHANGED posts /\ Does(Caught)
    /\ UNCHANGED <<endpoints, deliveries, queue, kafka, dispatch, crashes>>

\* The update is inside the try: when it fails the delivery counts as failed.
MarkDelivered ==
    /\ doing = "markDelivered"
    /\ Marks(SetRow("delivered") /\ UNCHANGED letters, "complete", Caught)
    /\ UNCHANGED <<endpoints, queue, posts, kafka, dispatch, crashes>>

\* Variant: the failure is recorded but not thrown on, so that the job completes.
MarkFailedSwallowing ==
    /\ doing = "markFailed"
    /\ Marks(SetRow("failed") /\ UNCHANGED letters, "complete", "fail")
    /\ UNCHANGED <<endpoints, queue, posts, kafka, dispatch, crashes>>

MarkFailed ==
    /\ doing = "markFailed"
    /\ Marks(SetRow("failed") /\ UNCHANGED letters, "fail", "fail")
    /\ UNCHANGED <<endpoints, queue, posts, kafka, dispatch, crashes>>

\* Variant: status and letter are written one after the other, not in a transaction.
WriteDeadInTwoSteps ==
    /\ SetRow("dead")
    /\ letters' \in {letters, letters \union {InHand}}

\* One transaction: the status and the letter.
WriteDead ==
    /\ SetRow("dead")
    /\ letters' = letters \union {InHand}

MarkDeadWithLetter ==
    /\ doing = "markDead"
    /\ Marks(WriteDead, "complete", "fail")
    /\ UNCHANGED <<endpoints, queue, posts, kafka, dispatch, crashes>>

Rest == worker' = NoJob /\ doing' = "idle"

\* process returned: the job is completed.
Complete ==
    /\ doing = "complete"
    /\ jobs' = [jobs EXCEPT ![worker].state = "completed"]
    /\ Rest
    /\ UNCHANGED <<endpoints, deliveries, retries, posts, kafka, dispatch, crashes>>

AfterFailure(job) ==
    [state |-> IF IsLastAttempt THEN "failed" ELSE "waiting",
     made |-> job.made + 1, stalls |-> job.stalls]

\* process threw: BullMQ tries again after the backoff while attempts remain.
FailAttempt ==
    /\ doing = "fail"
    /\ jobs' = [jobs EXCEPT ![worker] = AfterFailure(jobs[worker])]
    /\ Rest
    /\ UNCHANGED <<endpoints, deliveries, retries, posts, kafka, dispatch, crashes>>

AfterStall(job) ==
    IF job.stalls < StallLimit
    THEN [state |-> "waiting", made |-> job.made, stalls |-> job.stalls + 1]
    ELSE [state |-> "failed", made |-> job.made, stalls |-> job.stalls]

\* A job whose worker died is found stalled: it is tried again once, then failed.
Stalled(j) ==
    /\ jobs[j].state = "active"
    /\ worker # j
    /\ jobs' = [jobs EXCEPT ![j] = AfterStall(jobs[j])]
    /\ UNCHANGED <<endpoints, deliveries, retries, processor, kafka, dispatch, crashes>>

-----------------------------------------------------------------------------
\* POST /deliveries/:id/retry, for a delivery in any state.
RetryDelivery(d) ==
    /\ row[d] # "absent"
    /\ retries < MaxRetries
    /\ retries' = retries + 1
    /\ \/ QueueAdd(<<d, retries + 1>>)
       \/ "queue" \in Faults /\ UNCHANGED jobs
    /\ UNCHANGED <<endpoints, deliveries, processor, kafka, dispatch, crashes>>

\* A consumer that joins resumes at the committed offset; a group without one at the
\* topic's end (fromBeginning: false).
Resume ==
    IF committed = 0
    THEN next' = Len(log) /\ start' = Len(log)
    ELSE next' = committed /\ UNCHANGED start

Rejoins ==
    /\ crashes < MaxCrashes
    /\ crashes' = crashes + 1
    /\ Resume
    /\ busy' = FALSE
    /\ todo' = [ep \in Endpoints |-> "none"]

\* KafkaJS leaves the group between two messages, after too many failures or a missed
\* heartbeat, and joins it again.
Rejoin ==
    /\ ~busy
    /\ Rejoins
    /\ UNCHANGED <<endpoints, deliveries, queue, processor, kafka>>

\* The process dies and is restarted: the worker's job stays active in Redis.
Crash ==
    /\ Rejoins
    /\ Rest
    /\ UNCHANGED <<endpoints, deliveries, queue, posts, kafka>>

WorkerStep ==
    \/ \E j \in Jobs : Take(j)
    \/ Load \/ MarkInactive \/ PostToMerchant
    \/ MarkDelivered \/ MarkFailed \/ MarkDeadWithLetter
    \/ Complete \/ FailAttempt

DispatchStep ==
    \/ SkipMessage \/ Dispatch \/ Settle
    \/ \E ep \in Endpoints : CreateDelivery(ep) \/ AddJob(ep)

Next ==
    \/ \E ep \in Endpoints : Register(ep) \/ Update(ep) \/ Remove(ep)
    \/ \E m \in Events \union {Unusable} : Produce(m)
    \/ DispatchStep
    \/ CommitOffset
    \/ WorkerStep
    \/ \E j \in Jobs : Stalled(j)
    \/ \E d \in Deliveries : RetryDelivery(d)
    \/ Rejoin
    \/ Crash

Spec == Init /\ [][Next]_vars

\* The consumer, the worker and BullMQ's stalled check keep running, BullMQ serves
\* every waiting job, and Redis accepts a job in the end if it is asked for ever.
Fairness ==
    /\ WF_vars(DispatchStep)
    /\ \A ep \in Endpoints : SF_vars(AddJob(ep) /\ todo'[ep] = "ok")
    /\ WF_vars(WorkerStep)
    /\ \A j \in Jobs : SF_vars(Take(j)) /\ WF_vars(Stalled(j))

FairSpec == Spec /\ Fairness
-----------------------------------------------------------------------------
(* Properties. *)

\* The event is in the part of the topic a restart passed over because the group had
\* not committed any offset yet.
PassedOver(e) == \E i \in 1..start : log[i] = e

\* The consumer leaves no delivery behind: an undecided delivery that was never given a
\* job still has its event in the unhandled part of the topic, whatever rejection or
\* crash came between the row and the job, or was passed over before the group's first
\* commit.  (An endpoint updated meanwhile may no longer be selected when the message
\* comes again: its delivery stays pending.)
NothingLeftBehind ==
    \A d \in Deliveries :
        /\ edits[d[1]] = 0
        /\ row[d] \notin Terminal \union {"absent"}
        /\ \A n \in 0..MaxRetries : jobs[<<d, n>>].state = "none"
        => (\E i \in (next + 1)..Len(log) : log[i] = d[2]) \/ PassedOver(d[2])

\* A dead delivery can be inspected, and only a delivery that used up the attempts of
\* one of its jobs has a dead letter.
LettersAreEarned ==
    /\ \A d \in Deliveries : row[d] = "dead" => d \in letters
    /\ \A d \in letters : \E n \in 0..MaxRetries :
         jobs[<<d, n>>].made >= Attempts - 1

\* A merchant is called at most once per attempt and stall of each job: an event
\* delivered again by Kafka adds no calls.
CallsAreBounded ==
    \A j \in Jobs : posts[j] <= IF jobs[j].state = "none" THEN 0
                                ELSE Attempts + jobs[j].stalls

\* A job is laid to rest only once its delivery is decided, unless its endpoint was
\* changed: a completed job, whose id keeps the delivery from ever being enqueued
\* again, hides no delivery that failed or was never tried.
CompletedMeansDecided ==
    \A d \in Deliveries :
        /\ jobs[MainJob(d)].state = "completed"
        /\ \A n \in 1..MaxRetries : jobs[<<d, n>>].state = "none"
        /\ edits[d[1]] = 0
        => row[d] \in Terminal

\* Neither the database nor a manual retry nor a restart has interfered so far.
Undisturbed == "db" \notin Faults /\ retries = 0 /\ crashes = 0

\* Until the process first crashes, the consumer rejoins, a write fails or a retry is
\* asked for, a delivery once delivered stays so, although Kafka may hand over its event
\* again before, during or after the call.
DeliveredIsFinal ==
    [][Undisturbed =>
        \A d \in Deliveries : row[d] = "delivered" => row'[d] = "delivered"]_vars

\* A delivery the service owes: it is opened, or its event waits in the topic while its
\* endpoint is subscribed.
Owed(d) ==
    \/ row[d] # "absent"
    \/ /\ endpoint[d[1]] = "subscribed" /\ edits[d[1]] = 0
       /\ ~busy
       /\ \E i \in (next + 1)..Len(log) : log[i] = d[2]

\* BullMQ gave the delivery's job up when it stalled once more than it may, which takes
\* as many crashes; its id keeps the delivery from being enqueued again.
StalledOut(d) ==
    LET job == jobs[MainJob(d)] IN
    job.state = "failed" /\ job.stalls = StallLimit /\ crashes > StallLimit

\* Every delivery owed ends delivered or dead-lettered, behind whatever failed enqueues,
\* failed calls, redeliveries, rejoins and crashes.  Two kinds may stay open: one whose
\* event the group passed over before its first commit, and one whose job was given up
\* because the process died under it more often than StallLimit.
EveryDeliveryEnds ==
    \A d \in Deliveries :
        Owed(d) ~> row[d] \in Terminal \/ PassedOver(d[2]) \/ StalledOut(d)

\* A job that used up its attempts has left its delivery delivered or dead-lettered.
ExhaustedIsDeadLettered ==
    \A d \in Deliveries :
        jobs[MainJob(d)].state = "failed" => row[d] = "delivered" \/ d \in letters

\* That holds as long as no database call fails and the process has not died twice: by
\* then no job, manual retries included, has failed at all, because the worker, which
\* tells the last attempt by itself, buries the delivery and lets the job complete before
\* BullMQ gives up by its own counts of attempts and stalls.
NoJobFailsUndamaged ==
    "db" \notin Faults /\ crashes <= StallLimit => \A j \in Jobs : jobs[j].state # "failed"

-----------------------------------------------------------------------------
(* The inductive invariant behind the safety properties. *)

HasJob(d) == \E n \in 0..MaxRetries : jobs[<<d, n>>].state # "none"

\* The worker has not called the merchant yet in this attempt.
BeforeCall(j) == worker = j /\ doing \in {"load", "inactive", "post"}

\* Each call of the merchant is paid for by an attempt made, a stall or the attempt
\* under way.
JobRecord(j) ==
    LET job == jobs[j] IN
    /\ job.state = "none" => job.made = 0 /\ posts[j] = 0
    /\ job.state # "none" => row[DeliveryOf(j)] # "absent"
    /\ job.state \in {"waiting", "active"} => job.made < Attempts
    /\ job.state = "waiting" => posts[j] <= job.made + job.stalls
    /\ job.state = "active" =>
          posts[j] <= job.made + job.stalls + (IF BeforeCall(j) THEN 0 ELSE 1)
    /\ job.state \in {"completed", "failed"} => posts[j] <= Attempts + job.stalls

JobRecords == \A j \in Jobs : JobRecord(j)

\* What the worker's next call says of the job it has in hand.
Hand ==
    /\ doing = "idle" <=> worker = NoJob
    /\ worker # NoJob => jobs[worker].state = "active"
    /\ doing = "markDead" => jobs[worker].made >= Attempts - 1
    /\ doing = "inactive" => edits[InHand[1]] > 0
    /\ doing = "complete" => edits[InHand[1]] > 0 \/ row[InHand] \in Terminal

\* A row that was tried has a job; a completed job has decided its row.
Rows ==
    /\ \A d \in Deliveries : row[d] \in Terminal \union {"failed"} => HasJob(d)
    /\ LettersAreEarned
    /\ CompletedMeansDecided

\* Deliveries are opened for the subscribed endpoints only, whose state nothing but an
\* update changes, and the dispatch under way is about the message after next.
Dispatching ==
    /\ busy => next < Len(log) /\ Current \in Events
    /\ ~busy => \A ep \in Endpoints : todo[ep] = "none"
    /\ committed > 0 => start < committed
    /\ \A ep \in Endpoints :
         /\ endpoint[ep] = "inactive" => edits[ep] > 0
         /\ todo[ep] \in {"add", "ok"} => row[<<ep, Current>>] # "absent"
         /\ todo[ep] = "ok" => HasJob(<<ep, Current>>)
         /\ edits[ep] = 0 /\ (todo[ep] # "none" \/ \E e \in Events : row[<<ep, e>>] # "absent")
              => endpoint[ep] = "subscribed"
         /\ edits[ep] = 0 /\ busy /\ todo[ep] = "none"
              => \A e \in Events : row[<<ep, e>>] = "absent"

\* Undisturbed, a job under way is in the worker's hand and a delivered row's job is done.
Undamaged ==
    Undisturbed =>
        /\ \A j \in Jobs : jobs[j].state = "active" => worker = j
        /\ \A d \in Deliveries : row[d] = "delivered" =>
             \/ jobs[MainJob(d)].state = "completed"
             \/ worker = MainJob(d) /\ doing = "complete"
        /\ \A j \in Jobs : j[2] # 0 => jobs[j].state = "none"

\* The parts hold together: each is needed to preserve another.
Consistent ==
    JobRecords /\ Hand /\ Rows /\ Dispatching /\ NothingLeftBehind /\ Undamaged
=============================================================================
