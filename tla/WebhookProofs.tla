---------------------------- MODULE WebhookProofs ----------------------------
(***************************************************************************)
(* Machine-checked proofs about the webhook service, for all endpoints,    *)
(* events, numbers of attempts, faults and bounds.                         *)
(***************************************************************************)
EXTENDS WebhookRefinement, TLAPS

USE WebhookAssumption
USE DEF endpoints, deliveries, queue, processor, kafka, dispatch, StallLimit

-----------------------------------------------------------------------------
(* Jobs and deliveries. *)

LEMMA JobFacts ==
    ASSUME NEW j \in Jobs
    PROVE  /\ DeliveryOf(j) \in Deliveries
           /\ j[2] \in 0..MaxRetries
           /\ j = <<DeliveryOf(j), j[2]>>
BY DEF Jobs, DeliveryOf

LEMMA DeliveryFacts ==
    ASSUME NEW d \in Deliveries
    PROVE  /\ d[1] \in Endpoints /\ d[2] \in Events
           /\ d = <<d[1], d[2]>>
           /\ MainJob(d) \in Jobs
           /\ DeliveryOf(MainJob(d)) = d
           /\ \A n \in 0..MaxRetries : <<d, n>> \in Jobs /\ DeliveryOf(<<d, n>>) = d
BY DEF Deliveries, Jobs, MainJob, DeliveryOf

\* A worker that is not idle has an unfinished job in hand, with an attempt left.
LEMMA AtWork ==
    ASSUME TypeOK, Hand, JobRecords, doing # "idle"
    PROVE  /\ worker \in Jobs
           /\ InHand \in Deliveries
           /\ jobs[worker].state = "active"
           /\ jobs[worker].made \in 0..(Attempts - 1)
           /\ row[InHand] # "absent"
<1>1. worker \in Jobs /\ jobs[worker].state = "active"
  BY DEF TypeOK, Hand
<1>2. InHand \in Deliveries
  BY <1>1, JobFacts DEF InHand
<1>3. /\ jobs[worker].made \in 0..Attempts
      /\ jobs[worker].made < Attempts
      /\ row[InHand] # "absent"
  BY <1>1 DEF TypeOK, JobRecords, JobRecord, InHand
<1> QED
  BY <1>1, <1>2, <1>3

LEMMA NoJobIsNone == NoJob \notin Jobs
BY DEF NoJob, Jobs

-----------------------------------------------------------------------------
(* Type correctness. *)

JobType == [state: {"none", "waiting", "active", "completed", "failed"},
            made: 0..Attempts, stalls: 0..StallLimit]

LEMMA QueueAddTyped ==
    ASSUME TypeOK, NEW j \in Jobs, QueueAdd(j)
    PROVE  jobs' \in [Jobs -> JobType]
BY DEF TypeOK, QueueAdd, Waiting, JobType

LEMMA ResumeTyped ==
    ASSUME TypeOK, Dispatching, Resume, UNCHANGED <<log, committed>>
    PROVE  next' \in 0..Len(log) /\ start' \in 0..next' /\ committed' \in 0..next'
BY DEF TypeOK, Dispatching, Resume

LEMMA TypesInit == Init => TypeOK
<1> SUFFICES ASSUME Init PROVE TypeOK
  OBVIOUS
<1>1. /\ endpoint \in [Endpoints -> EndpointStates]
      /\ edits \in [Endpoints -> 0..MaxEdits]
      /\ row \in [Deliveries -> {"absent", "pending", "failed"} \union Terminal]
      /\ letters \subseteq Deliveries
      /\ todo \in [Endpoints -> {"none", "create", "add", "ok", "rejected"}]
  BY DEF Init, EndpointStates
<1>2. /\ jobs \in [Jobs -> JobType]
      /\ posts \in [Jobs -> Nat]
      /\ retries \in 0..MaxRetries
  BY DEF Init, JobType
<1>3. log \in Seq(Events \union {Unusable}) /\ next \in 0..Len(log)
  BY DEF Init
<1>4. start \in 0..next /\ committed \in 0..next /\ crashes \in Nat
  BY DEF Init
<1>5. /\ worker \in Jobs \union {NoJob}
      /\ doing = "idle"
      /\ busy \in BOOLEAN
  BY DEF Init
<1> QED
  BY <1>1, <1>2, <1>3, <1>4, <1>5 DEF TypeOK, JobType

LEMMA TypesStep == TypeOK /\ Consistent /\ [Next]_vars => TypeOK'
<1> SUFFICES ASSUME TypeOK, Consistent, [Next]_vars
             PROVE  TypeOK'
  OBVIOUS
<1> USE DEF Consistent
<1>1. ASSUME NEW ep \in Endpoints, Register(ep) \/ Update(ep) \/ Remove(ep)
      PROVE  TypeOK'
  <2>1. endpoint' \in [Endpoints -> EndpointStates]
    BY <1>1 DEF Register, Update, Remove, TypeOK, EndpointStates
  <2>2. edits' \in [Endpoints -> 0..MaxEdits]
    BY <1>1 DEF Register, Update, Remove, TypeOK
  <2> QED
    BY <1>1, <2>1, <2>2 DEF Register, Update, Remove, TypeOK
<1>2. ASSUME NEW m \in Events \union {Unusable}, Produce(m)
      PROVE  TypeOK'
  <2>1. /\ log' \in Seq(Events \union {Unusable})
        /\ Len(log') = Len(log) + 1
    BY <1>2 DEF Produce, TypeOK
  <2> QED
    BY <1>2, <2>1 DEF Produce, TypeOK
<1>3. CASE SkipMessage \/ Dispatch \/ Settle \/ CommitOffset
  <2>1. CASE SkipMessage
    BY <2>1 DEF SkipMessage, TypeOK
  <2>2. CASE Dispatch
    BY <2>2 DEF Dispatch, TypeOK
  <2>3. CASE Settle
    <3>1. next' \in {next, next + 1} /\ next < Len(log)
      BY <2>3 DEF Settle, Dispatching
    <3>2. /\ next' \in 0..Len(log) /\ committed \in 0..next' /\ start \in 0..next'
          /\ todo' \in [Endpoints -> {"none", "create", "add", "ok", "rejected"}]
      BY <2>3, <3>1 DEF Settle, TypeOK
    <3> QED
      BY <2>3, <3>2 DEF Settle, TypeOK
  <2>4. CASE CommitOffset
    <3>1. committed' \in 0..next'
      BY <2>4 DEF CommitOffset, TypeOK
    <3> QED
      BY <2>4, <3>1 DEF CommitOffset, TypeOK
  <2> QED
    BY <1>3, <2>1, <2>2, <2>3, <2>4
<1>4. ASSUME NEW ep \in Endpoints, CreateDelivery(ep)
      PROVE  TypeOK'
  <2>1. row' \in [Deliveries -> {"absent", "pending", "failed"} \union Terminal]
    BY <1>4 DEF CreateDelivery, Upsert, TypeOK
  <2> QED
    BY <1>4, <2>1 DEF CreateDelivery, Goes, TypeOK
<1>5. ASSUME NEW ep \in Endpoints, AddJob(ep)
      PROVE  TypeOK'
  <2>1. MainJob(<<ep, Current>>) \in Jobs
    BY <1>5 DEF AddJob, Dispatching, MainJob, Jobs, Deliveries
  <2>2. jobs' \in [Jobs -> JobType]
    BY <1>5, <2>1, QueueAddTyped DEF AddJob, TypeOK, JobType
  <2> QED
    BY <1>5, <2>2 DEF AddJob, Goes, TypeOK, JobType
<1>6. ASSUME NEW j \in Jobs, Take(j)
      PROVE  TypeOK'
  BY <1>6 DEF Take, TypeOK
<1>7. CASE Load \/ MarkInactive \/ MarkDelivered \/ MarkFailed \/ MarkDeadWithLetter
  <2>1. InHand \in Deliveries
    BY <1>7, AtWork DEF Load, MarkInactive, MarkDelivered, MarkFailed, MarkDeadWithLetter
  <2>2. Caught \in {"markDead", "markFailed"}
    BY DEF Caught
  <2> QED
    BY <1>7, <2>1, <2>2
    DEF Load, MarkInactive, MarkDelivered, MarkFailed, MarkDeadWithLetter, Marks, Does,
        SetRow, WriteDead, TypeOK, Terminal
<1>8. CASE PostToMerchant
  BY <1>8 DEF PostToMerchant, Does, Caught, TypeOK
<1>9. CASE Complete \/ FailAttempt
  <2>1. /\ worker \in Jobs /\ jobs[worker] \in JobType
        /\ jobs[worker].made + 1 \in 0..Attempts
    BY <1>9, AtWork DEF Complete, FailAttempt, TypeOK, JobType
  <2>2. jobs' \in [Jobs -> JobType]
    <3>1. CASE Complete
      BY <3>1, <2>1 DEF Complete, TypeOK, JobType
    <3>2. CASE FailAttempt
      <4>1. AfterFailure(jobs[worker]) \in JobType
        BY <2>1 DEF JobType, AfterFailure
      <4> QED
        BY <3>2, <4>1 DEF FailAttempt, TypeOK, JobType
    <3> QED
      BY <1>9, <3>1, <3>2
  <2> QED
    BY <1>9, <2>2 DEF Complete, FailAttempt, Rest, TypeOK, JobType
<1>10. ASSUME NEW j \in Jobs, Stalled(j)
       PROVE  TypeOK'
  <2>1. jobs[j] \in JobType
    BY DEF TypeOK, JobType
  <2>2. AfterStall(jobs[j]) \in JobType
    BY <2>1 DEF JobType, AfterStall
  <2>4. jobs' \in [Jobs -> JobType]
    BY <1>10, <2>2 DEF Stalled, TypeOK, JobType
  <2> QED
    BY <1>10, <2>4 DEF Stalled, TypeOK, JobType
<1>11. ASSUME NEW d \in Deliveries, RetryDelivery(d)
       PROVE  TypeOK'
  <2>1. <<d, retries + 1>> \in Jobs
    BY <1>11 DEF RetryDelivery, TypeOK, Jobs
  <2>2. jobs' \in [Jobs -> JobType]
    BY <1>11, <2>1, QueueAddTyped DEF RetryDelivery, TypeOK, JobType
  <2> QED
    BY <1>11, <2>2 DEF RetryDelivery, TypeOK, JobType
<1>12. CASE Rejoin \/ Crash
  <2>1. next' \in 0..Len(log) /\ start' \in 0..next' /\ committed' \in 0..next'
    BY <1>12, ResumeTyped DEF Rejoin, Crash, Rejoins
  <2>2. /\ crashes' \in Nat
        /\ todo' \in [Endpoints -> {"none", "create", "add", "ok", "rejected"}]
        /\ worker' \in Jobs \union {NoJob}
        /\ doing' \in {doing, "idle"}
    BY <1>12 DEF Rejoin, Crash, Rejoins, Rest, TypeOK
  <2> QED
    BY <1>12, <2>1, <2>2 DEF Rejoin, Crash, Rejoins, TypeOK
<1>13. CASE UNCHANGED vars
  BY <1>13 DEF vars, TypeOK
<1> QED
  BY <1>1, <1>2, <1>3, <1>4, <1>5, <1>6, <1>7, <1>8, <1>9, <1>10, <1>11, <1>12, <1>13
  DEF Next, DispatchStep, WorkerStep

-----------------------------------------------------------------------------
(* What stays. *)

\* Steps of the consumer and of the HTTP side that leave the jobs' records alone.
Elsewhere ==
    \/ \E ep \in Endpoints : Register(ep) \/ Update(ep) \/ Remove(ep)
    \/ \E m \in Events \union {Unusable} : Produce(m)
    \/ SkipMessage \/ Dispatch \/ Settle \/ CommitOffset \/ Rejoin
    \/ UNCHANGED vars

LEMMA ElsewhereKeeps ==
    ASSUME Elsewhere
    PROVE  UNCHANGED <<row, letters, jobs, retries, worker, doing, posts>>
BY DEF Elsewhere, Register, Update, Remove, Produce, SkipMessage, Dispatch, Settle,
       CommitOffset, Rejoin, vars

\* Every step is one of these.
LEMMA StepCases ==
    ASSUME [Next]_vars
    PROVE  \/ Elsewhere
           \/ \E ep \in Endpoints : CreateDelivery(ep) \/ AddJob(ep)
           \/ \E j \in Jobs : Take(j) \/ Stalled(j)
           \/ Load \/ MarkInactive \/ PostToMerchant
           \/ MarkDelivered \/ MarkFailed \/ MarkDeadWithLetter
           \/ Complete \/ FailAttempt
           \/ \E d \in Deliveries : RetryDelivery(d)
           \/ Crash
BY DEF Next, DispatchStep, WorkerStep, Elsewhere

LEMMA QueueAddEffect ==
    ASSUME TypeOK, NEW j \in Jobs, QueueAdd(j)
    PROVE  /\ jobs'[j].state # "none"
           /\ jobs[j].state # "none" => jobs' = jobs
           /\ jobs[j].state = "none" => jobs'[j] = Waiting
           /\ \A i \in Jobs : i # j => jobs'[i] = jobs[i]
BY DEF TypeOK, QueueAdd, Waiting

\* What the worker writes is about the delivery in hand.
LEMMA MarkEffect ==
    ASSUME TypeOK, Hand, JobRecords,
           MarkInactive \/ MarkDelivered \/ MarkFailed \/ MarkDeadWithLetter
    PROVE  /\ doing \in {"inactive", "markDelivered", "markFailed", "markDead"}
           /\ worker \in Jobs /\ InHand \in Deliveries
           /\ worker' = worker /\ doing' # "idle"
           /\ UNCHANGED <<jobs, posts, retries>>
           /\ \A d \in Deliveries : d # InHand => row'[d] = row[d]
           /\ row'[InHand] \in {row[InHand], "failed"} \union Terminal
           /\ letters \subseteq letters' /\ letters' \subseteq letters \union {InHand}
<1>1. CASE MarkInactive
  BY <1>1, AtWork DEF MarkInactive, Marks, Does, SetRow, TypeOK
<1>2. CASE MarkDelivered
  BY <1>2, AtWork DEF MarkDelivered, Marks, Does, SetRow, TypeOK, Terminal, Caught
<1>3. CASE MarkFailed
  BY <1>3, AtWork DEF MarkFailed, Marks, Does, SetRow, TypeOK
<1>4. CASE MarkDeadWithLetter
  BY <1>4, AtWork DEF MarkDeadWithLetter, Marks, Does, SetRow, WriteDead, TypeOK, Terminal
<1> QED
  BY <1>1, <1>2, <1>3, <1>4

\* No job and no row is ever taken away, and no attempt is unmade.
LEMMA NothingVanishes ==
    ASSUME TypeOK, Hand, JobRecords, Dispatching, [Next]_vars
    PROVE  /\ \A j \in Jobs : /\ jobs[j].state # "none" => jobs'[j].state # "none"
                              /\ jobs'[j].made >= jobs[j].made
           /\ \A d \in Deliveries : row[d] # "absent" => row'[d] # "absent"
           /\ \A d \in Deliveries : HasJob(d) => HasJob(d)'
<1> DEFINE Kept == /\ \A j \in Jobs : /\ jobs[j].state # "none" => jobs'[j].state # "none"
                                      /\ jobs'[j].made >= jobs[j].made
                   /\ \A d \in Deliveries : row[d] # "absent" => row'[d] # "absent"
<1>0. \A j \in Jobs : /\ jobs[j].made \in Nat
                      /\ jobs[j].state = "none" => jobs[j].made = 0
  BY DEF TypeOK, JobRecords, JobRecord
<1>1. ASSUME Elsewhere
      PROVE  Kept
  BY <1>0, <1>1, ElsewhereKeeps
<1>2. ASSUME NEW ep \in Endpoints, CreateDelivery(ep)
      PROVE  Kept
  <2>1. jobs' = jobs
    BY <1>2 DEF CreateDelivery
  <2>2. \A d \in Deliveries : row[d] # "absent" => row'[d] # "absent"
    BY <1>2 DEF CreateDelivery, Upsert, TypeOK
  <2> QED
    BY <1>0, <2>1, <2>2
<1>a. ASSUME NEW j \in Jobs, QueueAdd(j), row' = row
      PROVE  Kept
  <2> SUFFICES ASSUME NEW i \in Jobs
               PROVE  /\ jobs[i].state # "none" => jobs'[i].state # "none"
                      /\ jobs'[i].made >= jobs[i].made
    BY <1>a
  <2> QED
    BY <1>0, <1>a, QueueAddEffect DEF Waiting
<1>3. ASSUME NEW ep \in Endpoints, AddJob(ep)
      PROVE  Kept
  <2>1. MainJob(<<ep, Current>>) \in Jobs
    BY <1>3 DEF AddJob, Dispatching, MainJob, Jobs, Deliveries
  <2>2. row' = row /\ (jobs' = jobs \/ QueueAdd(MainJob(<<ep, Current>>)))
    BY <1>3 DEF AddJob
  <2> QED
    BY <1>0, <1>a, <2>1, <2>2
<1>4. ASSUME NEW j \in Jobs, Take(j) \/ Stalled(j)
      PROVE  Kept
  <2>1. /\ row' = row
        /\ \A i \in Jobs : i # j => jobs'[i] = jobs[i]
        /\ jobs'[j].made = jobs[j].made /\ jobs'[j].state # "none"
    BY <1>4 DEF Take, Stalled, AfterStall, TypeOK
  <2> QED
    BY <1>0, <2>1
<1>5. ASSUME Load \/ PostToMerchant \/ Crash
      PROVE  Kept
  BY <1>0, <1>5 DEF Load, PostToMerchant, Crash
<1>6. ASSUME MarkInactive \/ MarkDelivered \/ MarkFailed \/ MarkDeadWithLetter
      PROVE  Kept
  <2>1. /\ jobs' = jobs /\ InHand \in Deliveries
        /\ \A d \in Deliveries : d # InHand => row'[d] = row[d]
        /\ row'[InHand] \in {row[InHand], "failed", "delivered", "dead"}
    BY <1>6, MarkEffect DEF Terminal
  <2>2. \A d \in Deliveries : row[d] # "absent" => row'[d] # "absent"
    BY <2>1
  <2> QED
    BY <1>0, <2>1, <2>2
<1>7. ASSUME Complete \/ FailAttempt
      PROVE  Kept
  <2>1. worker \in Jobs
    BY <1>7, AtWork DEF Complete, FailAttempt
  <2>2. /\ row' = row
        /\ \A i \in Jobs : i # worker => jobs'[i] = jobs[i]
        /\ jobs'[worker].made \in {jobs[worker].made, jobs[worker].made + 1}
        /\ jobs'[worker].state # "none"
    BY <1>7, <2>1 DEF Complete, FailAttempt, AfterFailure, TypeOK
  <2> QED
    BY <1>0, <2>1, <2>2
<1>8. ASSUME NEW d \in Deliveries, RetryDelivery(d)
      PROVE  Kept
  <2>1. <<d, retries + 1>> \in Jobs
    BY <1>8 DEF RetryDelivery, TypeOK, Jobs
  <2>2. row' = row /\ (jobs' = jobs \/ QueueAdd(<<d, retries + 1>>))
    BY <1>8 DEF RetryDelivery
  <2> QED
    BY <1>0, <1>a, <2>1, <2>2
<1>9. Kept
  BY <1>1, <1>2, <1>3, <1>4, <1>5, <1>6, <1>7, <1>8, StepCases
<1>10. ASSUME NEW d \in Deliveries, HasJob(d)
       PROVE  HasJob(d)'
  BY <1>9, <1>10, DeliveryFacts DEF HasJob
<1> QED
  BY <1>9, <1>10

\* A row changes only when the dispatch under way opens it or the worker, who has its
\* delivery in hand, writes it.
LEMMA RowChanges ==
    ASSUME TypeOK, Hand, JobRecords, Dispatching, [Next]_vars,
           NEW d \in Deliveries, row'[d] # row[d]
    PROVE  \/ /\ row[d] = "absent" /\ row'[d] = "pending"
              /\ d[2] = Current /\ CreateDelivery(d[1])
           \/ /\ d = InHand /\ worker \in Jobs
              /\ MarkInactive \/ MarkDelivered \/ MarkFailed \/ MarkDeadWithLetter
<1>1. ASSUME NEW ep \in Endpoints, CreateDelivery(ep)
      PROVE  row[d] = "absent" /\ row'[d] = "pending" /\ d = <<ep, Current>>
  BY <1>1 DEF CreateDelivery, Upsert, TypeOK
<1>2. ASSUME MarkInactive \/ MarkDelivered \/ MarkFailed \/ MarkDeadWithLetter
      PROVE  d = InHand /\ worker \in Jobs
  BY <1>2, MarkEffect
<1>3. ~Elsewhere
  BY ElsewhereKeeps
<1>4. /\ \A ep \in Endpoints : ~AddJob(ep)
      /\ \A j \in Jobs : ~Take(j) /\ ~Stalled(j)
      /\ \A e \in Deliveries : ~RetryDelivery(e)
  BY DEF AddJob, Take, Stalled, RetryDelivery
<1>5. ~Load /\ ~PostToMerchant /\ ~Complete /\ ~FailAttempt /\ ~Crash
  BY DEF Load, PostToMerchant, Complete, FailAttempt, Crash
<1> QED
  BY <1>1, <1>2, <1>3, <1>4, <1>5, StepCases

-----------------------------------------------------------------------------
(* The inductive invariant, part by part. *)

LEMMA JobRecordsStep ==
    TypeOK /\ Consistent /\ TypeOK' /\ [Next]_vars => JobRecords'
<1> SUFFICES ASSUME TypeOK, Consistent, TypeOK', [Next]_vars, NEW i \in Jobs
             PROVE  JobRecord(i)'
  BY DEF JobRecords
<1> USE DEF Consistent
<1>1. /\ JobRecord(i)
      /\ jobs[i].made \in 0..Attempts /\ jobs[i].stalls \in 0..1 /\ posts[i] \in Nat
      /\ DeliveryOf(i) \in Deliveries
  BY JobFacts DEF JobRecords, TypeOK
<1>2. row[DeliveryOf(i)] # "absent" => row'[DeliveryOf(i)] # "absent"
  BY <1>1, NothingVanishes
\* A step that keeps the record and puts no new call in the way of it.
<1>3. ASSUME jobs'[i] = jobs[i], posts'[i] = posts[i], BeforeCall(i)' => BeforeCall(i)
      PROVE  JobRecord(i)'
  BY <1>1, <1>2, <1>3 DEF JobRecord
<1>4. CASE Elsewhere
  <2>1. UNCHANGED <<jobs, posts, worker, doing>>
    BY <1>4, ElsewhereKeeps
  <2> QED
    BY <2>1, <1>3 DEF BeforeCall
<1>5. ASSUME NEW ep \in Endpoints, CreateDelivery(ep)
      PROVE  JobRecord(i)'
  BY <1>5, <1>3 DEF CreateDelivery, BeforeCall
<1>6. ASSUME NEW ep \in Endpoints, AddJob(ep)
      PROVE  JobRecord(i)'
  <2> DEFINE j == MainJob(<<ep, Current>>)
  <2>1. /\ j \in Jobs /\ DeliveryOf(j) = <<ep, Current>>
        /\ row[<<ep, Current>>] # "absent"
        /\ UNCHANGED <<row, posts, worker, doing>>
    BY <1>6 DEF AddJob, Dispatching, MainJob, Jobs, Deliveries, DeliveryOf
  <2>2. CASE jobs' = jobs \/ i # j
    <3>1. jobs'[i] = jobs[i]
      BY <1>6, <2>1, <2>2, QueueAddEffect DEF AddJob
    <3> QED
      BY <2>1, <3>1, <1>3 DEF BeforeCall
  <2>3. CASE jobs' # jobs /\ i = j
    <3>1. jobs[i].state = "none" /\ jobs'[i] = Waiting
      BY <1>6, <2>1, <2>3, QueueAddEffect DEF AddJob
    <3> QED
      BY <1>1, <2>1, <2>3, <3>1 DEF JobRecord, Waiting
  <2> QED
    BY <2>2, <2>3
<1>7. ASSUME NEW j \in Jobs, Take(j)
      PROVE  JobRecord(i)'
  <2>1. CASE i # j
    BY <1>7, <2>1, <1>3 DEF Take, BeforeCall
  <2>2. CASE i = j
    <3>1. /\ jobs[i].state = "waiting"
          /\ jobs'[i].state = "active"
          /\ jobs'[i].made = jobs[i].made /\ jobs'[i].stalls = jobs[i].stalls
          /\ posts' = posts /\ row' = row
      BY <1>7, <2>2 DEF Take, TypeOK
    <3> QED
      BY <1>1, <3>1 DEF JobRecord
  <2> QED
    BY <2>1, <2>2
<1>8. ASSUME NEW j \in Jobs, Stalled(j)
      PROVE  JobRecord(i)'
  <2>1. CASE i # j
    BY <1>8, <2>1, <1>3 DEF Stalled, BeforeCall
  <2>2. CASE i = j
    <3>1. /\ jobs[i].state = "active"
          /\ jobs'[i] = AfterStall(jobs[i])
          /\ posts' = posts /\ row' = row
      BY <1>8, <2>2 DEF Stalled, TypeOK
    <3> QED
      BY <1>1, <3>1 DEF JobRecord, AfterStall
  <2> QED
    BY <2>1, <2>2
<1>9. CASE Load \/ MarkInactive \/ MarkDelivered \/ MarkFailed \/ MarkDeadWithLetter
  <2>1. jobs' = jobs /\ posts' = posts /\ worker' = worker
    BY <1>9 DEF Load, MarkInactive, MarkDelivered, MarkFailed, MarkDeadWithLetter, Marks,
                Does
  <2>2. BeforeCall(i)' => BeforeCall(i)
    BY <1>9, <2>1 DEF Load, MarkInactive, MarkDelivered, MarkFailed, MarkDeadWithLetter,
                      Marks, Does, BeforeCall, Caught
  <2> QED
    BY <2>1, <2>2, <1>3
<1>10. CASE PostToMerchant
  <2>1. /\ worker \in Jobs /\ doing = "post" /\ jobs' = jobs /\ row' = row
        /\ worker' = worker
        /\ doing' \in {"markDelivered", "markDead", "markFailed"}
        /\ posts' = [posts EXCEPT ![worker] = @ + 1] \/ posts' = posts
    BY <1>10, AtWork DEF PostToMerchant, Does, Caught
  <2>2. CASE i # worker
    BY <2>1, <2>2, <1>3 DEF BeforeCall, TypeOK
  <2>3. CASE i = worker
    <3>1. jobs[i].state = "active" /\ BeforeCall(i) /\ ~BeforeCall(i)'
      BY <2>1, <2>3, AtWork DEF BeforeCall
    <3>2. posts'[i] \in {posts[i], posts[i] + 1}
      BY <2>1, <2>3 DEF TypeOK
    <3> QED
      BY <1>1, <2>1, <3>1, <3>2 DEF JobRecord
  <2> QED
    BY <2>2, <2>3
<1>11. CASE Complete \/ FailAttempt
  <2>1. /\ worker \in Jobs /\ jobs[worker].state = "active"
        /\ posts' = posts /\ row' = row /\ worker' = NoJob
        /\ doing \in {"complete", "fail"}
    BY <1>11, AtWork DEF Complete, FailAttempt, Rest
  <2>2. CASE i # worker
    <3>1. jobs'[i] = jobs[i]
      BY <1>11, <2>1, <2>2 DEF Complete, FailAttempt, TypeOK
    <3> QED
      BY <2>1, <3>1, <1>3, NoJobIsNone DEF BeforeCall
  <2>3. CASE i = worker /\ Complete
    <3>1. /\ jobs'[i].state = "completed"
          /\ jobs'[i].made = jobs[i].made /\ jobs'[i].stalls = jobs[i].stalls
      BY <2>1, <2>3 DEF Complete, TypeOK
    <3> QED
      BY <1>1, <2>1, <2>3, <3>1 DEF JobRecord, BeforeCall
  <2>4. CASE i = worker /\ FailAttempt
    <3>1. jobs'[i] = AfterFailure(jobs[i])
      BY <2>1, <2>4 DEF FailAttempt, TypeOK
    <3>2. ~BeforeCall(i)
      BY <2>1 DEF BeforeCall
    <3> QED
      BY <1>1, <2>1, <2>4, <3>1, <3>2 DEF JobRecord, AfterFailure, IsLastAttempt
  <2> QED
    BY <1>11, <2>2, <2>3, <2>4
<1>12. ASSUME NEW d \in Deliveries, RetryDelivery(d)
       PROVE  JobRecord(i)'
  <2> DEFINE j == <<d, retries + 1>>
  <2>1. /\ j \in Jobs /\ DeliveryOf(j) = d
        /\ row[d] # "absent"
        /\ UNCHANGED <<row, posts, worker, doing>>
    BY <1>12 DEF RetryDelivery, TypeOK, Jobs, DeliveryOf
  <2>2. CASE jobs' = jobs \/ i # j
    <3>1. jobs'[i] = jobs[i]
      BY <1>12, <2>1, <2>2, QueueAddEffect DEF RetryDelivery
    <3> QED
      BY <2>1, <3>1, <1>3 DEF BeforeCall
  <2>3. CASE jobs' # jobs /\ i = j
    <3>1. jobs[i].state = "none" /\ jobs'[i] = Waiting
      BY <1>12, <2>1, <2>3, QueueAddEffect DEF RetryDelivery
    <3> QED
      BY <1>1, <2>1, <2>3, <3>1 DEF JobRecord, Waiting
  <2> QED
    BY <2>2, <2>3
<1>13. CASE Crash
  <2>1. UNCHANGED <<jobs, posts, row>> /\ worker' = NoJob
    BY <1>13 DEF Crash, Rest
  <2> QED
    BY <2>1, <1>3, NoJobIsNone DEF BeforeCall
<1> QED
  BY <1>4, <1>5, <1>6, <1>7, <1>8, <1>9, <1>10, <1>11, <1>12, <1>13, StepCases

\* A step of somebody else, that leaves the job in hand alone, decides nothing for the
\* worker.
LEMMA SameHand ==
    ASSUME TypeOK, Hand, UNCHANGED <<worker, doing>>,
           worker # NoJob => jobs'[worker] = jobs[worker],
           \A ep \in Endpoints : edits[ep] > 0 => edits'[ep] > 0,
           \A d \in Deliveries : row[d] \in Terminal => row'[d] \in Terminal
    PROVE  Hand'
<1>1. worker # NoJob => worker \in Jobs /\ InHand \in Deliveries /\ InHand[1] \in Endpoints
  BY JobFacts, DeliveryFacts DEF TypeOK, InHand
<1> QED
  BY <1>1 DEF Hand, InHand, DeliveryOf

LEMMA HandStep ==
    TypeOK /\ Consistent /\ TypeOK' /\ [Next]_vars => Hand'
<1> SUFFICES ASSUME TypeOK, Consistent, TypeOK', [Next]_vars
             PROVE  Hand'
  OBVIOUS
<1> USE DEF Consistent
<1>0. worker # NoJob => worker \in Jobs /\ jobs[worker].state = "active" /\ InHand \in Deliveries
  BY JobFacts DEF TypeOK, Hand, InHand
<1>1. CASE Elsewhere
  <2>1. \A ep \in Endpoints : edits[ep] > 0 => edits'[ep] > 0
    BY <1>1 DEF Elsewhere, Register, Update, Remove, Produce, SkipMessage, Dispatch,
                Settle, CommitOffset, Rejoin, vars, TypeOK
  <2> QED
    BY <1>1, <2>1, ElsewhereKeeps, SameHand
<1>2. ASSUME NEW ep \in Endpoints, CreateDelivery(ep)
      PROVE  Hand'
  <2>1. \A d \in Deliveries : row[d] \in Terminal => row'[d] \in Terminal
    BY <1>2 DEF CreateDelivery, Upsert, TypeOK, Terminal
  <2> QED
    BY <1>2, <2>1, SameHand DEF CreateDelivery
<1>3. ASSUME NEW j \in Jobs, QueueAdd(j), UNCHANGED <<worker, doing, edits, row>>
      PROVE  Hand'
  <2>1. worker # NoJob => jobs'[worker] = jobs[worker]
    BY <1>0, <1>3, QueueAddEffect
  <2> QED
    BY <1>3, <2>1, SameHand
<1>4. ASSUME NEW ep \in Endpoints, AddJob(ep)
      PROVE  Hand'
  <2>1. MainJob(<<ep, Current>>) \in Jobs
    BY <1>4 DEF AddJob, Dispatching, MainJob, Jobs, Deliveries
  <2>2. /\ UNCHANGED <<worker, doing, edits, row>>
        /\ jobs' = jobs \/ QueueAdd(MainJob(<<ep, Current>>))
    BY <1>4 DEF AddJob
  <2> QED
    BY <1>3, <2>1, <2>2, SameHand
<1>5. ASSUME NEW j \in Jobs, Take(j)
      PROVE  Hand'
  <2>1. jobs'[j].state = "active" /\ worker' = j /\ doing' = "load" /\ j # NoJob
    BY <1>5, NoJobIsNone DEF Take, TypeOK
  <2> QED
    BY <2>1 DEF Hand
<1>6. ASSUME NEW j \in Jobs, Stalled(j)
      PROVE  Hand'
  <2>1. worker # NoJob => jobs'[worker] = jobs[worker]
    BY <1>0, <1>6 DEF Stalled, TypeOK
  <2> QED
    BY <1>6, <2>1, SameHand DEF Stalled
<1>7. CASE Load
  <2>1. worker \in Jobs /\ InHand[1] \in Endpoints /\ worker # NoJob
    BY <1>7, AtWork, DeliveryFacts, NoJobIsNone DEF Load
  <2>2. doing' = "inactive" => edits[InHand[1]] > 0
    BY <1>7, <2>1 DEF Load, Does, Dispatching
  <2>3. /\ worker' = worker /\ jobs' = jobs /\ edits' = edits
        /\ doing' \in {"inactive", "post", "fail"}
    BY <1>7 DEF Load, Does
  <2> QED
    BY <1>0, <2>1, <2>2, <2>3 DEF Hand, InHand
\* Catching a failure takes the last attempt to the dead letter.
<1>8. doing # "idle" /\ Caught = "markDead" => jobs[worker].made >= Attempts - 1
  BY AtWork DEF Caught, IsLastAttempt
<1>9. CASE PostToMerchant
  <2>1. worker \in Jobs /\ worker # NoJob /\ doing # "idle"
    BY <1>9, AtWork, NoJobIsNone DEF PostToMerchant
  <2>2. /\ worker' = worker /\ jobs' = jobs
        /\ doing' \in {"markDelivered", "markDead", "markFailed"}
        /\ doing' = "markDead" => Caught = "markDead"
    BY <1>9 DEF PostToMerchant, Does, Caught
  <2> QED
    BY <1>0, <1>8, <2>1, <2>2 DEF Hand, InHand
<1>10. CASE MarkInactive \/ MarkDelivered \/ MarkFailed \/ MarkDeadWithLetter
  <2>1. /\ worker \in Jobs /\ worker # NoJob /\ worker' = worker /\ InHand \in Deliveries
        /\ doing # "idle" /\ doing' \notin {"idle", "inactive"} /\ jobs' = jobs /\ edits' = edits
    BY <1>10, MarkEffect, NoJobIsNone
    DEF MarkInactive, MarkDelivered, MarkFailed, MarkDeadWithLetter, Marks, Does, Caught
  <2>2. doing' = "markDead" => Caught = "markDead"
    BY <1>10 DEF MarkInactive, MarkDelivered, MarkFailed, MarkDeadWithLetter, Marks, Does
  <2>3. doing' = "complete" => edits[InHand[1]] > 0 \/ row'[InHand] \in Terminal
    <3>1. CASE MarkInactive
      BY <3>1 DEF MarkInactive, Hand
    <3>2. CASE MarkDelivered
      BY <3>2, <2>1 DEF MarkDelivered, Marks, Does, SetRow, Terminal, TypeOK, Caught
    <3>3. CASE MarkFailed
      BY <3>3 DEF MarkFailed, Marks, Does
    <3>4. CASE MarkDeadWithLetter
      BY <3>4, <2>1 DEF MarkDeadWithLetter, Marks, Does, WriteDead, SetRow, Terminal, TypeOK
    <3> QED
      BY <1>10, <3>1, <3>2, <3>3, <3>4
  <2> QED
    BY <1>0, <1>8, <2>1, <2>2, <2>3 DEF Hand, InHand
<1>11. CASE Complete \/ FailAttempt \/ Crash
  BY <1>11 DEF Complete, FailAttempt, Crash, Rest, Hand
<1>12. ASSUME NEW d \in Deliveries, RetryDelivery(d)
       PROVE  Hand'
  <2>1. <<d, retries + 1>> \in Jobs
    BY <1>12 DEF RetryDelivery, TypeOK, Jobs
  <2>2. /\ UNCHANGED <<worker, doing, edits, row>>
        /\ jobs' = jobs \/ QueueAdd(<<d, retries + 1>>)
    BY <1>12 DEF RetryDelivery
  <2> QED
    BY <1>3, <2>1, <2>2, SameHand
<1> QED
  BY <1>1, <1>2, <1>4, <1>5, <1>6, <1>7, <1>9, <1>10, <1>11, <1>12, StepCases

LEMMA RowsStep ==
    TypeOK /\ Consistent /\ TypeOK' /\ [Next]_vars => Rows'
<1> SUFFICES ASSUME TypeOK, Consistent, TypeOK', [Next]_vars
             PROVE  Rows'
  OBVIOUS
<1> USE DEF Consistent
\* The worker's job is one of the delivery in hand.
<1>0. worker \in Jobs => jobs[worker].state = "active" /\ HasJob(InHand) /\ InHand \in Deliveries
  BY JobFacts, NoJobIsNone DEF Hand, HasJob, InHand
<1>1. ASSUME NEW d \in Deliveries, row'[d] \in Terminal \union {"failed"}
      PROVE  HasJob(d)'
  <2>1. CASE row'[d] = row[d]
    BY <1>1, <2>1, NothingVanishes DEF Rows
  <2>2. CASE row'[d] # row[d]
    BY <1>0, <1>1, <2>2, RowChanges, NothingVanishes DEF Terminal
  <2> QED
    BY <2>1, <2>2
<1>2. letters \subseteq letters'
  <2>1. CASE MarkInactive \/ MarkDelivered \/ MarkFailed \/ MarkDeadWithLetter
    BY <2>1, MarkEffect
  <2>2. CASE Elsewhere
    BY <2>2, ElsewhereKeeps
  <2> QED
    BY <2>1, <2>2, StepCases
    DEF CreateDelivery, AddJob, Take, Stalled, Load, PostToMerchant, Complete, FailAttempt,
        RetryDelivery, Crash
<1>3. ASSUME NEW d \in Deliveries, row'[d] = "dead"
      PROVE  d \in letters'
  <2>1. CASE row'[d] = row[d]
    BY <1>2, <1>3, <2>1 DEF Rows, LettersAreEarned
  <2>2. CASE row'[d] # row[d]
    <3>1. d = InHand /\ MarkDeadWithLetter
      BY <1>3, <2>2, RowChanges
      DEF MarkInactive, MarkDelivered, MarkFailed, Marks, SetRow, TypeOK
    <3> QED
      BY <2>2, <3>1 DEF MarkDeadWithLetter, Marks, WriteDead
  <2> QED
    BY <2>1, <2>2
<1>4. ASSUME NEW d \in letters'
      PROVE  \E n \in 0..MaxRetries : jobs'[<<d, n>>].made >= Attempts - 1
  <2>0. \A j \in Jobs : jobs[j].made \in Nat /\ jobs'[j].made \in Nat /\ jobs'[j].made >= jobs[j].made
    BY NothingVanishes DEF TypeOK
  <2>1. CASE d \in letters
    <3>1. PICK n \in 0..MaxRetries : jobs[<<d, n>>].made >= Attempts - 1
      BY <2>1 DEF Rows, LettersAreEarned
    <3>2. <<d, n>> \in Jobs
      BY <2>1, DeliveryFacts DEF TypeOK
    <3> QED
      BY <2>0, <3>1, <3>2
  <2>2. CASE d \notin letters
    <3>1. MarkDeadWithLetter
      <4>1. ~Elsewhere
        BY <1>4, <2>2, ElsewhereKeeps
      <4>2. ~MarkInactive /\ ~MarkDelivered /\ ~MarkFailed
        BY <1>4, <2>2 DEF MarkInactive, MarkDelivered, MarkFailed, Marks
      <4>3. /\ \A ep \in Endpoints : ~CreateDelivery(ep) /\ ~AddJob(ep)
            /\ \A j \in Jobs : ~Take(j) /\ ~Stalled(j)
            /\ \A e \in Deliveries : ~RetryDelivery(e)
        BY <1>4, <2>2 DEF CreateDelivery, AddJob, Take, Stalled, RetryDelivery
      <4>4. ~Load /\ ~PostToMerchant /\ ~Complete /\ ~FailAttempt /\ ~Crash
        BY <1>4, <2>2 DEF Load, PostToMerchant, Complete, FailAttempt, Crash
      <4> QED
        BY <4>1, <4>2, <4>3, <4>4, StepCases
    <3>2. d = InHand /\ worker \in Jobs
      BY <1>4, <2>2, <3>1, MarkEffect
    <3>3. jobs[worker].made >= Attempts - 1 /\ worker = <<d, worker[2]>> /\ worker[2] \in 0..MaxRetries
      BY <3>1, <3>2, JobFacts DEF MarkDeadWithLetter, Hand, InHand
    <3> QED
      BY <2>0, <3>2, <3>3
  <2> QED
    BY <2>1, <2>2
<1>5. ASSUME NEW d \in Deliveries,
             jobs'[MainJob(d)].state = "completed",
             \A n \in 1..MaxRetries : jobs'[<<d, n>>].state = "none",
             edits'[d[1]] = 0
      PROVE  row'[d] \in Terminal
  <2>1. \A n \in 1..MaxRetries : jobs[<<d, n>>].state = "none"
    <3>1. \A n \in 1..MaxRetries : <<d, n>> \in Jobs
      BY DeliveryFacts
    <3> QED
      BY <1>5, <3>1, NothingVanishes
  <2>2. edits[d[1]] = 0
    <3>1. CASE edits' = edits
      BY <1>5, <3>1
    <3>2. ASSUME NEW ep \in Endpoints, Update(ep) \/ Remove(ep)
          PROVE  edits[d[1]] = 0
      BY <1>5, <3>2, DeliveryFacts DEF Update, Remove, TypeOK
    <3> QED
      BY <3>1, <3>2
      DEF Next, DispatchStep, WorkerStep, Register, Produce, SkipMessage, Dispatch, Settle,
          CreateDelivery, AddJob, CommitOffset, Take, Load, MarkInactive, PostToMerchant,
          MarkDelivered, MarkFailed, MarkDeadWithLetter, Complete, FailAttempt, Stalled,
          RetryDelivery, Rejoin, Crash, vars
  <2>3. MainJob(d) \in Jobs /\ DeliveryOf(MainJob(d)) = d
    BY DeliveryFacts
  <2>4. CASE jobs[MainJob(d)].state = "completed"
    <3>1. row[d] \in Terminal
      BY <2>1, <2>2, <2>4 DEF Rows, CompletedMeansDecided
    <3>2. ~(worker \in Jobs /\ InHand = d)
      <4> SUFFICES ASSUME worker \in Jobs, InHand = d PROVE FALSE
        OBVIOUS
      <4>1. worker = <<d, worker[2]>> /\ worker[2] \in 0..MaxRetries /\ jobs[worker].state = "active"
        BY <1>0, JobFacts DEF InHand
      <4>2. worker[2] = 0
        BY <2>1, <4>1
      <4> QED
        BY <2>4, <4>1, <4>2 DEF MainJob
    <3> QED
      BY <3>1, <3>2, RowChanges DEF Terminal
  <2>5. CASE jobs[MainJob(d)].state # "completed"
    <3>1. Complete /\ worker = MainJob(d)
      <4>1. CASE Elsewhere
        BY <1>5, <2>5, <4>1, ElsewhereKeeps
      <4>2. ASSUME NEW j \in Jobs, QueueAdd(j)
            PROVE  FALSE
        BY <1>5, <2>3, <2>5, <4>2, QueueAddEffect DEF Waiting
      <4>3. ASSUME NEW ep \in Endpoints, AddJob(ep)
            PROVE  FALSE
        <5>1. MainJob(<<ep, Current>>) \in Jobs
          BY <4>3 DEF AddJob, Dispatching, MainJob, Jobs, Deliveries
        <5> QED
          BY <1>5, <2>5, <4>2, <4>3, <5>1 DEF AddJob
      <4>4. ASSUME NEW e \in Deliveries, RetryDelivery(e)
            PROVE  FALSE
        <5>1. <<e, retries + 1>> \in Jobs
          BY <4>4 DEF RetryDelivery, TypeOK, Jobs
        <5> QED
          BY <1>5, <2>5, <4>2, <4>4, <5>1 DEF RetryDelivery
      <4>5. ASSUME NEW j \in Jobs, Take(j) \/ Stalled(j)
            PROVE  FALSE
        <5>1. /\ \A i \in Jobs : i # j => jobs'[i] = jobs[i]
              /\ jobs'[j].state # "completed"
          BY <4>5 DEF Take, Stalled, AfterStall, TypeOK
        <5> QED
          BY <1>5, <2>3, <2>5, <5>1
      <4>6. ~(MarkInactive \/ MarkDelivered \/ MarkFailed \/ MarkDeadWithLetter)
        BY <1>5, <2>5, MarkEffect
      <4>7. /\ ~Load /\ ~PostToMerchant /\ ~Crash
            /\ \A ep \in Endpoints : ~CreateDelivery(ep)
        BY <1>5, <2>5 DEF Load, PostToMerchant, Crash, CreateDelivery
      <4>8. CASE FailAttempt
        BY <1>5, <2>3, <2>5, <4>8, AtWork DEF FailAttempt, AfterFailure, TypeOK
      <4>9. CASE Complete
        BY <1>5, <2>3, <2>5, <4>9 DEF Complete, TypeOK
      <4> QED
        BY <4>1, <4>3, <4>4, <4>5, <4>6, <4>7, <4>8, <4>9, StepCases
    <3>2. InHand = d /\ doing = "complete" /\ row' = row
      BY <2>3, <3>1 DEF InHand, Complete
    <3> QED
      BY <2>2, <3>2 DEF Hand
  <2> QED
    BY <2>4, <2>5
<1> QED
  BY <1>1, <1>3, <1>4, <1>5 DEF Rows, LettersAreEarned, CompletedMeansDecided

\* The topic only grows.
LEMMA LogGrows ==
    ASSUME TypeOK, [Next]_vars
    PROVE  /\ Len(log) <= Len(log')
           /\ \A i \in 1..Len(log) : log'[i] = log[i]
<1>1. ASSUME NEW m \in Events \union {Unusable}, Produce(m)
      PROVE  Len(log') = Len(log) + 1 /\ \A i \in 1..Len(log) : log'[i] = log[i]
  BY <1>1 DEF Produce, TypeOK
<1>2. CASE log' = log
  BY <1>2 DEF TypeOK
<1>3. (\E m \in Events \union {Unusable} : Produce(m)) \/ log' = log
  BY DEF Next, DispatchStep, WorkerStep, Register, Update, Remove, SkipMessage, Dispatch, Settle,
      CreateDelivery, AddJob, CommitOffset, Take, Load, MarkInactive, PostToMerchant,
      MarkDelivered, MarkFailed, MarkDeadWithLetter, Complete, FailAttempt, Stalled,
      RetryDelivery, Rejoin, Crash, vars
<1>4. Len(log) \in Nat
  BY DEF TypeOK
<1> QED
  BY <1>1, <1>2, <1>3, <1>4

\* The steps of the worker and of the HTTP side that touch neither the consumer nor the
\* endpoints.
Backstage ==
    /\ UNCHANGED <<endpoint, edits, log, committed, start, next, busy, todo>>
    /\ \A e \in Deliveries : row[e] = "absent" => row'[e] = "absent"

LEMMA BackstageSteps ==
    ASSUME TypeOK, Consistent, [Next]_vars
    PROVE  \/ Backstage
           \/ \E ep \in Endpoints : Register(ep) \/ Update(ep) \/ Remove(ep)
           \/ \E m \in Events \union {Unusable} : Produce(m)
           \/ SkipMessage \/ Dispatch \/ Settle \/ CommitOffset \/ Rejoin \/ Crash
           \/ \E ep \in Endpoints : CreateDelivery(ep) \/ AddJob(ep)
<1> USE DEF Consistent
<1>1. CASE MarkInactive \/ MarkDelivered \/ MarkFailed \/ MarkDeadWithLetter
  <2>1. UNCHANGED <<endpoint, edits, log, committed, start, next, busy, todo>>
    BY <1>1 DEF MarkInactive, MarkDelivered, MarkFailed, MarkDeadWithLetter
  <2>2. row[InHand] # "absent" /\ doing # "idle"
    BY <1>1, AtWork DEF MarkInactive, MarkDelivered, MarkFailed, MarkDeadWithLetter
  <2>3. \A e \in Deliveries : e # InHand => row'[e] = row[e]
    BY <1>1, MarkEffect
  <2> QED
    BY <2>1, <2>2, <2>3 DEF Backstage
<1>2. CASE \/ \E j \in Jobs : Take(j) \/ Stalled(j)
           \/ Load \/ PostToMerchant \/ Complete \/ FailAttempt
           \/ \E d \in Deliveries : RetryDelivery(d)
           \/ UNCHANGED vars
  <2>1. UNCHANGED <<endpoint, edits, log, committed, start, next, busy, todo, row>>
    BY <1>2 DEF Take, Stalled, Load, PostToMerchant, Complete, FailAttempt, RetryDelivery, vars
  <2> QED
    BY <2>1 DEF Backstage
<1> QED
  BY <1>1, <1>2 DEF Next, DispatchStep, WorkerStep

\* What dispatching says of one endpoint.
Serving(ep) ==
    /\ endpoint[ep] = "inactive" => edits[ep] > 0
    /\ todo[ep] \in {"add", "ok"} => row[<<ep, Current>>] # "absent"
    /\ todo[ep] = "ok" => HasJob(<<ep, Current>>)
    /\ edits[ep] = 0 /\ (todo[ep] # "none" \/ \E e \in Events : row[<<ep, e>>] # "absent")
         => endpoint[ep] = "subscribed"
    /\ edits[ep] = 0 /\ busy /\ todo[ep] = "none"
         => \A e \in Events : row[<<ep, e>>] = "absent"

LEMMA DispatchingStep ==
    TypeOK /\ Consistent /\ TypeOK' /\ [Next]_vars => Dispatching'
<1> SUFFICES ASSUME TypeOK, Consistent, TypeOK', [Next]_vars
             PROVE  Dispatching'
  OBVIOUS
<1> USE DEF Consistent
<1>0. \A ep \in Endpoints : Serving(ep)
  BY DEF Dispatching, Serving
<1>1. ASSUME NEW ep \in Endpoints, NEW e \in Events, row[<<ep, e>>] # "absent"
      PROVE  row'[<<ep, e>>] # "absent"
  BY <1>1, NothingVanishes DEF Deliveries
\* A terminal row has a job.
<1>2. ASSUME NEW d \in Deliveries, HasJob(d)
      PROVE  HasJob(d)'
  BY <1>2, NothingVanishes
\* While the dispatch under way goes on, it is about the same message.
<1>3. ASSUME busy, next' = next
      PROVE  next' < Len(log') /\ Current' = Current /\ Current \in Events
  BY <1>3, LogGrows DEF Dispatching, Current, TypeOK
<1>a. busy => \A ep \in Endpoints : <<ep, Current>> \in Deliveries
  BY DEF Dispatching, Deliveries
<1>4. ASSUME Backstage
      PROVE  Dispatching'
  <2>1. \A ep \in Endpoints : Serving(ep)'
    <3> SUFFICES ASSUME NEW ep \in Endpoints PROVE Serving(ep)'
      OBVIOUS
    <3>1. \A e \in Events : row'[<<ep, e>>] # "absent" <=> row[<<ep, e>>] # "absent"
      BY <1>1, <1>4 DEF Backstage, Deliveries
    <3>2. ~busy => todo[ep] = "none"
      BY DEF Dispatching
    <3> QED
      BY <1>0, <1>2, <1>3, <1>a, <1>4, <3>1, <3>2 DEF Backstage, Serving
  <2> QED
    BY <1>3, <1>4, <2>1 DEF Backstage, Dispatching, Serving
<1>5. ASSUME NEW p \in Endpoints, Register(p) \/ Update(p) \/ Remove(p)
      PROVE  Dispatching'
  <2>1. /\ UNCHANGED <<row, jobs, log, committed, start, next, busy, todo>>
        /\ \A ep \in Endpoints : ep # p => endpoint'[ep] = endpoint[ep] /\ edits'[ep] = edits[ep]
        /\ \/ endpoint[p] = "new" /\ endpoint'[p] # "inactive" /\ edits'[p] = edits[p]
           \/ edits'[p] > 0
    BY <1>5 DEF Register, Update, Remove, TypeOK
  <2>2. \A ep \in Endpoints : Serving(ep)'
    <3> SUFFICES ASSUME NEW ep \in Endpoints PROVE Serving(ep)'
      OBVIOUS
    <3>1. HasJob(<<ep, Current>>)' <=> HasJob(<<ep, Current>>)
      BY <2>1 DEF HasJob, Current
    <3>2. Current' = Current
      BY <2>1 DEF Current
    <3> QED
      BY <1>0, <2>1, <3>1, <3>2 DEF Serving
  <2> QED
    BY <1>3, <2>1, <2>2 DEF Dispatching, Serving
<1>6. ASSUME NEW m \in Events \union {Unusable}, Produce(m)
      PROVE  Dispatching'
  <2>1. UNCHANGED <<endpoint, edits, row, jobs, committed, start, next, busy, todo>>
    BY <1>6 DEF Produce
  <2>2. \A ep \in Endpoints : Serving(ep)'
    <3> SUFFICES ASSUME NEW ep \in Endpoints PROVE Serving(ep)'
      OBVIOUS
    <3>1. ~busy => todo[ep] = "none"
      BY DEF Dispatching
    <3> QED
      BY <1>0, <1>2, <1>3, <1>a, <2>1, <3>1 DEF Serving
  <2> QED
    BY <1>3, <2>1, <2>2 DEF Dispatching, Serving
\* The consumer is between two messages after the step.
<1>7. ASSUME ~busy', \A ep \in Endpoints : todo'[ep] = "none",
             UNCHANGED <<endpoint, edits, row>>,
             committed' > 0 => start' < committed'
      PROVE  Dispatching'
  <2>1. \A ep \in Endpoints : Serving(ep)'
    BY <1>0, <1>7 DEF Serving
  <2> QED
    BY <1>7, <2>1 DEF Dispatching, Serving
<1>8. CASE SkipMessage \/ Settle
  BY <1>7, <1>8 DEF SkipMessage, Settle, Dispatching
<1>9. CASE CommitOffset
  <2>1. UNCHANGED <<endpoint, edits, row, jobs, log, next, busy, todo, start>>
        /\ start' < committed'
    BY <1>9 DEF CommitOffset
  <2>2. \A ep \in Endpoints : Serving(ep)'
    BY <1>0, <2>1 DEF Serving, Current, HasJob
  <2> QED
    BY <1>3, <2>1, <2>2 DEF Dispatching, Serving
<1>10. CASE Rejoin \/ Crash
  <2>1. committed' > 0 => start' < committed'
    BY <1>10 DEF Rejoin, Crash, Rejoins, Resume, Dispatching, TypeOK
  <2> QED
    BY <1>7, <1>10, <2>1 DEF Rejoin, Crash, Rejoins
<1>11. CASE Dispatch
  <2>1. UNCHANGED <<endpoint, edits, row, log, next, committed, start>>
        /\ next < Len(log) /\ Current \in Events /\ Current' = Current /\ busy'
    BY <1>11 DEF Dispatch, Current
  <2>2. ASSUME NEW ep \in Endpoints
        PROVE  Serving(ep)'
    <3>1. todo'[ep] = IF endpoint[ep] = "subscribed" THEN "create" ELSE "none"
      BY <1>11 DEF Dispatch, FindActiveForEvent
    <3> QED
      BY <1>0, <2>1, <3>1 DEF Serving
  <2> QED
    BY <2>1, <2>2 DEF Dispatching, Serving
<1>12. ASSUME NEW p \in Endpoints, CreateDelivery(p)
       PROVE  Dispatching'
  <2>0. busy /\ todo[p] = "create"
    BY <1>12 DEF CreateDelivery, Dispatching
  <2> DEFINE d == <<p, Current>>
  <2>1. d \in Deliveries
    BY <2>0, <1>a
  <2>2. /\ UNCHANGED <<endpoint, edits, jobs, log, next, committed, start, busy>>
        /\ Current' = Current
        /\ \A ep \in Endpoints : ep # p => todo'[ep] = todo[ep]
        /\ \A e \in Deliveries : e # d => row'[e] = row[e]
        /\ todo'[p] \in {"add", "ok", "rejected"}
    BY <1>12 DEF CreateDelivery, Goes, Upsert, TypeOK, Current
  <2>3. todo'[p] \in {"add", "ok"} => row'[d] # "absent"
    BY <1>12, <2>1 DEF CreateDelivery, Goes, Upsert, TypeOK, Terminal
  <2>4. todo'[p] = "ok" => HasJob(d)
    BY <1>12, <2>1 DEF CreateDelivery, Goes, TypeOK, Rows
  <2>5. \A e \in Deliveries : HasJob(e)' <=> HasJob(e)
    BY <2>2 DEF HasJob
  <2>6. ASSUME NEW ep \in Endpoints
        PROVE  Serving(ep)'
    <3>1. CASE ep # p
      <4>1. \A e \in Events : row'[<<ep, e>>] = row[<<ep, e>>]
        BY <2>2, <3>1 DEF Deliveries
      <4> QED
        BY <1>0, <1>3, <2>0, <2>2, <2>5, <1>a, <3>1, <4>1 DEF Serving
    <3>2. CASE ep = p
      BY <1>0, <1>3, <2>0, <2>1, <2>2, <2>3, <2>4, <2>5, <3>2 DEF Serving
    <3> QED
      BY <3>1, <3>2
  <2> QED
    BY <1>3, <2>0, <2>2, <2>6 DEF Dispatching, Serving
<1>13. ASSUME NEW p \in Endpoints, AddJob(p)
       PROVE  Dispatching'
  <2>0. busy /\ todo[p] = "add"
    BY <1>13 DEF AddJob, Dispatching
  <2> DEFINE d == <<p, Current>>
  <2>1. d \in Deliveries /\ MainJob(d) \in Jobs
    BY <2>0, <1>a, DeliveryFacts
  <2>2. /\ UNCHANGED <<endpoint, edits, row, log, next, committed, start, busy>>
        /\ Current' = Current
        /\ \A ep \in Endpoints : ep # p => todo'[ep] = todo[ep]
        /\ todo'[p] \in {"ok", "rejected"}
        /\ todo'[p] = "ok" => QueueAdd(MainJob(d))
    BY <1>13 DEF AddJob, Goes, TypeOK, Current
  <2>3. todo'[p] = "ok" => HasJob(d)'
    <3>1. QueueAdd(MainJob(d)) => jobs'[MainJob(d)].state # "none"
      BY <2>1, QueueAddEffect
    <3> QED
      BY <2>2, <3>1 DEF HasJob, MainJob
  <2>4. ASSUME NEW ep \in Endpoints
        PROVE  Serving(ep)'
    <3>1. CASE ep # p
      BY <1>0, <1>2, <1>3, <2>0, <2>2, <1>a, <3>1 DEF Serving
    <3>2. CASE ep = p
      BY <1>0, <1>3, <2>0, <2>2, <2>3, <3>2 DEF Serving
    <3> QED
      BY <3>1, <3>2
  <2> QED
    BY <1>3, <2>0, <2>2, <2>4 DEF Dispatching, Serving
<1> QED
  BY <1>4, <1>5, <1>6, <1>8, <1>9, <1>10, <1>11, <1>12, <1>13, BackstageSteps

LEMMA NothingLeftBehindStep ==
    TypeOK /\ Consistent /\ TypeOK' /\ [Next]_vars => NothingLeftBehind'
<1> SUFFICES ASSUME TypeOK, Consistent, TypeOK', [Next]_vars,
                    NEW d \in Deliveries,
                    edits'[d[1]] = 0,
                    row'[d] \notin Terminal \union {"absent"},
                    \A n \in 0..MaxRetries : jobs'[<<d, n>>].state = "none"
             PROVE  \/ \E i \in (next' + 1)..Len(log') : log'[i] = d[2]
                    \/ \E i \in 1..start' : log'[i] = d[2]
  BY DEF NothingLeftBehind, PassedOver
<1> USE DEF Consistent
<1>1. ~HasJob(d)
  BY NothingVanishes DEF HasJob
<1>2. d[1] \in Endpoints /\ d[2] \in Events /\ d = <<d[1], d[2]>>
  BY DeliveryFacts
<1>3. edits[d[1]] = 0
  <2>1. CASE edits' = edits
    BY <2>1
  <2>2. ASSUME NEW ep \in Endpoints, Update(ep) \/ Remove(ep)
        PROVE  edits[d[1]] = 0
    BY <1>2, <2>2 DEF Update, Remove, TypeOK
  <2> QED
    BY <2>1, <2>2, BackstageSteps
    DEF Backstage, Register, Produce, SkipMessage, Dispatch, Settle, CreateDelivery, AddJob,
        CommitOffset, Rejoin, Crash
<1>4. /\ next \in 0..Len(log) /\ start \in 0..next /\ committed \in 0..next
      /\ Len(log) \in Nat /\ Len(log') \in Nat
      /\ next' \in 0..Len(log') /\ start' \in 0..next'
  BY DEF TypeOK
<1>5. Len(log) <= Len(log') /\ \A i \in 1..Len(log) : log'[i] = log[i]
  BY LogGrows
<1>6. CASE row[d] = "absent"
  <2>1. CreateDelivery(d[1]) /\ d[2] = Current
    <3>1. row'[d] # row[d]
      BY <1>6
    <3>2. CASE d = InHand /\ worker \in Jobs
      BY <1>6, <3>2 DEF JobRecords, JobRecord, Hand, InHand, NoJob, Jobs
    <3> QED
      BY <3>1, <3>2, RowChanges
  <2>2. next' = next /\ log' = log /\ next < Len(log)
    BY <1>2, <2>1 DEF CreateDelivery, Dispatching
  <2>3. next + 1 \in (next' + 1)..Len(log') /\ log'[next + 1] = d[2]
    BY <1>4, <2>1, <2>2 DEF Current
  <2> QED
    BY <2>3
<1>7. CASE row[d] # "absent"
  <2>1. row[d] \notin Terminal
    BY <1>1 DEF Rows
  <2>2. (\E i \in (next + 1)..Len(log) : log[i] = d[2]) \/ \E i \in 1..start : log[i] = d[2]
    BY <1>1, <1>3, <1>7, <2>1 DEF NothingLeftBehind, PassedOver, HasJob
  \* What the step takes out of the unhandled part of the topic was not the event's.
  <2>3. \/ next' <= next /\ start <= start'
        \/ next' = next + 1 /\ start' = start /\ next < Len(log) /\ Current # d[2]
        \/ next' = Len(log) /\ start' = Len(log)
    <3>1. CASE next' = next /\ start' = start
      BY <1>4, <3>1
    <3>2. CASE SkipMessage
      BY <1>2, <3>2, WebhookAssumption DEF SkipMessage
    <3>3. CASE Settle
      <4>1. CASE Current = d[2]
        <5>1. todo[d[1]] # "ok"
          BY <1>1, <1>2, <4>1 DEF Dispatching
        <5>2. todo[d[1]] # "none"
          BY <1>2, <1>3, <1>7, <3>3 DEF Dispatching, Settle
        <5>3. todo[d[1]] = "rejected"
          BY <1>2, <3>3, <5>1, <5>2 DEF Settle, Settled
        <5> QED
          BY <1>2, <1>4, <3>3, <5>3 DEF Settle
      <4>2. CASE Current # d[2]
        BY <1>4, <3>3, <4>2 DEF Settle, Dispatching
      <4> QED
        BY <4>1, <4>2
    <3>4. CASE Rejoin \/ Crash
      BY <1>4, <3>4 DEF Rejoin, Crash, Rejoins, Resume
    <3> QED
      BY <3>1, <3>2, <3>3, <3>4, BackstageSteps
      DEF Backstage, Register, Update, Remove, Produce, Dispatch, CommitOffset,
          CreateDelivery, AddJob
  <2>4. ASSUME NEW i \in 1..start, log[i] = d[2]
        PROVE  \E k \in 1..start' : log'[k] = d[2]
    <3>1. i \in 1..start' /\ i \in 1..Len(log)
      BY <1>4, <2>3, <2>4
    <3> QED
      BY <1>5, <2>4, <3>1
  <2>5. ASSUME NEW i \in (next + 1)..Len(log), log[i] = d[2]
        PROVE  \/ \E k \in (next' + 1)..Len(log') : log'[k] = d[2]
               \/ \E k \in 1..start' : log'[k] = d[2]
    <3>1. i \in 1..Len(log) /\ i \in 1..Len(log') /\ log'[i] = d[2]
      BY <1>4, <1>5, <2>5
    <3>2. CASE next' <= next
      <4>1. \A a, b, c \in Nat : \A k \in (a + 1)..c : b <= a => k \in (b + 1)..c
        OBVIOUS
      <4>2. next \in Nat /\ next' \in Nat /\ Len(log') \in Nat /\ i \in (next + 1)..Len(log')
        BY <1>4, <3>1
      <4>3. i \in (next' + 1)..Len(log')
        BY <3>2, <4>1, <4>2
      <4> QED
        BY <3>1, <4>3
    <3>3. CASE next' = next + 1 /\ Current # d[2]
      <4>1. i # next + 1
        BY <2>5, <3>3 DEF Current
      <4>2. next \in Nat /\ i \in Nat /\ next + 1 <= i /\ i <= Len(log')
        BY <1>4, <3>1
      <4>3. next + 2 <= i
        BY <4>1, <4>2
      <4>4. i \in (next' + 1)..Len(log')
        BY <1>4, <3>3, <4>2, <4>3
      <4> QED
        BY <3>1, <4>4
    <3>4. CASE start' = Len(log)
      BY <3>1, <3>4
    <3> QED
      BY <2>3, <3>2, <3>3, <3>4
  <2> QED
    BY <2>2, <2>4, <2>5
<1> QED
  BY <1>6, <1>7

\* What a step that changes a job does to it.
LEMMA JobChanges ==
    ASSUME TypeOK, Consistent, [Next]_vars, NEW j \in Jobs, jobs'[j] # jobs[j]
    PROVE  \/ jobs[j].state = "none" /\ jobs'[j].state = "waiting"
              /\ jobs'[j].stalls = 0 /\ (j[2] = 0 \/ retries' # retries)
           \/ jobs[j].state = "waiting" /\ Take(j)
           \/ jobs[j].state = "active" /\ Stalled(j)
           \/ jobs[j].state = "active" /\ worker = j /\ jobs'[j].state = "completed" /\ Complete
           \/ jobs[j].state = "active" /\ worker = j /\ FailAttempt
                 /\ jobs'[j].state \in {"waiting", "failed"}
<1> USE DEF Consistent
<1>1. ~Elsewhere
  BY ElsewhereKeeps
<1>2. ASSUME NEW ep \in Endpoints, AddJob(ep)
      PROVE  /\ jobs[j].state = "none" /\ jobs'[j].state = "waiting" /\ j[2] = 0
             /\ jobs'[j].stalls = 0
  <2>1. MainJob(<<ep, Current>>) \in Jobs
    BY <1>2 DEF AddJob, Dispatching, MainJob, Jobs, Deliveries
  <2> QED
    BY <1>2, <2>1, QueueAddEffect DEF AddJob, Waiting, MainJob
<1>3. ASSUME NEW d \in Deliveries, RetryDelivery(d)
      PROVE  /\ jobs[j].state = "none" /\ jobs'[j].state = "waiting" /\ retries' # retries
             /\ jobs'[j].stalls = 0
  <2>1. <<d, retries + 1>> \in Jobs
    BY <1>3 DEF RetryDelivery, TypeOK, Jobs
  <2> QED
    BY <1>3, <2>1, QueueAddEffect DEF RetryDelivery, Waiting, TypeOK
<1>4. ASSUME NEW i \in Jobs, Take(i)
      PROVE  i = j /\ jobs[j].state = "waiting"
  BY <1>4 DEF Take, TypeOK
<1>5. ASSUME NEW i \in Jobs, Stalled(i)
      PROVE  i = j /\ jobs[j].state = "active"
  BY <1>5 DEF Stalled, TypeOK
<1>6. CASE Complete
  <2>1. worker \in Jobs /\ jobs[worker].state = "active"
    BY <1>6, AtWork DEF Complete
  <2> QED
    BY <1>6, <2>1 DEF Complete, TypeOK
<1>7. CASE FailAttempt
  <2>1. worker \in Jobs /\ jobs[worker].state = "active"
    BY <1>7, AtWork DEF FailAttempt
  <2>2. j = worker /\ jobs'[j] = AfterFailure(jobs[j])
    BY <1>7, <2>1 DEF FailAttempt, TypeOK
  <2> QED
    BY <1>7, <2>1, <2>2 DEF AfterFailure
<1>8. ~(MarkInactive \/ MarkDelivered \/ MarkFailed \/ MarkDeadWithLetter)
  BY MarkEffect
<1>9. /\ ~Load /\ ~PostToMerchant /\ ~Crash
      /\ \A ep \in Endpoints : ~CreateDelivery(ep)
  BY DEF Load, PostToMerchant, Crash, CreateDelivery
<1> QED
  BY <1>1, <1>2, <1>3, <1>4, <1>5, <1>6, <1>7, <1>8, <1>9, StepCases

\* Undisturbed, the job in hand is its delivery's own, and a delivered row is written by
\* nobody any more.
LEMMA DeliveredStays ==
    ASSUME TypeOK, Consistent, [Next]_vars, Undisturbed,
           NEW d \in Deliveries, row[d] = "delivered"
    PROVE  row'[d] = "delivered"
<1> USE DEF Consistent
<1> SUFFICES ASSUME row'[d] # row[d] PROVE FALSE
  OBVIOUS
<1>1. d = InHand /\ worker \in Jobs
      /\ (MarkInactive \/ MarkDelivered \/ MarkFailed \/ MarkDeadWithLetter)
  BY RowChanges
<1>2. doing # "complete"
  BY <1>1 DEF MarkInactive, MarkDelivered, MarkFailed, MarkDeadWithLetter
<1>3. worker[2] = 0 /\ jobs[worker].state = "active"
  BY <1>1, NoJobIsNone DEF Undamaged, Hand
<1>4. worker = MainJob(d)
  BY <1>1, <1>3, JobFacts DEF InHand, MainJob
<1> QED
  BY <1>2, <1>3, <1>4 DEF Undamaged

LEMMA UndamagedStep ==
    TypeOK /\ Consistent /\ TypeOK' /\ [Next]_vars => Undamaged'
<1> SUFFICES ASSUME TypeOK, Consistent, TypeOK', [Next]_vars, Undisturbed'
             PROVE  Undamaged'
  BY DEF Undamaged
<1> USE DEF Consistent
<1>1. /\ "db" \notin Faults /\ retries = 0 /\ retries' = 0 /\ crashes = 0
      /\ ~Rejoin /\ ~Crash /\ \A d \in Deliveries : ~RetryDelivery(d)
  <2>1. /\ \A d \in Deliveries : RetryDelivery(d) => retries' = retries + 1
        /\ Rejoin \/ Crash => crashes' = crashes + 1
        /\ retries \in Nat /\ crashes \in Nat
    BY DEF RetryDelivery, Rejoin, Crash, Rejoins, TypeOK
  <2>2. retries' # retries => \E d \in Deliveries : RetryDelivery(d)
    BY StepCases, MarkEffect, ElsewhereKeeps
    DEF CreateDelivery, AddJob, Take, Stalled, Load, PostToMerchant, Complete, FailAttempt, Crash
  <2>3. crashes' # crashes => Rejoin \/ Crash
    BY DEF Next, DispatchStep, WorkerStep, Register, Update, Remove, Produce, SkipMessage,
           Dispatch, Settle, CreateDelivery, AddJob, CommitOffset, Take, Load, MarkInactive,
           PostToMerchant, MarkDelivered, MarkFailed, MarkDeadWithLetter, Complete,
           FailAttempt, Stalled, RetryDelivery, vars
  <2> QED
    BY <2>1, <2>2, <2>3 DEF Undisturbed
<1>2. Undisturbed
  BY <1>1 DEF Undisturbed
<1>3. ASSUME NEW j \in Jobs, j[2] # 0
      PROVE  jobs'[j].state = "none"
  <2>1. jobs[j].state = "none"
    BY <1>2, <1>3 DEF Undamaged
  <2> QED
    BY <1>1, <1>3, <2>1, JobChanges
\* A worker that has a job in hand keeps it until it is done with it.
<1>4. worker' = worker \/ Complete \/ FailAttempt \/ \E j \in Jobs : Take(j)
  BY <1>1, StepCases, MarkEffect, ElsewhereKeeps
  DEF CreateDelivery, AddJob, Stalled, Load, Does, PostToMerchant
<1>5. ASSUME NEW j \in Jobs, jobs'[j].state = "active"
      PROVE  worker' = j
  <2>1. CASE jobs'[j] = jobs[j]
    <3>1. worker = j
      BY <1>2, <1>5, <2>1 DEF Undamaged
    <3>2. ~Complete /\ ~FailAttempt
      BY <1>5, <2>1, <3>1, AtWork DEF Complete, FailAttempt, AfterFailure, TypeOK
    <3>3. \A i \in Jobs : ~Take(i)
      BY <3>1, NoJobIsNone DEF Take, Hand
    <3> QED
      BY <1>4, <3>1, <3>2, <3>3
  <2>2. CASE jobs'[j] # jobs[j]
    <3>1. ~Stalled(j)
      BY <1>2 DEF Stalled, Undamaged
    <3> QED
      BY <1>5, <2>2, <3>1, JobChanges DEF Take
  <2> QED
    BY <2>1, <2>2
<1>6. ASSUME NEW d \in Deliveries, row'[d] = "delivered"
      PROVE  \/ jobs'[MainJob(d)].state = "completed"
             \/ worker' = MainJob(d) /\ doing' = "complete"
  <2>0. MainJob(d) \in Jobs
    BY DeliveryFacts
  <2>1. CASE row[d] = "delivered" /\ jobs[MainJob(d)].state = "completed"
    BY <2>0, <2>1, JobChanges
  <2>2. CASE row[d] = "delivered" /\ jobs[MainJob(d)].state # "completed"
    <3>1. worker = MainJob(d) /\ doing = "complete"
      BY <1>2, <2>2 DEF Undamaged
    <3>2. CASE Complete
      BY <2>0, <3>1, <3>2 DEF Complete, TypeOK
    <3>3. CASE ~Complete
      <4>1. UNCHANGED <<worker, doing>>
        BY <1>1, <3>1, <3>3, StepCases, ElsewhereKeeps
        DEF CreateDelivery, AddJob, Take, Stalled, Load, PostToMerchant, MarkInactive,
            MarkDelivered, MarkFailed, MarkDeadWithLetter, FailAttempt
      <4> QED
        BY <3>1, <4>1
    <3> QED
      BY <3>2, <3>3
  <2>3. CASE row[d] # "delivered"
    <3>1. d = InHand /\ worker \in Jobs /\ MarkDelivered
      BY <1>6, <2>3, RowChanges
      DEF MarkInactive, MarkFailed, MarkDeadWithLetter, Marks, SetRow, WriteDead, TypeOK
    <3>2. worker' = worker /\ doing' = "complete"
      BY <1>1, <3>1 DEF MarkDelivered, Marks, Does
    <3>3. worker[2] = 0
      BY <1>2, <3>1, NoJobIsNone DEF Undamaged, Hand
    <3>4. worker = MainJob(d)
      BY <3>1, <3>3, JobFacts DEF InHand, MainJob
    <3> QED
      BY <3>2, <3>4
  <2> QED
    BY <2>1, <2>2, <2>3
<1> QED
  BY <1>3, <1>5, <1>6 DEF Undamaged

LEMMA ConsistentInit == Init => Consistent
<1> SUFFICES ASSUME Init PROVE Consistent
  OBVIOUS
<1>1. JobRecords
  BY DEF Init, JobRecords, JobRecord
<1>2. Hand
  BY DEF Init, Hand
<1>3. \A d \in Deliveries : MainJob(d) \in Jobs
  BY DeliveryFacts
<1>4. Rows
  BY <1>3 DEF Init, Rows, LettersAreEarned, CompletedMeansDecided, Terminal
<1>5. Dispatching
  BY DEF Init, Dispatching, Deliveries
<1>6. NothingLeftBehind
  BY DEF Init, NothingLeftBehind
<1>7. Undamaged
  BY DEF Init, Undamaged
<1> QED
  BY <1>1, <1>2, <1>4, <1>5, <1>6, <1>7 DEF Consistent

-----------------------------------------------------------------------------
(* The theorems. *)

LEMMA InvariantsHold == Spec => [](TypeOK /\ Consistent)
<1>1. Init => TypeOK /\ Consistent
  BY TypesInit, ConsistentInit
<1>2. TypeOK /\ Consistent /\ [Next]_vars => (TypeOK /\ Consistent)'
  <2>1. TypeOK /\ Consistent /\ [Next]_vars => TypeOK'
    BY TypesStep
  <2>2. TypeOK /\ Consistent /\ TypeOK' /\ [Next]_vars => Consistent'
    BY JobRecordsStep, HandStep, RowsStep, DispatchingStep, NothingLeftBehindStep,
       UndamagedStep DEF Consistent
  <2> QED
    BY <2>1, <2>2
<1> QED
  BY <1>1, <1>2, PTL DEF Spec

\* The variables keep their types: no attempt beyond the last is counted, no job is taken
\* by nobody, and the consumer never gets ahead of the topic.
THEOREM WebhookTypes == Spec => []TypeOK
BY InvariantsHold, PTL

\* The worker, the queue, the rows and the consumer agree, as far as each part of
\* Consistent says.
THEOREM WebhookConsistent == Spec => []Consistent
BY InvariantsHold, PTL

\* No accepted event's delivery is lost between its row and its job, whatever calls fail
\* and whenever the process crashes, except when the group had nothing committed.
THEOREM NoDeliveryLeftBehind == Spec => []NothingLeftBehind
<1>1. TypeOK /\ Consistent => NothingLeftBehind
  BY DEF Consistent
<1> QED
  BY <1>1, InvariantsHold, PTL

\* A dead delivery has its dead letter, and only used-up attempts earn one.
THEOREM DeadLettersAreEarned == Spec => []LettersAreEarned
<1>1. TypeOK /\ Consistent => LettersAreEarned
  BY DEF Consistent, Rows
<1> QED
  BY <1>1, InvariantsHold, PTL

\* No completed job hides an undecided delivery of an unchanged endpoint.
THEOREM CompletedJobsDecided == Spec => []CompletedMeansDecided
<1>1. TypeOK /\ Consistent => CompletedMeansDecided
  BY DEF Consistent, Rows
<1> QED
  BY <1>1, InvariantsHold, PTL

\* The calls of a merchant are bounded per job, however often Kafka hands the event over.
THEOREM MerchantCallsBounded == Spec => []CallsAreBounded
<1>1. TypeOK /\ Consistent => CallsAreBounded
  <2> SUFFICES ASSUME TypeOK, Consistent, NEW j \in Jobs
               PROVE  posts[j] <= IF jobs[j].state = "none" THEN 0
                                  ELSE Attempts + jobs[j].stalls
    BY DEF CallsAreBounded
  <2>1. JobRecord(j)
    BY DEF Consistent, JobRecords
  <2>2. /\ jobs[j] \in JobType /\ posts[j] \in Nat
    BY DEF TypeOK, JobType
  <2>3. /\ jobs[j].made \in Nat /\ jobs[j].stalls \in Nat
        /\ jobs[j].state \in {"none", "waiting", "active", "completed", "failed"}
    BY <2>2 DEF JobType
  <2> QED
    BY <2>1, <2>2, <2>3 DEF JobRecord
<1> QED
  BY <1>1, InvariantsHold, PTL

\* As long as no write failed, no retry was asked for and nobody restarted, a delivered
\* delivery stays delivered.
THEOREM DeliveredStaysDelivered == Spec => DeliveredIsFinal
<1>1. TypeOK /\ Consistent /\ [Next]_vars =>
        [Undisturbed =>
          \A d \in Deliveries : row[d] = "delivered" => row'[d] = "delivered"]_vars
  BY DeliveredStays
<1> QED
  BY <1>1, InvariantsHold, PTL DEF Spec, DeliveredIsFinal

-----------------------------------------------------------------------------
(* Exhausted jobs. *)

\* Nobody works on an active job: its worker died.
Stray(j) == jobs[j].state = "active" /\ worker # j

\* Every stall of a job was begun by a crash or rejoin of its own, and, unless the
\* database fails, the worker hands back to BullMQ only attempts that are not the last.
Spent ==
    /\ doing \in {"markFailed", "fail"} => jobs[worker].made < Attempts - 1
    /\ \A j \in Jobs :
         /\ jobs[j].stalls <= crashes
         /\ Stray(j) => jobs[j].stalls < crashes
         /\ crashes <= StallLimit => jobs[j].state # "failed"

LEMMA CrashesCount ==
    ASSUME TypeOK, [Next]_vars
    PROVE  \/ crashes' = crashes /\ ~Crash
           \/ crashes' = crashes + 1 /\ crashes \in Nat
<1>1. crashes \in Nat
  BY DEF TypeOK
<1>2. Crash \/ Rejoin => crashes' = crashes + 1
  BY DEF Crash, Rejoin, Rejoins
<1>3. ~Crash /\ ~Rejoin => crashes' = crashes
  BY DEF Next, DispatchStep, WorkerStep, Register, Update, Remove, Produce, SkipMessage,
         Dispatch, Settle, CreateDelivery, AddJob, CommitOffset, Take, Load, MarkInactive,
         PostToMerchant, MarkDelivered, MarkFailed, MarkDeadWithLetter, Complete,
         FailAttempt, Stalled, RetryDelivery, vars
<1> QED
  BY <1>1, <1>2, <1>3

\* A failed attempt that the worker hands back is not the last one.
LEMMA LastAttemptsAreBuried ==
    ASSUME "db" \notin Faults, TypeOK, Consistent, Spent, [Next]_vars,
           doing' \in {"markFailed", "fail"}
    PROVE  jobs'[worker'].made < Attempts - 1
<1> USE DEF Consistent
<1>1. CASE UNCHANGED <<worker, doing>>
  <2>1. worker \in Jobs /\ jobs[worker].state = "active"
    BY <1>1, AtWork
  <2>2. jobs'[worker] = jobs[worker]
    <3>1. ~Stalled(worker) /\ ~Take(worker) /\ ~Complete /\ ~FailAttempt
      BY <1>1, <2>1, NoJobIsNone DEF Stalled, Take, Complete, FailAttempt, Rest, Hand
    <3> QED
      BY <2>1, <3>1, JobChanges
  <2> QED
    BY <1>1, <2>2 DEF Spent
<1>2. CASE PostToMerchant
  BY <1>2, AtWork DEF PostToMerchant, Does, Caught, IsLastAttempt
<1>3. CASE MarkFailed
  BY <1>3, AtWork DEF MarkFailed, Marks, Does, Spent
<1>4. ~Load /\ ~MarkInactive /\ ~MarkDelivered /\ ~MarkDeadWithLetter
  BY DEF Load, MarkInactive, MarkDelivered, MarkDeadWithLetter, Marks, Does
<1>5. /\ ~Complete /\ ~FailAttempt /\ ~Crash
      /\ \A j \in Jobs : ~Take(j)
  BY DEF Complete, FailAttempt, Crash, Rest, Take
<1>6. \/ UNCHANGED <<worker, doing>> \/ PostToMerchant \/ MarkFailed
  BY <1>4, <1>5, StepCases, ElsewhereKeeps
  DEF CreateDelivery, AddJob, Stalled, RetryDelivery
<1> QED
  BY <1>1, <1>2, <1>3, <1>6

LEMMA SpentStep ==
    ASSUME "db" \notin Faults, TypeOK, Consistent, Spent, [Next]_vars
    PROVE  Spent'
<1> SUFFICES ASSUME NEW j \in Jobs
             PROVE  /\ jobs'[j].stalls <= crashes'
                    /\ Stray(j)' => jobs'[j].stalls < crashes'
                    /\ crashes' <= StallLimit => jobs'[j].state # "failed"
  BY LastAttemptsAreBuried DEF Spent
<1>1. /\ jobs[j].stalls \in 0..1 /\ jobs[j].made \in 0..Attempts
      /\ crashes \in Nat /\ crashes' \in {crashes, crashes + 1}
  BY CrashesCount DEF TypeOK
<1>2. /\ jobs[j].stalls <= crashes
      /\ Stray(j) => jobs[j].stalls < crashes
      /\ crashes <= StallLimit => jobs[j].state # "failed"
  BY DEF Spent
<1>3. CASE jobs'[j] = jobs[j]
  <2>1. ASSUME Stray(j)', ~Stray(j)
        PROVE  crashes' = crashes + 1
    <3>1. worker = j /\ worker' # j /\ jobs[j].state = "active"
      BY <1>3, <2>1 DEF Stray
    <3>2. ~Complete /\ ~FailAttempt
      BY <1>3, <3>1 DEF Complete, FailAttempt, AfterFailure, TypeOK
    <3>3. \A i \in Jobs : ~Take(i)
      BY <3>1, NoJobIsNone DEF Take, Consistent, Hand
    <3>4. Crash
      BY <3>1, <3>2, <3>3, StepCases, MarkEffect, ElsewhereKeeps
      DEF Consistent, CreateDelivery, AddJob, Stalled, Load, Does, PostToMerchant,
          RetryDelivery
    <3> QED
      BY <3>4, CrashesCount
  <2> QED
    BY <1>1, <1>2, <1>3, <2>1
<1>4. CASE jobs'[j] # jobs[j]
  <2>1. CASE jobs[j].state = "none" /\ jobs'[j].state = "waiting" /\ jobs'[j].stalls = 0
    BY <1>1, <2>1 DEF Stray
  <2>2. CASE Take(j)
    <3>1. jobs'[j].state = "active" /\ jobs'[j].stalls = jobs[j].stalls /\ worker' = j
      BY <2>2 DEF Take, TypeOK
    <3> QED
      BY <1>1, <1>2, <3>1 DEF Stray
  <2>3. CASE Stalled(j)
    <3>1. Stray(j) /\ jobs'[j] = AfterStall(jobs[j])
      BY <2>3 DEF Stalled, Stray, TypeOK
    <3> QED
      BY <1>1, <1>2, <3>1 DEF Stray, AfterStall
  <2>4. CASE worker = j /\ (Complete \/ FailAttempt)
    <3>1. CASE Complete
      BY <1>1, <1>2, <2>4, <3>1 DEF Complete, Stray, TypeOK
    <3>2. CASE FailAttempt
      <4>1. jobs'[j] = AfterFailure(jobs[j]) /\ ~IsLastAttempt
        BY <1>1, <2>4, <3>2 DEF FailAttempt, IsLastAttempt, Spent, TypeOK
      <4> QED
        BY <1>1, <1>2, <4>1 DEF AfterFailure, Stray
    <3> QED
      BY <2>4, <3>1, <3>2
  <2> QED
    BY <1>4, <2>1, <2>2, <2>3, <2>4, JobChanges
<1> QED
  BY <1>3, <1>4

\* While the database answers and the process has not died twice, no job fails, for every
\* number of attempts and manual retries: each last attempt delivers or leaves a dead
\* letter and completes, so that what the README says of exhausted deliveries holds.
THEOREM LastAttemptsComplete == Spec => []NoJobFailsUndamaged
<1>1. CASE "db" \in Faults
  <2>1. TypeOK => NoJobFailsUndamaged
    BY <1>1 DEF NoJobFailsUndamaged
  <2> QED
    BY <2>1, InvariantsHold, PTL
<1>2. CASE "db" \notin Faults
  <2>1. Init => Spent
    BY <1>2 DEF Init, Spent, Stray
  <2>2. TypeOK /\ Consistent /\ Spent /\ [Next]_vars => Spent'
    BY <1>2, SpentStep
  <2>3. Spent => NoJobFailsUndamaged
    BY DEF Spent, NoJobFailsUndamaged
  <2> QED
    BY <2>1, <2>2, <2>3, InvariantsHold, PTL DEF Spec
<1> QED
  BY <1>1, <1>2

-----------------------------------------------------------------------------
(* The promise. *)

\* A delivery is marked delivered in the attempt whose call reached the merchant.
Reached == doing = "markDelivered" => posts[worker] > 0

LEMMA ReachedStep == TypeOK /\ Consistent /\ Reached /\ [Next]_vars => Reached'
<1> SUFFICES ASSUME TypeOK, Consistent, Reached, [Next]_vars
             PROVE  Reached'
  OBVIOUS
<1>1. CASE UNCHANGED <<worker, doing, posts>>
  BY <1>1 DEF Reached
<1>2. CASE PostToMerchant
  <2>1. worker \in Jobs /\ posts[worker] \in Nat
    BY <1>2, AtWork DEF PostToMerchant, Consistent, TypeOK
  <2> QED
    BY <1>2, <2>1 DEF PostToMerchant, Does, Caught, Reached, TypeOK
<1>3. CASE Load \/ MarkInactive \/ MarkDelivered \/ MarkFailed \/ MarkDeadWithLetter
  BY <1>3 DEF Load, MarkInactive, MarkDelivered, MarkFailed, MarkDeadWithLetter, Marks,
              Does, Caught, Reached
<1>4. CASE Complete \/ FailAttempt \/ Crash \/ \E j \in Jobs : Take(j)
  BY <1>4 DEF Complete, FailAttempt, Crash, Rest, Take, Reached
<1>5. CASE \/ Elsewhere \/ \E j \in Jobs : Stalled(j)
           \/ \E ep \in Endpoints : CreateDelivery(ep) \/ AddJob(ep)
           \/ \E d \in Deliveries : RetryDelivery(d)
  BY <1>1, <1>5, ElsewhereKeeps DEF Stalled, CreateDelivery, AddJob, RetryDelivery
<1> QED
  BY <1>2, <1>3, <1>4, <1>5, StepCases

Allowed == [Promise!Next]_(Promise!vars)

LEMMA Stutters ==
    ASSUME UNCHANGED <<Status, letters, posts>>
    PROVE  Allowed
BY DEF Allowed, Promise!vars, Called

\* What writing one row does to the statuses.
LEMMA StatusWritten ==
    ASSUME TypeOK, NEW d \in Deliveries, NEW s, row' = [row EXCEPT ![d] = s]
    PROVE  Status' = [Status EXCEPT ![d] = StatusOf(s)]
BY DEF Status, TypeOK

LEMMA OpeningAllowed ==
    ASSUME TypeOK, Consistent, NEW ep \in Endpoints, CreateDelivery(ep)
    PROVE  Allowed
<1> DEFINE d == <<ep, Current>>
<1>1. d \in Deliveries
  BY DEF CreateDelivery, Consistent, Dispatching, Deliveries
<1>2. UNCHANGED <<letters, posts>>
  BY DEF CreateDelivery
<1>3. CASE row' = row
  BY <1>2, <1>3, Stutters DEF Status
<1>4. CASE row' # row
  <2>1. row[d] = "absent" /\ row' = [row EXCEPT ![d] = "pending"]
    BY <1>1, <1>4 DEF CreateDelivery, Upsert, TypeOK
  <2>2. Status' = [Status EXCEPT ![d] = "open"] /\ Status[d] = "none"
    BY <1>1, <2>1, StatusWritten DEF Status, StatusOf, Terminal
  <2> QED
    BY <1>1, <1>2, <2>2 DEF Allowed, Called, Promise!Next, Promise!Open, Promise!Becomes
<1> QED
  BY <1>3, <1>4

LEMMA CallAllowed ==
    ASSUME TypeOK, Consistent, PostToMerchant
    PROVE  Allowed
<1>1. /\ worker \in Jobs /\ InHand \in Deliveries /\ row[InHand] # "absent"
      /\ posts[worker] \in Nat
      /\ UNCHANGED <<row, letters>> /\ UNCHANGED Status
  BY AtWork DEF PostToMerchant, Consistent, TypeOK, Status
<1>2. CASE UNCHANGED posts
  BY <1>1, <1>2, Stutters
<1>3. CASE posts' = [posts EXCEPT ![worker] = @ + 1]
  <2>1. worker = <<InHand, worker[2]>> /\ worker[2] \in 0..MaxRetries
    BY <1>1, JobFacts DEF InHand
  <2>2. /\ posts'[worker] > 0
        /\ \A j \in Jobs : j # worker => posts'[j] = posts[j]
    BY <1>1, <1>3 DEF TypeOK
  <2>3. InHand \in Called'
    BY <1>1, <2>1, <2>2 DEF Called
  <2>4. ASSUME NEW d \in Deliveries, d # InHand
        PROVE  d \in Called' <=> d \in Called
    <3>1. \A n \in 0..MaxRetries : <<d, n>> \in Jobs /\ <<d, n>> # worker
      BY <2>1, <2>4, DeliveryFacts
    <3> QED
      BY <2>2, <3>1 DEF Called
  <2>5. Called' = Called \union {InHand}
    BY <1>1, <2>3, <2>4 DEF Called
  <2>6. Status[InHand] # "none"
    BY <1>1 DEF Status, StatusOf, Terminal, TypeOK
  <2> QED
    BY <1>1, <2>5, <2>6 DEF Allowed, Promise!Next, Promise!Call
<1> QED
  BY <1>2, <1>3 DEF PostToMerchant

LEMMA MarkAllowed ==
    ASSUME TypeOK, Consistent, Reached,
           MarkInactive \/ MarkDelivered \/ MarkFailed \/ MarkDeadWithLetter
    PROVE  Allowed
<1> DEFINE d == InHand
<1>1. /\ worker \in Jobs /\ d \in Deliveries /\ row[d] # "absent" /\ doing # "idle"
      /\ UNCHANGED posts
  BY AtWork, MarkEffect
  DEF Consistent, MarkInactive, MarkDelivered, MarkFailed, MarkDeadWithLetter
<1>2. /\ UNCHANGED Called
      /\ Status[d] \in {"open", "delivered", "dead"}
      /\ Status \in [Deliveries -> {"none", "open", "delivered", "dead"}]
  BY <1>1 DEF Called, Status, StatusOf, Terminal, TypeOK
<1>3. CASE UNCHANGED <<row, letters>>
  BY <1>1, <1>3, Stutters DEF Status
<1>4. CASE SetRow("failed") /\ UNCHANGED letters
  <2>1. Status' = [Status EXCEPT ![d] = "open"]
    BY <1>1, <1>4, StatusWritten DEF SetRow, StatusOf, Terminal
  <2>2. CASE Status[d] = "open"
    <3>1. Status' = Status
      BY <1>2, <2>1, <2>2
    <3> QED
      BY <1>1, <1>4, <3>1, Stutters
  <2>3. CASE Status[d] # "open"
    BY <1>1, <1>2, <1>4, <2>1, <2>3
    DEF Allowed, Promise!Next, Promise!Reopen, Promise!Becomes
  <2> QED
    BY <2>2, <2>3
<1>5. CASE MarkDelivered /\ SetRow("delivered") /\ UNCHANGED letters
  <2>1. Status' = [Status EXCEPT ![d] = "delivered"]
    BY <1>1, <1>5, StatusWritten DEF SetRow, StatusOf, Terminal
  <2>2. d \in Called
    <3>1. posts[worker] > 0
      BY <1>5 DEF MarkDelivered, Reached
    <3>2. worker = <<d, worker[2]>> /\ worker[2] \in 0..MaxRetries
      BY <1>1, JobFacts DEF InHand
    <3> QED
      BY <1>1, <3>1, <3>2 DEF Called
  <2> QED
    BY <1>1, <1>2, <1>5, <2>1, <2>2
    DEF Allowed, Promise!Next, Promise!Deliver, Promise!Becomes
<1>6. CASE WriteDead
  <2>1. Status' = [Status EXCEPT ![d] = "dead"] /\ letters' = letters \union {d}
    BY <1>1, <1>6, StatusWritten DEF WriteDead, SetRow, StatusOf, Terminal
  <2> QED
    BY <1>1, <1>2, <2>1 DEF Allowed, Promise!Next, Promise!Bury, Promise!Becomes
<1> QED
  BY <1>3, <1>4, <1>5, <1>6
  DEF MarkInactive, MarkDelivered, MarkFailed, MarkDeadWithLetter, Marks

LEMMA StepsAllowed ==
    ASSUME TypeOK, Consistent, Reached, [Next]_vars
    PROVE  Allowed
<1>1. CASE UNCHANGED <<row, letters, posts>>
  BY <1>1, Stutters DEF Status
<1>2. CASE \/ Elsewhere \/ Load \/ Complete \/ FailAttempt \/ Crash
           \/ \E j \in Jobs : Take(j) \/ Stalled(j)
           \/ \E ep \in Endpoints : AddJob(ep)
           \/ \E d \in Deliveries : RetryDelivery(d)
  BY <1>1, <1>2, ElsewhereKeeps
  DEF Load, Complete, FailAttempt, Crash, Take, Stalled, AddJob, RetryDelivery
<1> QED
  BY <1>2, OpeningAllowed, CallAllowed, MarkAllowed, StepCases

\* The webhook service implements WebhookPromise: for every endpoint and event, however
\* often Kafka hands the event over and whatever write, call or process fails, a delivery
\* is on record before its first call, delivered only after a call that reached the
\* merchant, and dead only together with its letter.
THEOREM ServiceKeepsPromise == Spec => KeepsPromise
<1>1. Init => Promise!Init /\ Reached
  <2> SUFFICES ASSUME Init
               PROVE  Promise!Init /\ Reached
    OBVIOUS
  <2>0. /\ \A d \in Deliveries : row[d] = "absent"
        /\ \A j \in Jobs : posts[j] = 0
    BY DEF Init
  <2>1. Called = {}
    <3> SUFFICES ASSUME NEW d \in Deliveries, NEW n \in 0..MaxRetries,
                        posts[<<d, n>>] > 0
                 PROVE  FALSE
      BY Zenon DEF Called
    <3>1. posts[<<d, n>>] = 0
      BY <2>0, DeliveryFacts
    <3> QED
      BY <3>1
  <2>2. Status = [d \in Deliveries |-> "none"]
    BY <2>0 DEF Status, StatusOf, Terminal
  <2> QED
    BY <2>1, <2>2 DEF Init, Promise!Init, Reached
<1>2. TypeOK /\ Consistent /\ Reached /\ [Next]_vars => [Promise!Next]_(Promise!vars)
  BY StepsAllowed DEF Allowed
<1> QED
  BY <1>1, <1>2, ReachedStep, InvariantsHold, PTL DEF Spec, KeepsPromise, Promise!Spec
=============================================================================
