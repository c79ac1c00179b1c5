---------------------------- MODULE PipelineProofs ----------------------------
(***************************************************************************)
(* Machine-checked proofs about the payment and ledger services joined,    *)
(* for every number of requests and keys, every bound and every            *)
(* combination of faults.                                                  *)
(***************************************************************************)
EXTENDS PipelineRefinement, PaymentProofs, FiniteSetTheorems

USE RequestsAssumption, BoundsAssumption, NoSnapshotAssumption, PipelineAssumption
    DEF At, local, postgres, redis, kafka, recovery

-----------------------------------------------------------------------------
(* The payment service inside the pipeline. *)

LEMMA PipelineIsPayment == PipelineSpec => Spec
<1>1. PipelineInit => Init
  BY DEF PipelineInit
<1>2. [PipelineNext]_pipelineVars => [Next]_vars
  BY DEF PipelineNext, PaymentMoves, LedgerMoves, CallerMoves, pipelineVars
<1> QED
  BY <1>1, <1>2, PTL DEF PipelineSpec, Spec

\* The topic only grows.
TopicGrows ==
    /\ Len(log) \in Nat /\ Len(log') \in Nat /\ Len(log) <= Len(log')
    /\ \A i \in 1..Len(log) : log'[i] = log[i]

LEMMA WritesGrow ==
    ASSUME TypeOK, NEW snap \in Snapshot, KafkaWrites(snap) \/ KafkaFails(snap)
    PROVE  TopicGrows
<1>1. CASE KafkaWrites(snap)
  <2>1. PICK n \in Copies : AppendCopies(snap, n)
    BY <1>1 DEF KafkaWrites
  <2>2. n \in Nat
    BY DEF Copies
  <2>3. Len(log) \in Nat
    BY DEF TypeOK
  <2> QED
    BY <2>1, <2>2, <2>3, AppendedMessages DEF TopicGrows
<1>2. CASE UNCHANGED log
  BY <1>2 DEF TopicGrows, TypeOK
<1> QED
  BY <1>1, <1>2 DEF KafkaFails

LEMMA StepsGrow ==
    ASSUME TypeOK, [Next]_vars
    PROVE  TopicGrows
<1>1. CASE UNCHANGED log
  BY <1>1 DEF TopicGrows, TypeOK
<1>2. ASSUME NEW r \in Requests, Publish(r)
      PROVE  TopicGrows
  BY <1>2, ResultIsSnapshot, WritesGrow DEF Publish
<1>3. ASSUME NEW snap \in batch, RecoveryPublishes(snap) \/ RecoveryPublishFails(snap)
      PROVE  TopicGrows
  <2>1. snap \in Snapshot
    BY DEF TypeOK
  <2> QED
    BY <1>3, <2>1, WritesGrow DEF RecoveryPublishes, RecoveryPublishFails
<1>4. ASSUME NEW r \in Requests, CreateStep(r), ~Publish(r)
      PROVE  UNCHANGED log
  BY <1>4 DEF CreateStep, InsertPayment, InsertIdem, AuthorizePayment, AskBank,
     SavePayment, StoreIdem, StoreCache, Mark
<1>5. ASSUME NEW r \in Requests,
             Arrive(r) \/ LookupStep(r) \/ LockAcquired(r) \/ LockRefused(r)
      PROVE  UNCHANGED log
  BY <1>5 DEF Arrive, LookupStep, CacheHit, CacheMiss, PollCancelled, RecordFound,
     RecordMissing, RecordError, FillCache, LockAcquired, LockRefused
<1>6. CASE \/ Crash \/ RecoveryScan \/ RecoveryMark \/ UNCHANGED vars
           \/ \E k \in Keys : LockExpires(k) \/ CacheExpires(k)
  BY <1>1, <1>6 DEF Crash, RecoveryScan, RecoveryMark, vars, LockExpires, CacheExpires
<1> QED
  BY <1>1, <1>2, <1>3, <1>4, <1>5, <1>6 DEF Next, RequestStep, RecoveryStep

-----------------------------------------------------------------------------
(* The ledger inside the pipeline. *)

USE DEF Ledger!offsets, Ledger!books, Ledger!bounds, Ledger!Workers

\* A completed payment is announced under this event id.
Announces(i) == \E j \in 1..Len(log) : log[j].id = i /\ log[j].status = "completed"

\* What may be booked under this event id: an announcement, or a caller's own event.
Known(i) == Announces(i) \/ i \in CallerIds

\* A worker that has this event in hand may write the books.
Bookable(e) == Known(e.id) /\ e.pay \in Requests /\ e.amount = 1

\* What each worker has in hand before it writes the books, and what the books count.
Books ==
    /\ next \in Nat /\ committed \in Nat
    /\ DOMAIN step = Ledger!Workers /\ DOMAIN job = Ledger!Workers
    /\ \A w \in Ledger!Workers : step[w] \in {"check", "post"} => Bookable(job[w])
    /\ \A i \in processed : Known(i)
    /\ IsFiniteSet(processed)
    /\ DOMAIN pending = {"merchant"}
    /\ pending["merchant"] = Cardinality(processed)

LEMMA BooksInit == PipelineInit => Books
BY FS_EmptySet DEF PipelineInit, Ledger!Init, Books

LEMMA PaymentKeepsBooks ==
    ASSUME TypeOK, Books, [Next]_vars, UNCHANGED ledgerVars
    PROVE  Books'
<1>1. \A i : Known(i) => Known(i)'
  BY StepsGrow DEF TopicGrows, Announces, Known
<1> QED
  BY <1>1 DEF Books, Bookable, ledgerVars

\* What the ledger reads off the topic, or is handed from it, was announced.
LEMMA DecodedIsBookable ==
    ASSUME TypeOK, NEW i \in 1..Len(Decoded)
    PROVE  /\ i \in 1..Len(log) /\ Decoded[i].id = log[i].id
           /\ log[i].status = "completed" => Decoded[i].kind = "succeeded"
           /\ Decoded[i].kind = "succeeded" => Bookable(Decoded[i])
<1>1. i \in 1..Len(log)
  BY DEF Decoded, TypeOK
<1>2. Decoded[i] = [id |-> log[i].id, kind |-> KindOf(log[i]), pay |-> log[i].pay,
                    amount |-> 1]
  BY <1>1 DEF Decoded
<1>3. log[i].pay \in Requests
  <2>1. log[i] \in Message
    BY <1>1 DEF TypeOK
  <2> QED
    BY <2>1 DEF Message
<1>4. KindOf(log[i]) = "succeeded" <=> log[i].status = "completed"
  BY DEF KindOf, EventType
<1> QED
  BY <1>1, <1>2, <1>3, <1>4 DEF Bookable, Known, Announces

\* A worker takes an event in hand.
LEMMA BeginKeepsBooks ==
    ASSUME Books, NEW w \in Ledger!Workers, NEW e, Ledger!Begin(w, e),
           e.kind = "succeeded" => Bookable(e), next' \in Nat,
           UNCHANGED <<log, committed, pending, processed>>
    PROVE  Books'
<1>1. /\ job' = [job EXCEPT ![w] = e]
      /\ step' = [step EXCEPT ![w] =
                    IF e.kind = "succeeded" THEN "check" ELSE Ledger!Over(w)]
  BY DEF Ledger!Begin, Ledger!Goto
<1>2. Ledger!Over(w) \notin {"check", "post"}
  BY DEF Ledger!Over
<1>3. \A x : Bookable(x) => Bookable(x)'
  BY DEF Bookable, Known, Announces
<1>4. \A i : Known(i) => Known(i)'
  BY DEF Known, Announces
<1>5. DOMAIN step' = Ledger!Workers /\ DOMAIN job' = Ledger!Workers
  BY <1>1 DEF Books
<1>6. ASSUME NEW v \in Ledger!Workers, step'[v] \in {"check", "post"}
      PROVE  Bookable(job'[v])
  BY <1>1, <1>2, <1>6 DEF Books
<1> QED
  BY <1>3, <1>4, <1>5, <1>6 DEF Books

LEMMA FetchKeepsBooks ==
    ASSUME TypeOK, Books, UNCHANGED log, Ledger!Fetch
    PROVE  Books'
<1>1. next + 1 \in 1..Len(Decoded) /\ next' \in Nat
  BY DEF Ledger!Fetch, Books, Decoded, TypeOK
<1>2. Decoded[next + 1].kind = "succeeded" => Bookable(Decoded[next + 1])
  BY <1>1, DecodedIsBookable
<1>3. /\ UNCHANGED <<committed, pending, processed>>
      /\ Ledger!Begin("consumer", Decoded[next + 1])
  BY DEF Ledger!Fetch
<1> QED
  BY <1>1, <1>2, <1>3, BeginKeepsBooks

LEMMA CallersKeepBooks ==
    ASSUME TypeOK, Books, CallerMoves
    PROVE  Books'
<1>1. PICK h \in LedgerHandlers, e \in Posted : Ledger!HttpPost(h, e)
  BY DEF CallerMoves
<1>2. e.kind = "succeeded" => Bookable(e)
  <2>1. CASE e \in CallerEvents
    BY <2>1 DEF Bookable, Known, CallerIds
  <2>2. ASSUME NEW i \in 1..Len(log), e = Decoded[i]
        PROVE  e.kind = "succeeded" => Bookable(e)
    <3>1. i \in 1..Len(Decoded)
      BY DEF Decoded, TypeOK
    <3> QED
      BY <2>2, <3>1, DecodedIsBookable
  <2> QED
    BY <2>1, <2>2 DEF Posted
<1>3. UNCHANGED <<log, next, committed, pending, processed>> /\ Ledger!Begin(h, e)
  BY <1>1 DEF CallerMoves, vars, Ledger!HttpPost
<1>4. next' \in Nat /\ h \in Ledger!Workers
  BY <1>3 DEF Books
<1> QED
  BY <1>2, <1>3, <1>4, BeginKeepsBooks

LEMMA PostingsKeepBooks ==
    ASSUME Books, NEW w \in Ledger!Workers, step[w] = "post", Ledger!Postings(job[w])
    PROVE  /\ \A i \in processed' : Known(i)
           /\ IsFiniteSet(processed')
           /\ DOMAIN pending' = {"merchant"}
           /\ pending'["merchant"] = Cardinality(processed')
<1> DEFINE e == job[w]
<1>1. e.id \notin processed /\ processed' = processed \union {e.id}
  BY DEF Ledger!Postings, Ledger!MarkEventProcessed
<1>2. Known(e.id) /\ e.pay \in Requests /\ e.amount = 1
  BY DEF Books, Bookable
<1>3. pending' = [pending EXCEPT !["merchant"] = pending["merchant"] + 1]
  BY <1>2 DEF Ledger!Postings, Ledger!IncrementPendingBalance
<1>4. IsFiniteSet(processed') /\ Cardinality(processed') = Cardinality(processed) + 1
  BY <1>1, FS_AddElement DEF Books
<1> QED
  BY <1>1, <1>2, <1>3, <1>4 DEF Books

LEMMA WorkerKeepsBooks ==
    ASSUME Books, UNCHANGED log, NEW w \in Ledger!Workers, Ledger!WorkerStep(w)
    PROVE  Books'
<1>1. \A i : Known(i) => Known(i)'
  BY DEF Known, Announces
<1>2. UNCHANGED <<next, committed, job>> /\ step[w] \in {"check", "post"}
  BY DEF Ledger!WorkerStep, Ledger!Check, Ledger!Post
<1>3. PICK s : step' = [step EXCEPT ![w] = s]
  BY DEF Ledger!WorkerStep, Ledger!Check, Ledger!Post, Ledger!Succeed, Ledger!Fail,
     Ledger!Goto
<1>4. /\ \A i \in processed' : Known(i)
      /\ IsFiniteSet(processed')
      /\ DOMAIN pending' = {"merchant"}
      /\ pending'["merchant"] = Cardinality(processed')
  <2>1. CASE UNCHANGED <<pending, processed>>
    BY <2>1 DEF Books
  <2>2. CASE Ledger!Post(w) /\ Ledger!Postings(job[w])
    <3>1. step[w] = "post"
      BY <2>2 DEF Ledger!Post
    <3> QED
      BY <2>2, <3>1, PostingsKeepBooks
  <2> QED
    BY <2>1, <2>2 DEF Ledger!WorkerStep, Ledger!Check, Ledger!Post
<1>5. DOMAIN step' = Ledger!Workers /\ DOMAIN job' = Ledger!Workers
  BY <1>2, <1>3 DEF Books
<1>6. ASSUME NEW v \in Ledger!Workers
      PROVE  Bookable(job'[v]) \/ step'[v] \notin {"check", "post"}
  BY <1>2, <1>3 DEF Books
<1>7. \A x : Bookable(x) => Bookable(x)'
  BY <1>1 DEF Bookable
<1> QED
  BY <1>1, <1>2, <1>4, <1>5, <1>6, <1>7 DEF Books

LEMMA LedgerKeepsBooks ==
    ASSUME TypeOK, Books, Ledger!ServiceStep, UNCHANGED vars
    PROVE  Books'
<1>1. UNCHANGED log
  BY DEF vars
<1>2. \A i : Known(i) => Known(i)'
  BY <1>1 DEF Known, Announces
<1>3. CASE Ledger!Commit
  BY <1>2, <1>3 DEF Ledger!Commit, Ledger!Goto, Books, Bookable
<1>4. CASE Ledger!Restart
  BY <1>2, <1>4 DEF Ledger!Restart, Books
<1>5. ASSUME NEW w \in Ledger!Workers, Ledger!WorkerStep(w)
      PROVE  Books'
  BY <1>1, <1>5, WorkerKeepsBooks
<1> QED
  BY <1>1, <1>3, <1>4, <1>5, FetchKeepsBooks DEF Ledger!ServiceStep, Ledger!ConsumerStep

LEMMA BooksStep == TypeOK /\ Books /\ [PipelineNext]_pipelineVars => Books'
<1> SUFFICES ASSUME TypeOK, Books, [PipelineNext]_pipelineVars
             PROVE  Books'
  OBVIOUS
<1>1. CASE PaymentMoves
  BY <1>1, PaymentKeepsBooks DEF PaymentMoves
<1>2. CASE LedgerMoves
  BY <1>2, LedgerKeepsBooks DEF LedgerMoves
<1>3. CASE CallerMoves
  BY <1>3, CallersKeepBooks
<1>4. CASE UNCHANGED pipelineVars
  BY <1>4, PaymentKeepsBooks DEF pipelineVars
<1> QED
  BY <1>1, <1>2, <1>3, <1>4 DEF PipelineNext

LEMMA PipelineBooks == PipelineSpec => [](TypeOK /\ Consistent /\ Books)
BY PipelineIsPayment, PaymentConsistent, BooksInit, BooksStep, PTL DEF PipelineSpec

-----------------------------------------------------------------------------
(* The theorems. *)

\* Nothing is booked that the bank did not approve and Postgres does not show completed,
\* whatever the consumer reads and handlers are posted, but what callers composed.
THEOREM OnlyApprovedMoneyBooked == PipelineSpec => []BookedMoneyWasApproved
<1>1. TypeOK /\ Consistent /\ Books => BookedMoneyWasApproved
  <2> SUFFICES ASSUME TypeOK, Consistent, Books, NEW i \in processed \ CallerIds
               PROVE  \E r \in Requests : /\ i \in PostedFor(r)
                                          /\ bank[r] = "approved" /\ row[r] = "completed"
    BY DEF BookedMoneyWasApproved
  <2>1. PICK j \in 1..Len(log) : log[j].id = i /\ log[j].status = "completed"
    BY DEF Books, Known, Announces
  <2>2. log[j].pay \in Requests
    <3>1. log[j] \in Message
      BY DEF TypeOK
    <3> QED
      BY <3>1 DEF Message
  <2>3. row[log[j].pay] = "completed"
    BY <2>1 DEF Consistent, Announcements, Truthful
  <2>4. bank[log[j].pay] = "approved"
    BY <2>2, <2>3 DEF Consistent, Rows
  <2>5. i \in PostedFor(log[j].pay)
    BY <2>1 DEF PostedFor
  <2> QED
    BY <2>2, <2>3, <2>4, <2>5
<1> QED
  BY <1>1, PipelineBooks, PTL

\* The pending balance is what the events marked processed amount to, whatever was
\* republished, redelivered or begun again after a restart.
THEOREM BalanceIsTheCount == PipelineSpec => []BalanceCountsEvents
<1>1. Books => BalanceCountsEvents
  BY DEF Books, BalanceCountsEvents
<1> QED
  BY <1>1, PipelineBooks, PTL

-----------------------------------------------------------------------------
(* Nothing between the two services is lost. *)

IsBooked(i) == log[i].status = "completed" => log[i].id \in processed

Reading == step["consumer"] \in {"check", "post"}

\* What the consumer is done with is in the books; the message it fetched last may
\* still be in its hand, and is then not committed.
Reader ==
    /\ committed <= next /\ next <= Len(log)
    /\ Reading => next > 0 /\ job["consumer"].id = log[next].id /\ committed < next
    /\ \A i \in 1..next : IsBooked(i) \/ (Reading /\ i = next)

LEMMA ReaderInit == PipelineInit => Reader
BY DEF PipelineInit, Init, Ledger!Init, Reader, Reading

LEMMA PaymentKeepsReader ==
    ASSUME TypeOK, Books, Reader, [Next]_vars, UNCHANGED ledgerVars
    PROVE  Reader'
<1>1. TopicGrows
  BY StepsGrow
<1>2. UNCHANGED <<committed, next, step, job, processed>>
  BY DEF ledgerVars
<1>3. next \in Nat /\ committed \in Nat
  BY DEF Books
<1>4. \A i \in 1..next : log'[i] = log[i]
  BY <1>1, <1>3 DEF TopicGrows, Reader
<1>5. Reading' <=> Reading
  BY <1>2 DEF Reading
<1>6. \A i \in 1..next : IsBooked(i) => IsBooked(i)'
  BY <1>2, <1>4 DEF IsBooked
<1> QED
  BY <1>1, <1>2, <1>3, <1>4, <1>5, <1>6 DEF TopicGrows, Reader

LEMMA FetchKeepsReader ==
    ASSUME TypeOK, Books, Reader, UNCHANGED log, Ledger!Fetch
    PROVE  Reader'
<1> DEFINE e == Decoded[next + 1]
<1>1. /\ next + 1 \in 1..Len(Decoded) /\ next' = next + 1
      /\ next \in Nat /\ committed \in Nat
  BY DEF Ledger!Fetch, Books, Decoded, TypeOK
<1>2. next + 1 \in 1..Len(log)
  BY <1>1, DecodedIsBookable
<1>3. /\ UNCHANGED <<committed, processed>>
      /\ step["consumer"] = "idle"
      /\ job' = [job EXCEPT !["consumer"] = e]
      /\ step' = [step EXCEPT !["consumer"] =
                    IF e.kind = "succeeded" THEN "check" ELSE "commit"]
  BY DEF Ledger!Fetch, Ledger!Begin, Ledger!Goto, Ledger!Over
<1>4. /\ e.id = log[next + 1].id
      /\ log[next + 1].status = "completed" => e.kind = "succeeded"
  BY <1>1, DecodedIsBookable
<1> HIDE DEF e
<1>5. /\ job'["consumer"] = e
      /\ step'["consumer"] = IF e.kind = "succeeded" THEN "check" ELSE "commit"
  BY <1>3 DEF Books
<1>6. ~Reading /\ \A i \in 1..next : IsBooked(i)
  BY <1>3 DEF Reading, Reader
<1>7. \A i \in 1..next : IsBooked(i)'
  BY <1>3, <1>6 DEF IsBooked
<1>8. Reading' \/ log[next'].status # "completed"
  BY <1>1, <1>4, <1>5 DEF Reading
<1>9. Reading' => job'["consumer"].id = log[next'].id /\ committed < next'
  BY <1>1, <1>4, <1>5 DEF Reader
<1>10. \A i \in 1..next' : IsBooked(i)' \/ (Reading' /\ i = next')
  BY <1>1, <1>7, <1>8 DEF IsBooked
<1> QED
  BY <1>1, <1>2, <1>3, <1>9, <1>10 DEF Reader

\* What a handler does can only add to the books.
LEMMA HandlerKeepsReader ==
    ASSUME Books, Reader, NEW h \in LedgerHandlers, NEW s, NEW e,
           step' = [step EXCEPT ![h] = s],
           job' = job \/ job' = [job EXCEPT ![h] = e],
           processed \subseteq processed',
           UNCHANGED <<log, next, committed>>
    PROVE  Reader'
<1>1. step'["consumer"] = step["consumer"] /\ job'["consumer"] = job["consumer"]
  BY DEF Books
<1>2. Reading' <=> Reading
  BY <1>1 DEF Reading
<1>3. \A i : IsBooked(i) => IsBooked(i)'
  BY DEF IsBooked
<1> QED
  BY <1>1, <1>2, <1>3 DEF Reader

LEMMA CallersKeepReader ==
    ASSUME Books, Reader, CallerMoves
    PROVE  Reader'
<1>1. PICK h \in LedgerHandlers, e \in Posted : Ledger!HttpPost(h, e)
  BY DEF CallerMoves
<1>2. /\ UNCHANGED <<log, next, committed, processed>>
      /\ job' = [job EXCEPT ![h] = e]
      /\ \E s : step' = [step EXCEPT ![h] = s]
  BY <1>1 DEF CallerMoves, vars, Ledger!HttpPost, Ledger!Begin, Ledger!Goto
<1> QED
  BY <1>2, HandlerKeepsReader

LEMMA WorkerKeepsReader ==
    ASSUME Books, Reader, UNCHANGED log, Ledger!Check("consumer") \/ Ledger!Post("consumer")
    PROVE  Reader'
<1>1. UNCHANGED <<next, committed, job>> /\ Reading
  BY DEF Ledger!Check, Ledger!Post, Reading
<1>2. processed \subseteq processed'
  BY DEF Ledger!Check, Ledger!Post, Ledger!Postings, Ledger!MarkEventProcessed
<1>3. \/ step'["consumer"] = "post"
      \/ ~Reading' /\ job["consumer"].id \in processed'
  BY DEF Ledger!Check, Ledger!Post, Ledger!Postings, Ledger!MarkEventProcessed,
     Ledger!IsEventProcessed, Ledger!Succeed, Ledger!Over, Ledger!Fail, Ledger!Goto,
     Reading, Books
<1>4. next \in Nat /\ committed \in Nat
  BY DEF Books
<1>5. \A i \in 1..next : IsBooked(i) => IsBooked(i)'
  BY <1>2 DEF IsBooked
<1>6. job["consumer"].id \in processed' => IsBooked(next)'
  BY <1>1 DEF IsBooked, Reader
<1> QED
  BY <1>1, <1>3, <1>4, <1>5, <1>6 DEF Reader, Reading

LEMMA LedgerKeepsReader ==
    ASSUME TypeOK, Books, Reader, Ledger!ServiceStep, UNCHANGED vars
    PROVE  Reader'
<1>1. UNCHANGED log /\ next \in Nat /\ committed \in Nat
  BY DEF vars, Books
<1>4. ASSUME NEW h \in LedgerHandlers, Ledger!WorkerStep(h)
      PROVE  Reader'
  <2>1. UNCHANGED <<next, committed, job>> /\ processed \subseteq processed'
    BY <1>4 DEF Ledger!WorkerStep, Ledger!Check, Ledger!Post, Ledger!Postings,
       Ledger!MarkEventProcessed
  <2>2. \E s : step' = [step EXCEPT ![h] = s]
    BY <1>4 DEF Ledger!WorkerStep, Ledger!Check, Ledger!Post, Ledger!Succeed,
       Ledger!Fail, Ledger!Goto
  <2> QED
    BY <1>1, <2>1, <2>2, HandlerKeepsReader
<1>2. CASE Ledger!Commit
  BY <1>1, <1>2 DEF Ledger!Commit, Ledger!Goto, Books, Reader, Reading, IsBooked
<1>3. CASE Ledger!Restart
  BY <1>1, <1>3 DEF Ledger!Restart, Reader, Reading, IsBooked
<1> QED
  BY <1>1, <1>2, <1>3, <1>4, FetchKeepsReader, WorkerKeepsReader
     DEF Ledger!ServiceStep, Ledger!ConsumerStep, Ledger!WorkerStep

LEMMA ReaderStep == TypeOK /\ Books /\ Reader /\ [PipelineNext]_pipelineVars => Reader'
<1> SUFFICES ASSUME TypeOK, Books, Reader, [PipelineNext]_pipelineVars
             PROVE  Reader'
  OBVIOUS
<1>1. CASE PaymentMoves
  BY <1>1, PaymentKeepsReader DEF PaymentMoves
<1>2. CASE LedgerMoves
  BY <1>2, LedgerKeepsReader DEF LedgerMoves
<1>3. CASE CallerMoves
  BY <1>3, CallersKeepReader
<1>4. CASE UNCHANGED pipelineVars
  BY <1>4, PaymentKeepsReader DEF pipelineVars
<1> QED
  BY <1>1, <1>2, <1>3, <1>4 DEF PipelineNext

\* A payment marked published has its event in the topic, and no offset is committed
\* before its event is booked: so no completed payment falls between the two services,
\* whichever of them crashes, however often, and whatever publications or commits fail.
THEOREM MarkedReachTheBooks == PipelineSpec => []MarkedIsNotLost
<1>1. TypeOK /\ Consistent /\ Books /\ Reader => MarkedIsNotLost
  <2> SUFFICES ASSUME TypeOK, Consistent, Books, Reader,
                      NEW r \in published, row[r] = "completed"
               PROVE  \E i \in 1..Len(log) :
                        log[i].pay = r /\ (log[i].id \in processed \/ committed < i)
    BY DEF MarkedIsNotLost
  <2>1. PICK i \in 1..Len(log) : log[i].pay = r
    BY DEF Consistent, Announcements, Announced
  <2>2. log[i].status = "completed"
    BY <2>1 DEF Consistent, Announcements, Truthful
  <2>3. i \in Nat /\ committed \in Nat /\ next \in Nat
    BY DEF Books
  <2>4. i <= committed => log[i].id \in processed
    BY <2>1, <2>2, <2>3 DEF Reader, IsBooked
  <2> QED
    BY <2>1, <2>3, <2>4
<1> QED
  BY <1>1, ReaderInit, ReaderStep, PipelineBooks, PTL DEF PipelineSpec

-----------------------------------------------------------------------------
(* The two services keep PipelinePromise. *)

\* Every publication has an id of its own, which its copies share.
Numbered ==
    /\ nextEvent <= Len(log) /\ Len(log) <= MaxEvents
    /\ \A i \in 1..Len(log) : log[i].id < nextEvent
    /\ \A i, j \in 1..Len(log) :
         log[i].id = log[j].id => log[i].pay = log[j].pay /\ log[i].status = log[j].status

\* What reaches the topic tells the truth, and is no step of anything else.
LEMMA Publications ==
    ASSUME TypeOK, Consistent, [Next]_vars
    PROVE  \/ UNCHANGED kafka
           \/ /\ UNCHANGED <<row, bank>>
              /\ \E snap \in Snapshot : Truthful(snap) /\ KafkaWrites(snap)
<1> DEFINE Goal == \/ UNCHANGED kafka
                   \/ /\ UNCHANGED <<row, bank>>
                      /\ \E snap \in Snapshot : Truthful(snap) /\ KafkaWrites(snap)
<1>1. ASSUME NEW r \in Requests, Publish(r)
      PROVE  Goal
  <2>1. Result(r) \in Snapshot
    BY ResultIsSnapshot
  <2>2. Truthful(Result(r))
    BY <1>1 DEF Publish, Consistent, Positions, Position, Truthful, Result, StatusOf, Final
  <2> QED
    BY <1>1, <2>1, <2>2 DEF Publish, KafkaFails
<1>2. ASSUME NEW snap \in batch, RecoveryPublishes(snap) \/ RecoveryPublishFails(snap)
      PROVE  Goal
  <2>1. snap \in Snapshot /\ Truthful(snap)
    BY DEF TypeOK, Consistent, Announcements
  <2> QED
    BY <1>2, <2>1 DEF RecoveryPublishes, RecoveryPublishFails, KafkaFails
<1>3. ASSUME NEW r \in Requests, CreateStep(r), ~Publish(r)
      PROVE  UNCHANGED kafka
  BY <1>3 DEF CreateStep, InsertPayment, InsertIdem, AuthorizePayment, AskBank,
     SavePayment, StoreIdem, StoreCache, Mark
<1>4. ASSUME NEW r \in Requests,
             Arrive(r) \/ LookupStep(r) \/ LockAcquired(r) \/ LockRefused(r)
      PROVE  UNCHANGED kafka
  BY <1>4 DEF Arrive, LookupStep, CacheHit, CacheMiss, PollCancelled, RecordFound,
     RecordMissing, RecordError, FillCache, LockAcquired, LockRefused
<1>5. CASE \/ Crash \/ RecoveryScan \/ RecoveryMark \/ UNCHANGED vars
           \/ \E k \in Keys : LockExpires(k) \/ CacheExpires(k)
  BY <1>5 DEF Crash, RecoveryScan, RecoveryMark, vars, LockExpires, CacheExpires
<1> QED
  BY <1>1, <1>2, <1>3, <1>4, <1>5 DEF Next, RequestStep, RecoveryStep

LEMMA NumberedInit == Init => Numbered
BY DEF Init, Numbered

\* One publication: its copies, alike and under a fresh id, are added to the topic.
LEMMA Added ==
    ASSUME TypeOK, NEW snap \in Snapshot, KafkaWrites(snap)
    PROVE  /\ Len(log) \in Nat /\ Len(log') \in Nat /\ nextEvent \in Nat
           /\ Len(log) < Len(log') /\ Len(log') <= MaxEvents
           /\ nextEvent' = nextEvent + 1
           /\ \A i \in 1..Len(log) : log'[i] = log[i]
           /\ \A i \in (Len(log) + 1)..Len(log') :
                /\ log'[i].pay = snap.pay /\ log'[i].status = snap.status
                /\ log'[i].id = nextEvent
<1>1. PICK n \in Copies : AppendCopies(snap, n)
  BY DEF KafkaWrites
<1>2. n \in Nat \ {0}
  BY DEF Copies
<1>3. /\ Len(log) \in Nat /\ nextEvent \in Nat
      /\ nextEvent' = nextEvent + 1 /\ Len(log) + n <= MaxEvents
  BY <1>1, <1>2 DEF AppendCopies, TypeOK
<1>4. /\ Len(log') = Len(log) + n
      /\ \A i \in 1..Len(log) : log'[i] = log[i]
      /\ \A i \in (Len(log) + 1)..Len(log') :
           /\ log'[i].pay = snap.pay /\ log'[i].status = snap.status
           /\ log'[i].id = nextEvent
  BY <1>1, <1>2, AppendedMessages
<1> QED
  BY <1>2, <1>3, <1>4

LEMMA NumberedStep ==
    ASSUME TypeOK, Consistent, Numbered, [Next]_vars
    PROVE  Numbered'
<1>1. CASE UNCHANGED kafka
  BY <1>1 DEF Numbered, kafka
<1>2. ASSUME NEW snap \in Snapshot, KafkaWrites(snap)
      PROVE  Numbered'
  <2>1. \A i \in 1..Len(log') : \/ i \in 1..Len(log) /\ log'[i] = log[i]
                                \/ i \in (Len(log) + 1)..Len(log')
    BY <1>2, Added
  <2>2. nextEvent' <= Len(log') /\ Len(log') <= MaxEvents
    BY <1>2, Added DEF Numbered
  <2>3. \A i \in 1..Len(log) : log[i].id \in Nat
    <3>1. \A i \in 1..Len(log) : log[i] \in Message
      BY DEF TypeOK
    <3> QED
      BY <3>1 DEF Message
  <2>4. \A i \in 1..Len(log') : log'[i].id < nextEvent'
    BY <1>2, <2>1, <2>3, Added DEF Numbered
  <2>5. ASSUME NEW i \in 1..Len(log'), NEW j \in 1..Len(log'), log'[i].id = log'[j].id
        PROVE  log'[i].pay = log'[j].pay /\ log'[i].status = log'[j].status
    <3>1. \A m \in 1..Len(log) : log'[m].id # nextEvent
      BY <1>2, <2>3, Added DEF Numbered
    <3>2. CASE i \in 1..Len(log) /\ j \in 1..Len(log)
      BY <1>2, <2>5, <3>2, Added DEF Numbered
    <3>3. CASE i \in (Len(log) + 1)..Len(log') /\ j \in (Len(log) + 1)..Len(log')
      BY <1>2, <3>3, Added
    <3> QED
      BY <1>2, <2>1, <2>5, <3>1, <3>2, <3>3, Added
  <2> QED
    BY <2>2, <2>4, <2>5 DEF Numbered
<1> QED
  BY <1>1, <1>2, Publications

LEMMA PipelineNumbered ==
    TypeOK /\ Consistent /\ Numbered /\ [PipelineNext]_pipelineVars => Numbered'
<1>1. [PipelineNext]_pipelineVars => [Next]_vars
  BY DEF PipelineNext, PaymentMoves, LedgerMoves, CallerMoves, pipelineVars
<1> QED
  BY <1>1, NumberedStep

Step ==
    \/ Promise!Next
    \/ UNCHANGED <<Approved, Completed, Successes, Booked, Accepted, pending["merchant"]>>

LEMMA StillSuccesses == UNCHANGED log => UNCHANGED Successes
BY DEF Successes

LEMMA StillBooked == UNCHANGED <<log, processed>> => UNCHANGED <<Booked, Accepted>>
BY DEF Booked, Accepted, Successes

\* The topic's event ids are none of the callers'.
LEMMA AnnouncedIds ==
    ASSUME TypeOK, Numbered, NEW i \in 1..Len(log)
    PROVE  log[i].id \in Nat /\ log[i].id < nextEvent /\ log[i].id \notin CallerIds
<1>1. log[i].id \in Nat
  <2>1. log[i] \in Message
    BY DEF TypeOK
  <2> QED
    BY <2>1 DEF Message
<1>2. log[i].id \in 0..MaxEvents
  BY <1>1 DEF Numbered, TypeOK
<1> QED
  BY <1>1, <1>2 DEF Numbered

LEMMA AuthorizeApproves ==
    ASSUME TypeOK, Consistent, UNCHANGED ledgerVars, NEW s \in Requests, AuthorizePayment(s)
    PROVE  Step
<1>1. UNCHANGED <<row, log, processed, pending>> /\ stage[s] = "bank"
  BY DEF AuthorizePayment, AskBank, ledgerVars
<1>2. s \notin Approved
  BY <1>1 DEF Consistent, Positions, Position, Asked, Approved
<1>3. PICK did \in BankRecord : bank' = [bank EXCEPT ![s] = did]
  BY DEF AuthorizePayment, AskBank
<1>4. bank'[s] = did /\ \A r \in Requests \ {s} : bank'[r] = bank[r]
  BY <1>3 DEF TypeOK
<1>5. UNCHANGED <<Completed, Successes, Booked, Accepted, pending["merchant"]>>
  BY <1>1, StillSuccesses, StillBooked DEF Completed
<1>6. CASE did = "approved"
  <2>1. Approved' = Approved \union {s}
    BY <1>4, <1>6 DEF Approved
  <2>2. Promise!Approve(s)
    BY <1>2, <1>5, <2>1 DEF Promise!Approve
  <2> QED
    BY <2>2 DEF Step, Promise!Next
<1>7. CASE did # "approved"
  <2>1. Approved' = Approved
    BY <1>2, <1>4, <1>7 DEF Approved
  <2> QED
    BY <1>5, <2>1 DEF Step
<1> QED
  BY <1>6, <1>7

LEMMA SaveCompletes ==
    ASSUME TypeOK, Consistent, UNCHANGED ledgerVars, NEW s \in Requests, SavePayment(s)
    PROVE  Step
<1>1. UNCHANGED <<bank, log, processed, pending>> /\ stage[s] = "save"
  BY DEF SavePayment, ledgerVars
<1>2. UNCHANGED <<Approved, Successes, Booked, Accepted, pending["merchant"]>>
  BY <1>1, StillSuccesses, StillBooked DEF Approved
<1>3. s \notin Completed /\ (outcome[s] = "completed" => s \in Approved)
  BY <1>1 DEF Consistent, Positions, Position, Completed, Approved
<1>4. CASE UNCHANGED row
  BY <1>2, <1>4 DEF Step, Completed
<1>5. CASE SaveRow(s)
  <2>1. /\ row'[s] = StatusOf(outcome[s])
        /\ \A r \in Requests \ {s} : row'[r] = row[r]
    BY <1>5 DEF SaveRow, TypeOK
  <2>2. CASE outcome[s] = "completed"
    <3>1. Completed' = Completed \union {s}
      BY <2>1, <2>2 DEF Completed, StatusOf
    <3>2. Promise!Complete(s)
      BY <1>2, <1>3, <2>2, <3>1 DEF Promise!Complete
    <3> QED
      BY <3>2 DEF Step, Promise!Next
  <2>3. CASE outcome[s] # "completed"
    <3>1. Completed' = Completed
      BY <1>3, <2>1, <2>3 DEF Completed, StatusOf
    <3> QED
      BY <1>2, <3>1 DEF Step
  <2> QED
    BY <2>2, <2>3
<1> QED
  BY <1>4, <1>5 DEF SavePayment, Writes

LEMMA InsertIsSilent ==
    ASSUME TypeOK, UNCHANGED ledgerVars, NEW s \in Requests, InsertPayment(s)
    PROVE  Step
<1>1. UNCHANGED <<bank, log, processed, pending>>
  BY DEF InsertPayment, ledgerVars
<1>2. Completed' = Completed
  <2>1. CASE UNCHANGED row
    BY <2>1 DEF Completed
  <2>2. CASE InsertRow(s)
    <3>1. row[s] = "absent" /\ row'[s] = "processing"
          /\ \A r \in Requests \ {s} : row'[r] = row[r]
      BY <2>2 DEF InsertRow, SameKey, TypeOK
    <3> QED
      BY <3>1 DEF Completed
  <2> QED
    BY <2>1, <2>2 DEF InsertPayment, Writes
<1> QED
  BY <1>1, <1>2, StillSuccesses, StillBooked DEF Step, Approved

LEMMA WritesAnnounce ==
    ASSUME TypeOK, Consistent, Books, Numbered, UNCHANGED <<row, bank, ledgerVars>>,
           NEW snap \in Snapshot, Truthful(snap), KafkaWrites(snap)
    PROVE  Step
<1> DEFINE a == [id |-> nextEvent, pay |-> snap.pay]
<1>1. /\ UNCHANGED <<Approved, Completed, Accepted, pending["merchant"]>>
      /\ processed' = processed
  BY DEF ledgerVars, Approved, Completed, Accepted
<1>2. \A i \in 1..Len(log) : log[i].id # nextEvent
  BY AnnouncedIds, Added
<1>3. \A x \in Successes : x.id # nextEvent
  BY <1>2 DEF Successes
<1>4. nextEvent \notin processed
  <2>1. nextEvent \in 0..MaxEvents
    BY Added DEF Numbered
  <2> QED
    BY <1>2, <2>1 DEF Books, Known, Announces
<1>5. \A i \in 1..Len(log') : \/ i \in 1..Len(log) /\ log'[i] = log[i]
                              \/ i \in (Len(log) + 1)..Len(log')
  BY Added
<1>6. \A i \in 1..Len(log) : i \in 1..Len(log') /\ log'[i] = log[i]
  BY Added
<1>7. CASE snap.status = "completed"
  <2>1. EventType(snap.status) = "payment.succeeded" /\ snap.pay \in Completed
    BY <1>7 DEF EventType, Truthful, Completed, Snapshot
  <2>2. Len(log') \in 1..Len(log') /\ Len(log') \in (Len(log) + 1)..Len(log')
    BY Added
  <2>3. a \in Successes'
    BY <2>1, <2>2, Added DEF Successes
  <2>4. Successes \subseteq Successes'
    BY <1>6 DEF Successes
  <2>5. \A x \in Successes' : x = a \/ x \in Successes
    <3> SUFFICES ASSUME NEW i \in 1..Len(log'),
                        EventType(log'[i].status) = "payment.succeeded"
                 PROVE  \/ [id |-> log'[i].id, pay |-> log'[i].pay] = a
                        \/ [id |-> log'[i].id, pay |-> log'[i].pay] \in Successes
      BY DEF Successes
    <3>1. CASE i \in 1..Len(log) /\ log'[i] = log[i]
      BY <3>1 DEF Successes
    <3>2. CASE i \in (Len(log) + 1)..Len(log')
      BY <3>2, Added
    <3> QED
      BY <1>5, <3>1, <3>2
  <2>6. Successes' = Successes \union {a}
    BY <2>3, <2>4, <2>5
  <2>7. Booked' = Booked
    BY <1>1, <1>4, <2>6 DEF Booked
  <2>8. nextEvent \in 0..MaxEvents
    BY Added DEF Numbered
  <2>9. Promise!Announce(snap.pay, nextEvent)
    BY <1>1, <1>3, <2>1, <2>6, <2>7 DEF Promise!Announce
  <2>10. snap.pay \in Requests
    BY DEF Snapshot
  <2> QED
    BY <2>8, <2>9, <2>10 DEF Step, Promise!Next
<1>8. CASE snap.status = "failed"
  <2>1. EventType(snap.status) # "payment.succeeded"
    BY <1>8 DEF EventType
  <2>2. Successes \subseteq Successes'
    BY <1>6 DEF Successes
  <2>3. Successes' \subseteq Successes
    <3> SUFFICES ASSUME NEW i \in 1..Len(log'),
                        EventType(log'[i].status) = "payment.succeeded"
                 PROVE  [id |-> log'[i].id, pay |-> log'[i].pay] \in Successes
      BY DEF Successes
    <3>1. ~ i \in (Len(log) + 1)..Len(log')
      BY <2>1, Added
    <3> QED
      BY <1>5, <3>1 DEF Successes
  <2>4. Successes' = Successes
    BY <2>2, <2>3
  <2> QED
    BY <1>1, <2>4 DEF Booked, Step
<1> QED
  BY <1>7, <1>8 DEF Truthful, Final

LEMMA PaymentKeepsPromise ==
    ASSUME TypeOK, Consistent, Books, Numbered, [Next]_vars, UNCHANGED ledgerVars
    PROVE  Step
<1>1. CASE UNCHANGED <<row, bank>> /\ \E snap \in Snapshot : Truthful(snap) /\ KafkaWrites(snap)
  BY <1>1, WritesAnnounce
<1>2. CASE UNCHANGED <<row, bank, kafka>>
  BY <1>2, StillSuccesses, StillBooked DEF Step, Approved, Completed, ledgerVars
<1>3. CASE UNCHANGED kafka
  <2>1. ASSUME NEW s \in Requests, CreateStep(s)
        PROVE  Step
    <3>1. CASE InsertIdem(s) \/ StoreIdem(s) \/ StoreCache(s) \/ Mark(s) \/ Publish(s)
      BY <1>2, <1>3, <3>1 DEF InsertIdem, StoreIdem, StoreCache, Mark, Publish
    <3> QED
      BY <2>1, <3>1, InsertIsSilent, AuthorizeApproves, SaveCompletes DEF CreateStep
  <2>2. ASSUME NEW s \in Requests,
               Arrive(s) \/ LookupStep(s) \/ LockAcquired(s) \/ LockRefused(s)
        PROVE  UNCHANGED <<row, bank>>
    BY <2>2 DEF Arrive, LookupStep, CacheHit, CacheMiss, PollCancelled, RecordFound,
       RecordMissing, RecordError, FillCache, LockAcquired, LockRefused
  <2>3. CASE \/ Crash \/ RecoveryStep \/ UNCHANGED vars
             \/ \E k \in Keys : LockExpires(k) \/ CacheExpires(k)
    BY <1>2, <1>3, <2>3 DEF Crash, RecoveryStep, RecoveryScan, RecoveryMark,
       RecoveryPublishes, RecoveryPublishFails, vars, LockExpires, CacheExpires
  <2> QED
    BY <1>2, <1>3, <2>1, <2>2, <2>3 DEF Next, RequestStep
<1> QED
  BY <1>1, <1>3, Publications

LEMMA PostingBooks ==
    ASSUME TypeOK, Consistent, Books, Numbered, UNCHANGED vars,
           NEW w \in Ledger!Workers, step[w] = "post", Ledger!Postings(job[w])
    PROVE  Step
<1> DEFINE e == job[w]
<1>1. e.id \notin processed /\ processed' = processed \union {e.id}
  BY DEF Ledger!Postings, Ledger!MarkEventProcessed
<1>2. Known(e.id) /\ e.pay \in Requests /\ e.amount = 1
  BY DEF Books, Bookable
<1>3. pending'["merchant"] = pending["merchant"] + 1
  BY <1>2 DEF Ledger!Postings, Ledger!IncrementPendingBalance, Books
<1>4. UNCHANGED <<Approved, Completed, Successes>>
  BY StillSuccesses DEF vars, Approved, Completed
<1>5. CASE Announces(e.id)
  <2>1. PICK i \in 1..Len(log) : log[i].id = e.id /\ log[i].status = "completed"
    BY <1>5 DEF Announces
  <2> DEFINE a == [id |-> log[i].id, pay |-> log[i].pay]
  <2>2. a \in Successes /\ a \notin Booked
    BY <1>1, <2>1 DEF Successes, Booked, EventType
  <2>3. \A x \in Successes : x.id = e.id => x = a
    <3> SUFFICES ASSUME NEW j \in 1..Len(log), log[j].id = e.id
                 PROVE  [id |-> log[j].id, pay |-> log[j].pay] = a
      BY DEF Successes
    <3> QED
      BY <2>1 DEF Numbered
  <2> HIDE DEF a
  <2>4. a.id = e.id
    BY <2>1 DEF a
  <2>5. Booked' = Booked \union {a}
    BY <1>1, <1>4, <2>2, <2>3, <2>4 DEF Booked
  <2>6. Accepted' = Accepted
    BY <1>1, <2>1, AnnouncedIds DEF Accepted
  <2>7. Promise!Book(a)
    BY <1>3, <1>4, <2>2, <2>5, <2>6 DEF Promise!Book
  <2> QED
    BY <2>2, <2>7 DEF Step, Promise!Next
<1>6. CASE e.id \in CallerIds
  <2>1. e.id \notin Accepted /\ Accepted' = Accepted \union {e.id}
    BY <1>1, <1>6 DEF Accepted
  <2>2. \A x \in Successes : x.id # e.id
    BY <1>6, AnnouncedIds DEF Successes
  <2>3. Booked' = Booked
    BY <1>1, <1>4, <2>2 DEF Booked
  <2>4. Promise!Accept(e.id)
    BY <1>3, <1>4, <2>1, <2>3 DEF Promise!Accept
  <2> QED
    BY <1>6, <2>4 DEF Step, Promise!Next
<1> QED
  BY <1>2, <1>5, <1>6 DEF Known

LEMMA LedgerServes ==
    ASSUME TypeOK, Consistent, Books, Numbered, UNCHANGED vars,
           Ledger!ServiceStep \/ CallerMoves
    PROVE  Step
<1>1. CASE UNCHANGED <<pending, processed>>
  BY <1>1, StillSuccesses, StillBooked DEF Step, Approved, Completed, vars
<1>2. ASSUME NEW w \in Ledger!Workers, Ledger!WorkerStep(w), ~UNCHANGED <<pending, processed>>
      PROVE  Step
  <2>1. step[w] = "post" /\ Ledger!Postings(job[w])
    BY <1>2 DEF Ledger!WorkerStep, Ledger!Check, Ledger!Post
  <2> QED
    BY <2>1, PostingBooks
<1>3. CASE Ledger!Fetch \/ Ledger!Commit \/ Ledger!Restart \/ CallerMoves
  BY <1>1, <1>3 DEF Ledger!Fetch, Ledger!Commit, Ledger!Restart, CallerMoves,
     Ledger!HttpPost
<1> QED
  BY <1>1, <1>2, <1>3 DEF Ledger!ServiceStep, Ledger!ConsumerStep

LEMMA PromiseInit == PipelineInit => Promise!Init
<1> SUFFICES ASSUME PipelineInit
             PROVE  Promise!Init
  OBVIOUS
<1>1. Approved = {} /\ Completed = {} /\ pending["merchant"] = 0
  BY DEF PipelineInit, Init, Ledger!Init, Approved, Completed
<1>2. Successes = {}
  BY DEF PipelineInit, Init, Successes
<1>3. Booked = {} /\ Accepted = {}
  BY <1>2 DEF Booked, Accepted, PipelineInit, Ledger!Init
<1> QED
  BY <1>1, <1>2, <1>3 DEF Promise!Init

\* The two services keep PipelinePromise, for any requests and keys, any faults of the
\* payment service, failing commits, crashes and restarts of both, and whatever is posted
\* to the ledger beside the topic: what is announced is approved, completed, announced and
\* booked in this order, once; what callers composed themselves is booked once.
THEOREM PipelineKeepsPromise == PipelineSpec => KeepsPromise
<1>1. TypeOK /\ Consistent /\ Books /\ Numbered /\ [PipelineNext]_pipelineVars
        => [Promise!Next]_(Promise!vars)
  <2> SUFFICES ASSUME TypeOK, Consistent, Books, Numbered, [PipelineNext]_pipelineVars
               PROVE  Step
    BY DEF Step, Promise!vars
  <2>1. CASE PaymentMoves
    BY <2>1, PaymentKeepsPromise DEF PaymentMoves
  <2>2. CASE LedgerMoves
    BY <2>2, LedgerServes DEF LedgerMoves
  <2>3. CASE CallerMoves
    BY <2>3, LedgerServes DEF CallerMoves
  <2>4. CASE UNCHANGED pipelineVars
    BY <2>4, PaymentKeepsPromise DEF pipelineVars
  <2> QED
    BY <2>1, <2>2, <2>3, <2>4 DEF PipelineNext
<1>2. PipelineInit => Numbered
  BY NumberedInit DEF PipelineInit
<1> QED
  BY <1>1, <1>2, PromiseInit, PipelineBooks, PipelineNumbered, PTL
     DEF PipelineSpec, KeepsPromise, Promise!Spec
=============================================================================
