---------------------------- MODULE PaymentProofs ----------------------------
(***************************************************************************)
(* Machine-checked proofs about the payment service, for every number of   *)
(* requests and keys, every bound and every combination of faults.         *)
(***************************************************************************)
EXTENDS Payment, TLAPS, SequenceTheorems

USE RequestsAssumption, BoundsAssumption, NoSnapshotAssumption

-----------------------------------------------------------------------------
(* Kafka. *)

\* Appending n copies of a message keeps what the topic held and adds messages about
\* the payment and the status of the snapshot.
LEMMA AppendedMessages ==
    ASSUME TypeOK, NEW snap \in Snapshot, NEW n \in Nat, AppendCopies(snap, n)
    PROVE  /\ log' \in Seq(Message)
           /\ nextEvent' \in Nat
           /\ Len(log') = Len(log) + n
           /\ \A i \in 1..Len(log) : log'[i] = log[i]
           /\ \A i \in (Len(log) + 1)..Len(log') :
                /\ log'[i].pay = snap.pay /\ log'[i].status = snap.status
                /\ log'[i].id = nextEvent
<1> DEFINE added == [i \in 1..n |->
                       [id |-> nextEvent, pay |-> snap.pay, status |-> snap.status]]
<1>1. log \in Seq(Message) /\ nextEvent \in Nat
  BY DEF TypeOK
<1>2. /\ added \in Seq(Message)
      /\ Len(added) = n
      /\ \A i \in 1..n : /\ added[i].pay = snap.pay /\ added[i].status = snap.status
                        /\ added[i].id = nextEvent
  <2>1. \A i \in 1..n : added[i] \in Message
    BY <1>1 DEF Message, Snapshot
  <2> QED
    BY <2>1
<1>3. log' = log \o added
  BY DEF AppendCopies
<1> HIDE DEF added
<1>4. /\ log \o added \in Seq(Message)
      /\ Len(log \o added) = Len(log) + n
      /\ \A i \in 1..(Len(log) + n) :
            (log \o added)[i] = IF i <= Len(log) THEN log[i] ELSE added[i - Len(log)]
  BY <1>1, <1>2, ConcatProperties
<1>5. Len(log) \in Nat
  BY <1>1, LenProperties
<1>6. nextEvent' \in Nat
  BY <1>1 DEF AppendCopies
<1> QED
  BY <1>2, <1>3, <1>4, <1>5, <1>6

\* What a publication, acknowledged or not, leaves in the topic.
Extended(snap) ==
    /\ log' \in Seq(Message)
    /\ nextEvent' \in Nat
    /\ \A i \in 1..Len(log') :
          \/ i \in 1..Len(log) /\ log'[i] = log[i]
          \/ log'[i].pay = snap.pay /\ log'[i].status = snap.status
    /\ \A r \in Requests : Announced(r) => Announced(r)'

LEMMA WritesExtend ==
    ASSUME TypeOK, NEW snap \in Snapshot, KafkaWrites(snap)
    PROVE  Extended(snap) /\ Announced(snap.pay)'
<1>1. PICK n \in Copies : AppendCopies(snap, n)
  BY DEF KafkaWrites
<1>2. n \in Nat \ {0}
  BY DEF Copies
<1>3. /\ log' \in Seq(Message) /\ nextEvent' \in Nat
      /\ Len(log') = Len(log) + n
      /\ \A i \in 1..Len(log) : log'[i] = log[i]
      /\ \A i \in (Len(log) + 1)..Len(log') :
           log'[i].pay = snap.pay /\ log'[i].status = snap.status
  BY <1>1, <1>2, AppendedMessages
<1>4. Len(log) \in Nat
  BY DEF TypeOK
<1>5. Announced(snap.pay)'
  <2>1. Len(log') \in 1..Len(log') /\ Len(log') \in (Len(log) + 1)..Len(log')
    BY <1>2, <1>3, <1>4
  <2> QED
    BY <1>3, <2>1 DEF Announced
<1>6. \A r \in Requests : Announced(r) => Announced(r)'
  BY <1>2, <1>3, <1>4 DEF Announced
<1> QED
  BY <1>2, <1>3, <1>4, <1>5, <1>6 DEF Extended

LEMMA FailuresExtend ==
    ASSUME TypeOK, NEW snap \in Snapshot, KafkaFails(snap)
    PROVE  Extended(snap)
<1>1. CASE UNCHANGED kafka
  BY <1>1 DEF TypeOK, Extended, Announced, kafka
<1>2. CASE KafkaWrites(snap)
  BY <1>2, WritesExtend
<1> QED
  BY <1>1, <1>2 DEF KafkaFails

-----------------------------------------------------------------------------
(* Type correctness. *)

USE DEF At, local, postgres, redis, kafka, recovery

LEMMA ResultIsSnapshot ==
    ASSUME NEW r \in Requests
    PROVE  Result(r) \in Snapshot
BY DEF Result, StatusOf, Snapshot, Final

\* Where requests stand and what they answered.
Moved ==
    /\ stage' \in [Requests -> Stage]
    /\ reply' \in [Requests -> [kind: ReplyKind, snap: MaybeSnapshot]]

LEMMA GotoTyped ==
    ASSUME TypeOK, NEW r \in Requests, NEW s \in Stage, Goto(r, s)
    PROVE  Moved
BY DEF TypeOK, Goto, Moved

LEMMA RespondTyped ==
    ASSUME TypeOK, NEW r \in Requests, NEW kind \in ReplyKind, NEW snap \in MaybeSnapshot,
           Respond(r, kind, snap)
    PROVE  Moved
<1>1. [kind |-> kind, snap |-> snap] \in [kind: ReplyKind, snap: MaybeSnapshot]
  OBVIOUS
<1>2. "done" \in Stage
  BY DEF Stage
<1> QED
  BY <1>1, <1>2 DEF TypeOK, Respond, Moved

LEMMA AnswerTyped ==
    ASSUME TypeOK, NEW r \in Requests, Answer(r)
    PROVE  Moved
<1>1. {"created", "declined", "unavailable"} \subseteq ReplyKind
  BY DEF ReplyKind
<1>2. Result(r) \in MaybeSnapshot /\ NoSnapshot \in MaybeSnapshot
  BY ResultIsSnapshot DEF MaybeSnapshot
<1> QED
  BY <1>1, <1>2, RespondTyped DEF Answer

LEMMA ErrorTyped ==
    ASSUME TypeOK, NEW r \in Requests, Respond(r, "error", NoSnapshot)
    PROVE  Moved
BY RespondTyped DEF ReplyKind, MaybeSnapshot

LEMMA ContinueTyped ==
    ASSUME TypeOK, NEW r \in Requests, Continue(r)
    PROVE  Moved /\ left' \in [Requests -> 0..PollLookups]
<1>1. {"setnx", "insert", "cache"} \subseteq Stage
  BY DEF Stage, Lookup, Creating
<1>2. Moved
  <2>1. CASE Respond(r, "conflict", NoSnapshot)
    BY <2>1, RespondTyped DEF ReplyKind, MaybeSnapshot
  <2> QED
    BY <1>1, <2>1, GotoTyped DEF Continue
<1>3. left' \in [Requests -> 0..PollLookups]
  <2>1. CASE UNCHANGED left
    BY <2>1 DEF TypeOK
  <2>2. CASE left[r] > 1 /\ left' = [left EXCEPT ![r] = left[r] - 1]
    <3>1. left[r] - 1 \in 0..PollLookups
      BY <2>2 DEF TypeOK
    <3> QED
      BY <2>2, <3>1 DEF TypeOK
  <2> QED
    BY <2>1, <2>2 DEF Continue
<1> QED
  BY <1>2, <1>3

LEMMA TypeInit == Init => TypeOK
BY DEF Init, TypeOK, Stage, Lookup, Creating, Outcome, ReplyKind, MaybeSnapshot,
       BankRecord

LEMMA TypeLookup ==
    ASSUME TypeOK, NEW r \in Requests, LookupStep(r)
    PROVE  TypeOK'
<1> USE DEF TypeOK
<1>1. KeyOf[r] \in Keys /\ NoSnapshot \in MaybeSnapshot /\ "created" \in ReplyKind
  BY DEF MaybeSnapshot, ReplyKind
<1>2. {"db", "fill"} \subseteq Stage
  BY DEF Stage, Lookup
<1>3. CASE CacheHit(r)
  <2>1. Moved
    BY <1>1, <1>3, RespondTyped DEF CacheHit
  <2> QED
    BY <1>3, <2>1 DEF CacheHit, Moved
<1>4. CASE CacheMiss(r)
  <2>1. Moved
    BY <1>2, <1>4, GotoTyped DEF CacheMiss
  <2> QED
    BY <1>4, <2>1 DEF CacheMiss, Moved
<1>5. CASE PollCancelled(r)
  <2>1. Moved
    BY <1>5, ErrorTyped DEF PollCancelled
  <2> QED
    BY <1>5, <2>1 DEF PollCancelled, Moved
<1>6. CASE RecordFound(r)
  <2>1. Moved
    BY <1>2, <1>6, GotoTyped DEF RecordFound
  <2> QED
    BY <1>1, <1>6, <2>1 DEF RecordFound, Moved
<1>7. CASE RecordMissing(r)
  <2>1. Moved /\ left' \in [Requests -> 0..PollLookups]
    BY <1>7, ContinueTyped DEF RecordMissing
  <2> QED
    BY <1>7, <2>1 DEF RecordMissing, Moved
<1>8. CASE RecordError(r)
  <2>1. Moved /\ left' \in [Requests -> 0..PollLookups]
    BY <1>8, ContinueTyped, ErrorTyped DEF RecordError
  <2> QED
    BY <1>8, <2>1 DEF RecordError, Moved
<1>9. CASE FillCache(r)
  <2>1. Moved
    BY <1>1, <1>9, RespondTyped DEF FillCache
  <2> QED
    BY <1>1, <1>9, <2>1 DEF FillCache, Moved
<1> QED
  BY <1>3, <1>4, <1>5, <1>6, <1>7, <1>8, <1>9 DEF LookupStep

LEMMA TypeCreate ==
    ASSUME TypeOK, NEW r \in Requests, CreateStep(r)
    PROVE  TypeOK'
<1> USE DEF TypeOK
<1>1. KeyOf[r] \in Keys
  OBVIOUS
<1>2. Creating \subseteq Stage
  BY DEF Stage
<1> USE DEF Creating
<1>3. CASE InsertPayment(r)
  <2>1. Moved
    BY <1>2, <1>3, GotoTyped, ErrorTyped DEF InsertPayment, Writes, Refused
  <2>2. row' \in [Requests -> {"absent", "processing"} \union Final]
    BY <1>3 DEF InsertPayment, Writes, InsertRow
  <2> QED
    BY <1>3, <2>1, <2>2 DEF InsertPayment, Moved
<1>4. CASE InsertIdem(r)
  <2>1. Moved
    BY <1>2, <1>4, GotoTyped, ErrorTyped DEF InsertIdem, Writes, Refused
  <2>2. [pay |-> r, status |-> "processing"] \in MaybeSnapshot
    BY DEF MaybeSnapshot, Snapshot
  <2>3. idem' \in [Keys -> MaybeSnapshot]
    BY <1>1, <1>4, <2>2 DEF InsertIdem, Writes, InsertRecord
  <2> QED
    BY <1>4, <2>1, <2>3 DEF InsertIdem, Moved
<1>5. CASE AuthorizePayment(r)
  <2>1. Moved
    BY <1>2, <1>5, GotoTyped DEF AuthorizePayment, AskBank
  <2>2. PICK did \in BankRecord, concluded \in Outcome :
             /\ bank' = [bank EXCEPT ![r] = did]
             /\ outcome' = [outcome EXCEPT ![r] = concluded]
    BY <1>5 DEF AuthorizePayment, AskBank
  <2> QED
    BY <1>5, <2>1, <2>2 DEF AuthorizePayment, AskBank, Moved
<1>6. CASE SavePayment(r)
  <2>1. Moved
    BY <1>2, <1>6, GotoTyped, ErrorTyped DEF SavePayment, Writes, Refused
  <2>2. row' \in [Requests -> {"absent", "processing"} \union Final]
    BY <1>6 DEF SavePayment, Writes, SaveRow, StatusOf, Final
  <2>3. published' \subseteq Requests
    BY <1>6 DEF SavePayment, Writes, SaveRow
  <2> QED
    BY <1>6, <2>1, <2>2, <2>3 DEF SavePayment, Moved
<1>7. CASE StoreIdem(r)
  <2>1. Moved
    BY <1>2, <1>7, GotoTyped, ErrorTyped DEF StoreIdem, Writes, Refused
  <2>2. idem' \in [Keys -> MaybeSnapshot]
    BY <1>1, <1>7, ResultIsSnapshot DEF StoreIdem, Writes, UpdateRecord, MaybeSnapshot
  <2> QED
    BY <1>7, <2>1, <2>2 DEF StoreIdem, Moved
<1>8. CASE StoreCache(r)
  <2>1. Moved
    BY <1>2, <1>8, GotoTyped, AnswerTyped DEF StoreCache
  <2>2. cache' \in [Keys -> MaybeSnapshot]
    BY <1>1, <1>8, ResultIsSnapshot DEF StoreCache, MaybeSnapshot
  <2> QED
    BY <1>8, <2>1, <2>2 DEF StoreCache, Moved
<1>9. CASE Publish(r)
  <2>1. Moved
    BY <1>2, <1>9, GotoTyped, AnswerTyped DEF Publish
  <2>2. log' \in Seq(Message) /\ nextEvent' \in Nat
    BY <1>9, ResultIsSnapshot, WritesExtend, FailuresExtend DEF Publish, Extended
  <2> QED
    BY <1>9, <2>1, <2>2 DEF Publish, Moved
<1>10. CASE Mark(r)
  <2>1. Moved
    BY <1>10, AnswerTyped DEF Mark
  <2>2. published' \subseteq Requests
    BY <1>10 DEF Mark, MarkEventPublished
  <2> QED
    BY <1>10, <2>1, <2>2 DEF Mark, Moved
<1> QED
  BY <1>3, <1>4, <1>5, <1>6, <1>7, <1>8, <1>9, <1>10 DEF CreateStep

LEMMA TypeRecovery ==
    ASSUME TypeOK, RecoveryStep
    PROVE  TypeOK'
<1>1. CASE RecoveryScan
  BY <1>1 DEF RecoveryScan, GetAllUnpublished, TypeOK, Snapshot, Final
<1>2. ASSUME NEW snap \in batch, RecoveryPublishes(snap)
      PROVE  TypeOK'
  <2>1. snap \in Snapshot
    BY DEF TypeOK
  <2>2. log' \in Seq(Message) /\ nextEvent' \in Nat
    BY <1>2, <2>1, WritesExtend DEF RecoveryPublishes, Extended
  <2> QED
    BY <1>2, <2>1, <2>2 DEF RecoveryPublishes, TypeOK, MaybeSnapshot
<1>3. ASSUME NEW snap \in batch, RecoveryPublishFails(snap)
      PROVE  TypeOK'
  <2>1. snap \in Snapshot
    BY DEF TypeOK
  <2>2. log' \in Seq(Message) /\ nextEvent' \in Nat
    BY <1>3, <2>1, FailuresExtend DEF RecoveryPublishFails, Extended
  <2> QED
    BY <1>3, <2>1, <2>2 DEF RecoveryPublishFails, TypeOK
<1>4. CASE RecoveryMark
  BY <1>4 DEF RecoveryMark, MarkEventPublished, TypeOK, MaybeSnapshot, Snapshot
<1> QED
  BY <1>1, <1>2, <1>3, <1>4 DEF RecoveryStep

\* Every step keeps the types.
LEMMA TypeStep == TypeOK /\ [Next]_vars => TypeOK'
<1> SUFFICES ASSUME TypeOK, [Next]_vars
             PROVE  TypeOK'
  OBVIOUS
<1>1. ASSUME NEW r \in Requests, Arrive(r)
      PROVE  TypeOK'
  BY <1>1 DEF Arrive, Goto, TypeOK, Stage, Lookup
<1>2. ASSUME NEW r \in Requests, LockAcquired(r) \/ LockRefused(r)
      PROVE  TypeOK'
  <2>1. Moved
    BY <1>2, GotoTyped DEF LockAcquired, LockRefused, Stage, Lookup
  <2>2. locks' \subseteq Keys
    BY <1>2 DEF LockAcquired, LockRefused, TypeOK
  <2>3. phase' \in [Requests -> {"first", "locked", "poll"}]
    BY <1>2 DEF LockAcquired, LockRefused, TypeOK
  <2>4. left' \in [Requests -> 0..PollLookups]
    <3>1. PollLookups \in 0..PollLookups
      OBVIOUS
    <3> QED
      BY <1>2, <3>1 DEF LockAcquired, LockRefused, TypeOK
  <2> QED
    BY <1>2, <2>1, <2>2, <2>3, <2>4 DEF LockAcquired, LockRefused, Moved, TypeOK
<1>3. ASSUME NEW k \in Keys, LockExpires(k) \/ CacheExpires(k)
      PROVE  TypeOK'
  BY <1>3 DEF LockExpires, CacheExpires, TypeOK, MaybeSnapshot
<1>4. CASE Crash
  BY <1>4 DEF Crash, TypeOK, Stage, MaybeSnapshot
<1>5. CASE UNCHANGED vars
  BY <1>5 DEF vars, TypeOK
<1> QED
  BY <1>1, <1>2, <1>3, <1>4, <1>5, TypeLookup, TypeCreate, TypeRecovery
     DEF Next, RequestStep

\* Every variable keeps to its type in every reachable state.
THEOREM PaymentTypes == Spec => []TypeOK
<1> QED
  BY TypeInit, TypeStep, PTL DEF Spec

-----------------------------------------------------------------------------
(* The inductive invariant: frame lemmas. *)

Waiting == {"idle", "cache", "db", "setnx", "insert", "done", "dead"}

\* Nothing is claimed of a request that has not started to create a payment, or is over.
LEMMA WaitingPosition ==
    ASSUME NEW s \in Requests, stage'[s] \in Waiting
    PROVE  Position(s)'
BY DEF Waiting, Position

\* A request that did not move keeps its position if its own tables are left alone.
LEMMA StillPosition ==
    ASSUME NEW s \in Requests, Position(s),
           stage'[s] = stage[s], seen'[s] = seen[s], outcome'[s] = outcome[s],
           row'[s] = row[s], bank'[s] = bank[s],
           stage[s] \in {"storeCache", "publish", "mark"} =>
               idem'[KeyOf[s]] = idem[KeyOf[s]],
           Announced(s) => Announced(s)'
    PROVE  Position(s)'
BY DEF Position, Asked, Result

LEMMA StillRows ==
    ASSUME Rows, UNCHANGED <<row, bank>>
    PROVE  Rows'
BY DEF Rows, Created, Asked

LEMMA StillAnnouncements ==
    ASSUME Announcements, UNCHANGED <<row, log, batch, marking, published>>
    PROVE  Announcements'
BY DEF Announcements, Truthful, Announced

LEMMA StillSound ==
    ASSUME NEW snap, NEW k \in Keys, Sound(snap, k), UNCHANGED <<row, idem>>
    PROVE  Sound(snap, k)'
BY DEF Sound, Created

\* A step of r that touches no table but the cache.
LEMMA QuietPositions ==
    ASSUME Positions, NEW r \in Requests,
           \A s \in Requests \ {r} : stage'[s] = stage[s] /\ seen'[s] = seen[s],
           UNCHANGED <<outcome, row, bank, idem, log>>,
           Position(r)'
    PROVE  Positions'
<1>1. ASSUME NEW s \in Requests, s # r
      PROVE  Position(s)'
  <2>1. stage'[s] = stage[s] /\ seen'[s] = seen[s] /\ Position(s)
    BY <1>1 DEF Positions
  <2>2. Announced(s) => Announced(s)'
    BY DEF Announced
  <2> QED
    BY <2>1, <2>2, StillPosition
<1> QED
  BY <1>1 DEF Positions

\* A step that answers with a snapshot that is sound, or fills the cache with one.
LEMMA QuietSnapshots ==
    ASSUME TypeOK, Snapshots, UNCHANGED <<row, idem>>,
           \A k \in Keys : Sound(cache'[k], k),
           \A r \in Requests : /\ Sound(seen'[r], KeyOf[r])
                               /\ Sound(reply'[r].snap, KeyOf[r])
                               /\ reply'[r].kind = "created" => reply'[r].snap # NoSnapshot
    PROVE  Snapshots'
<1>1. \A k \in Keys : Sound(idem[k], k)'
  BY StillSound DEF Snapshots
<1>2. \A k \in Keys : Sound(cache[k], k)'
  BY StillSound
<1>3. \A r \in Requests : Sound(seen[r], KeyOf[r])' /\ Sound(reply[r].snap, KeyOf[r])'
  BY StillSound
<1> QED
  BY <1>1, <1>2, <1>3 DEF Snapshots

LEMMA NothingIsSound ==
    ASSUME NEW k
    PROVE  Sound(NoSnapshot, k)
BY DEF Sound

\* Answering a request leaves every other answer alone.
LEMMA RespondSound ==
    ASSUME TypeOK, Snapshots, NEW r \in Requests, NEW kind, NEW snap,
           Respond(r, kind, snap), Sound(snap, KeyOf[r]),
           kind = "created" => snap # NoSnapshot
    PROVE  \A s \in Requests : /\ Sound(reply'[s].snap, KeyOf[s])
                               /\ reply'[s].kind = "created" => reply'[s].snap # NoSnapshot
BY DEF TypeOK, Snapshots, Respond

LEMMA GotoSound ==
    ASSUME Snapshots, NEW r \in Requests, NEW s, Goto(r, s)
    PROVE  \A q \in Requests : /\ Sound(reply'[q].snap, KeyOf[q])
                               /\ reply'[q].kind = "created" => reply'[q].snap # NoSnapshot
BY DEF Snapshots, Goto

LEMMA GotoMoves ==
    ASSUME TypeOK, NEW r \in Requests, NEW s, Goto(r, s)
    PROVE  stage'[r] = s /\ \A q \in Requests \ {r} : stage'[q] = stage[q]
BY DEF TypeOK, Goto

LEMMA RespondMoves ==
    ASSUME TypeOK, NEW r \in Requests, NEW kind, NEW snap, Respond(r, kind, snap)
    PROVE  stage'[r] = "done" /\ \A q \in Requests \ {r} : stage'[q] = stage[q]
BY DEF TypeOK, Respond

-----------------------------------------------------------------------------
(* The inductive invariant: steps of the lookup and the lock. *)

LEMMA LookupKeeps ==
    ASSUME TypeOK, Consistent, NEW r \in Requests, LookupStep(r)
    PROVE  Consistent'
<1> USE DEF Consistent
<1>1. Rows' /\ Announcements'
  <2>1. UNCHANGED <<row, bank, log, batch, marking, published>>
    BY DEF LookupStep, CacheHit, CacheMiss, PollCancelled, RecordFound, RecordMissing,
           RecordError, FillCache
  <2> QED
    BY <2>1, StillRows, StillAnnouncements
<1>2. KeyOf[r] \in Keys
  OBVIOUS
<1>3. UNCHANGED <<outcome, row, bank, idem, log>>
  BY DEF LookupStep, CacheHit, CacheMiss, PollCancelled, RecordFound, RecordMissing,
         RecordError, FillCache
<1>4. \A s \in Requests \ {r} : seen'[s] = seen[s]
  BY DEF LookupStep, CacheHit, CacheMiss, PollCancelled, RecordFound, RecordMissing,
         RecordError, FillCache, TypeOK
<1>5. \A q \in Requests \ {r} : stage'[q] = stage[q]
  BY GotoMoves, RespondMoves DEF LookupStep, CacheHit, CacheMiss, PollCancelled,
     RecordFound, RecordMissing, RecordError, FillCache, Continue
<1>6. Position(r)'
  <2>1. CASE RecordFound(r)
    <3>1. seen'[r] # NoSnapshot /\ stage'[r] = "fill"
      BY <2>1, GotoMoves DEF RecordFound, TypeOK
    <3> QED
      BY <3>1 DEF Position
  <2>2. CASE ~RecordFound(r)
    <3>1. stage'[r] \in Waiting
      BY <2>2, GotoMoves, RespondMoves DEF LookupStep, CacheHit, CacheMiss, PollCancelled,
         RecordMissing, RecordError, FillCache, Continue, Waiting
    <3> QED
      BY <3>1, WaitingPosition
  <2> QED
    BY <2>1, <2>2
<1>7. Positions'
  BY <1>3, <1>4, <1>5, <1>6, QuietPositions
<1>8. \A k \in Keys : Sound(cache'[k], k)
  <2>1. CASE UNCHANGED cache
    BY <2>1 DEF Snapshots
  <2>2. CASE cache' = [cache EXCEPT ![KeyOf[r]] = seen[r]]
    BY <2>2 DEF Snapshots, TypeOK
  <2> QED
    BY <2>1, <2>2 DEF LookupStep, CacheHit, CacheMiss, PollCancelled, RecordFound,
       RecordMissing, RecordError, FillCache
<1>9. \A s \in Requests : Sound(seen'[s], KeyOf[s])
  <2>1. CASE UNCHANGED seen
    BY <2>1 DEF Snapshots
  <2>2. CASE seen' = [seen EXCEPT ![r] = idem[KeyOf[r]]]
    BY <1>2, <2>2 DEF Snapshots, TypeOK
  <2>3. CASE seen' = [seen EXCEPT ![r] = NoSnapshot]
    BY <2>3, NothingIsSound DEF Snapshots, TypeOK
  <2> QED
    BY <2>1, <2>2, <2>3 DEF LookupStep, CacheHit, CacheMiss, PollCancelled, RecordFound,
       RecordMissing, RecordError, FillCache
<1>10. \A s \in Requests : /\ Sound(reply'[s].snap, KeyOf[s])
                           /\ reply'[s].kind = "created" => reply'[s].snap # NoSnapshot
  <2>1. CASE \E s \in Stage : Goto(r, s)
    BY <2>1, GotoSound
  <2>2. CASE Respond(r, "error", NoSnapshot) \/ Respond(r, "conflict", NoSnapshot)
    BY <2>2, RespondSound, NothingIsSound
  <2>3. CASE CacheHit(r)
    BY <1>2, <2>3, RespondSound DEF CacheHit, Snapshots
  <2>4. CASE FillCache(r)
    <3>1. Sound(seen[r], KeyOf[r]) /\ seen[r] # NoSnapshot
      BY <2>4 DEF FillCache, Snapshots, Positions, Position
    <3> QED
      BY <2>4, <3>1, RespondSound DEF FillCache
  <2> QED
    BY <2>1, <2>2, <2>3, <2>4 DEF LookupStep, CacheMiss, PollCancelled, RecordFound,
       RecordMissing, RecordError, Continue, Stage, Lookup, Creating
<1>11. Snapshots'
  BY <1>3, <1>8, <1>9, <1>10, QuietSnapshots
<1> QED
  BY <1>1, <1>7, <1>11

LEMMA LockKeeps ==
    ASSUME TypeOK, Consistent, NEW r \in Requests,
           Arrive(r) \/ LockAcquired(r) \/ LockRefused(r)
    PROVE  Consistent'
<1> USE DEF Consistent
<1>1. /\ UNCHANGED <<row, bank, log, batch, marking, published, outcome, idem, seen, cache>>
      /\ Goto(r, "cache")
  BY DEF Arrive, LockAcquired, LockRefused
<1>2. Rows' /\ Announcements'
  BY <1>1, StillRows, StillAnnouncements
<1>3. Positions'
  BY <1>1, GotoMoves, WaitingPosition, QuietPositions DEF Waiting
<1>4. Snapshots'
  BY <1>1, GotoSound, QuietSnapshots DEF Snapshots
<1> QED
  BY <1>2, <1>3, <1>4

LEMMA ExpiryKeeps ==
    ASSUME TypeOK, Consistent, NEW k \in Keys, LockExpires(k) \/ CacheExpires(k)
    PROVE  Consistent'
<1> USE DEF Consistent
<1>1. UNCHANGED <<stage, reply, row, bank, log, batch, marking, published, outcome, idem,
                  seen>>
  BY DEF LockExpires, CacheExpires
<1>2. Rows' /\ Announcements'
  BY <1>1, StillRows, StillAnnouncements
<1>3. Positions'
  BY <1>1, StillPosition DEF Positions, Announced
<1>4. \A q \in Keys : Sound(cache'[q], q)
  <2>1. cache' = cache \/ cache' = [cache EXCEPT ![k] = NoSnapshot]
    BY DEF LockExpires, CacheExpires
  <2>2. ASSUME NEW q \in Keys
        PROVE  cache'[q] = cache[q] \/ cache'[q] = NoSnapshot
    BY <2>1 DEF TypeOK
  <2> QED
    BY <2>2, NothingIsSound DEF Snapshots
<1>5. Snapshots'
  BY <1>1, <1>4, QuietSnapshots DEF Snapshots
<1> QED
  BY <1>2, <1>3, <1>5

-----------------------------------------------------------------------------
(* The inductive invariant: steps that create and settle a payment. *)

\* Rows are never deleted and a decided row never changes.
RowsGrow ==
    \A s \in Requests : /\ row[s] \in Final => row'[s] = row[s]
                        /\ Created(s) => Created(s)'

\* A final record never changes.
RecordsGrow ==
    \A k \in Keys : idem[k] # NoSnapshot /\ idem[k].status \in Final => idem'[k] = idem[k]

LEMMA GrowingSound ==
    ASSUME NEW snap \in MaybeSnapshot, NEW k \in Keys, Sound(snap, k), RowsGrow, RecordsGrow
    PROVE  Sound(snap, k)'
<1>1. CASE snap = NoSnapshot
  BY <1>1 DEF Sound
<1>2. CASE snap \in Snapshot
  BY <1>2 DEF Sound, RowsGrow, RecordsGrow, Snapshot
<1> QED
  BY <1>1, <1>2 DEF MaybeSnapshot

LEMMA GrowingSnapshots ==
    ASSUME TypeOK, TypeOK', Snapshots, RowsGrow, RecordsGrow, UNCHANGED seen,
           \A k \in Keys : Sound(cache'[k], k),
           \A k \in Keys : idem'[k] = idem[k] \/ Sound(idem[k], k)',
           \A r \in Requests : /\ Sound(reply'[r].snap, KeyOf[r])
                               /\ reply'[r].kind = "created" => reply'[r].snap # NoSnapshot
    PROVE  Snapshots'
<1>1. \A k \in Keys : idem[k] \in MaybeSnapshot /\ cache'[k] \in MaybeSnapshot
  BY DEF TypeOK
<1>2. \A r \in Requests : /\ seen[r] \in MaybeSnapshot
                          /\ reply'[r].snap \in MaybeSnapshot
                          /\ KeyOf[r] \in Keys
  BY DEF TypeOK
<1>3. \A k \in Keys : Sound(idem[k], k)'
  BY <1>1, GrowingSound DEF Snapshots
<1>4. \A k \in Keys : Sound(cache[k], k)'
  BY <1>1, GrowingSound
<1>5. \A r \in Requests : Sound(seen[r], KeyOf[r])' /\ Sound(reply[r].snap, KeyOf[r])'
  BY <1>2, GrowingSound DEF Snapshots
<1> QED
  BY <1>3, <1>4, <1>5 DEF Snapshots

LEMMA GrowingAnnouncements ==
    ASSUME TypeOK, Announcements, RowsGrow, UNCHANGED <<log, batch, marking, published>>
    PROVE  Announcements'
<1>1. \A i \in 1..Len(log) : log[i] \in Message
  BY DEF TypeOK
<1>2. ASSUME NEW e \in Message \union Snapshot, Truthful(e)
      PROVE  Truthful(e)'
  BY <1>2 DEF Truthful, RowsGrow, Message, Snapshot
<1>3. batch \subseteq Snapshot /\ published \subseteq Requests
  BY DEF TypeOK
<1>4. marking # NoSnapshot => marking \in Snapshot
  BY DEF TypeOK, MaybeSnapshot
<1> QED
  BY <1>1, <1>2, <1>3, <1>4 DEF Announcements, Announced, RowsGrow

\* A request that stores, publishes or marks answers with its own durable result.
LEMMA AnswerKeeps ==
    ASSUME TypeOK, Consistent, NEW r \in Requests, Answer(r),
           stage[r] \in {"storeCache", "publish", "mark"}
    PROVE  /\ stage'[r] = "done"
           /\ \A q \in Requests \ {r} : stage'[q] = stage[q]
           /\ \A q \in Requests : /\ Sound(reply'[q].snap, KeyOf[q])
                                  /\ reply'[q].kind = "created" => reply'[q].snap # NoSnapshot
<1>1. Result(r) # NoSnapshot /\ Sound(Result(r), KeyOf[r])
  BY ResultIsSnapshot
     DEF Consistent, Positions, Position, Sound, Result, Created, StatusOf
<1>2. \E kind, snap : /\ Respond(r, kind, snap)
                      /\ Sound(snap, KeyOf[r])
                      /\ kind = "created" => snap # NoSnapshot
  <2>1. CASE Respond(r, "created", Result(r))
    BY <1>1, <2>1
  <2>2. CASE Respond(r, "declined", NoSnapshot) \/ Respond(r, "unavailable", NoSnapshot)
    BY <2>2, NothingIsSound
  <2> QED
    BY <2>1, <2>2 DEF Answer
<1> QED
  BY <1>2, RespondSound, RespondMoves DEF Consistent

\* A step of r that goes on or ends with an error.
LEMMA StepMoves ==
    ASSUME TypeOK, Consistent, NEW r \in Requests, NEW s,
           Goto(r, s) \/ Respond(r, "error", NoSnapshot)
    PROVE  /\ stage'[r] = "done" \/ stage'[r] = s
           /\ \A q \in Requests \ {r} : stage'[q] = stage[q]
           /\ \A q \in Requests : /\ Sound(reply'[q].snap, KeyOf[q])
                                  /\ reply'[q].kind = "created" => reply'[q].snap # NoSnapshot
<1>1. CASE Goto(r, s)
  BY <1>1, GotoSound, GotoMoves DEF Consistent
<1>2. CASE Respond(r, "error", NoSnapshot)
  BY <1>2, RespondSound, RespondMoves, NothingIsSound DEF Consistent
<1> QED
  BY <1>1, <1>2

\* Every other request keeps its position.
LEMMA OthersKeep ==
    ASSUME Positions, NEW r \in Requests,
           \A s \in Requests \ {r} :
              /\ stage'[s] = stage[s] /\ seen'[s] = seen[s] /\ outcome'[s] = outcome[s]
              /\ row'[s] = row[s] /\ bank'[s] = bank[s]
              /\ stage[s] \in {"storeCache", "publish", "mark"} =>
                     idem'[KeyOf[s]] = idem[KeyOf[s]]
              /\ Announced(s) => Announced(s)',
           Position(r)'
    PROVE  Positions'
<1>1. ASSUME NEW s \in Requests, s # r
      PROVE  Position(s)'
  BY <1>1, StillPosition DEF Positions
<1> QED
  BY <1>1 DEF Positions

LEMMA InsertPaymentKeeps ==
    ASSUME TypeOK, TypeOK', Consistent, NEW r \in Requests, InsertPayment(r)
    PROVE  Consistent'
<1> USE DEF Consistent
<1>1. UNCHANGED <<seen, outcome, published, idem, cache, bank, log, batch, marking>>
  BY DEF InsertPayment
<1>2. /\ stage'[r] = "done" \/ (stage'[r] = "insertIdem" /\ InsertRow(r))
      /\ \A q \in Requests \ {r} : stage'[q] = stage[q]
      /\ \A q \in Requests : /\ Sound(reply'[q].snap, KeyOf[q])
                             /\ reply'[q].kind = "created" => reply'[q].snap # NoSnapshot
  BY StepMoves, GotoMoves, RespondMoves DEF InsertPayment, Writes, Refused
<1>3. InsertRow(r) \/ UNCHANGED row
  BY DEF InsertPayment, Writes
<1>4. /\ \A s \in Requests \ {r} : row'[s] = row[s]
      /\ UNCHANGED row \/ (row[r] = "absent" /\ row'[r] = "processing")
  BY <1>3 DEF InsertRow, SameKey, TypeOK
<1>5. RowsGrow
  BY <1>4 DEF RowsGrow, Created, Final
<1>6. RecordsGrow
  BY <1>1 DEF RecordsGrow
<1>7. Rows'
  <2>1. CASE UNCHANGED row
    BY <1>1, <2>1, StillRows
  <2>2. CASE InsertRow(r)
    BY <1>1, <1>4, <2>2 DEF InsertRow, SameKey, Rows, Created, Asked, TypeOK
  <2> QED
    BY <1>3, <2>1, <2>2
<1>8. Position(r)'
  <2>1. CASE stage'[r] = "done"
    BY <2>1, WaitingPosition DEF Waiting
  <2>2. CASE stage'[r] = "insertIdem" /\ InsertRow(r)
    <3>1. row[r] = "absent" /\ row'[r] = "processing"
      BY <2>2 DEF InsertRow, SameKey, TypeOK
    <3>2. ~Asked(r)'
      BY <1>1, <3>1 DEF Rows, Asked, Created
    <3> QED
      BY <2>2, <3>1, <3>2 DEF Position
  <2> QED
    BY <1>2, <2>1, <2>2
<1>9. Positions'
  BY <1>1, <1>2, <1>4, <1>8, OthersKeep DEF Announced
<1>10. Snapshots'
  BY <1>1, <1>2, <1>5, <1>6, GrowingSnapshots DEF Snapshots
<1>11. Announcements'
  BY <1>1, <1>5, GrowingAnnouncements
<1> QED
  BY <1>7, <1>9, <1>10, <1>11

LEMMA InsertIdemKeeps ==
    ASSUME TypeOK, TypeOK', Consistent, NEW r \in Requests, InsertIdem(r)
    PROVE  Consistent'
<1> USE DEF Consistent
<1>1. UNCHANGED <<seen, outcome, row, published, cache, bank, log, batch, marking>>
  BY DEF InsertIdem
<1>2. /\ stage'[r] = "done" \/ stage'[r] = "bank"
      /\ \A q \in Requests \ {r} : stage'[q] = stage[q]
      /\ \A q \in Requests : /\ Sound(reply'[q].snap, KeyOf[q])
                             /\ reply'[q].kind = "created" => reply'[q].snap # NoSnapshot
  BY StepMoves DEF InsertIdem, Writes, Refused
<1>3. row[r] = "processing" /\ ~Asked(r)
  BY DEF InsertIdem, Positions, Position
<1>4. \A k \in Keys : idem'[k] = idem[k]
                        \/ (/\ idem[k] = NoSnapshot /\ k = KeyOf[r]
                            /\ idem'[k] = [pay |-> r, status |-> "processing"])
  BY DEF InsertIdem, Writes, InsertRecord, TypeOK
<1>5. RowsGrow /\ RecordsGrow
  BY <1>1, <1>4 DEF RowsGrow, RecordsGrow, Created
<1>6. \A k \in Keys : idem'[k] = idem[k] \/ Sound(idem[k], k)'
  BY <1>1, <1>3, <1>4 DEF Sound, Created, Final
<1>7. Rows' /\ Announcements'
  BY <1>1, StillRows, StillAnnouncements
<1>8. Snapshots'
  BY <1>1, <1>2, <1>5, <1>6, GrowingSnapshots DEF Snapshots
<1>9. ASSUME NEW s \in Requests, stage[s] \in {"storeCache", "publish", "mark"}
      PROVE  idem'[KeyOf[s]] = idem[KeyOf[s]]
  <2>1. idem[KeyOf[s]] # NoSnapshot
    BY <1>9, ResultIsSnapshot DEF Positions, Position
  <2> QED
    BY <1>4, <2>1
<1>10. Position(r)'
  BY <1>1, <1>2, <1>3 DEF Position, Asked
<1>11. Positions'
  BY <1>1, <1>2, <1>9, <1>10, OthersKeep DEF Announced
<1> QED
  BY <1>7, <1>8, <1>11

LEMMA AuthorizeKeeps ==
    ASSUME TypeOK, TypeOK', Consistent, NEW r \in Requests, AuthorizePayment(r)
    PROVE  Consistent'
<1> USE DEF Consistent
<1>1. /\ UNCHANGED <<seen, row, published, idem, cache, log, batch, marking>>
      /\ Goto(r, "save")
  BY DEF AuthorizePayment, AskBank
<1>2. PICK did \in BankRecord, concluded \in Outcome :
         /\ BankCall(did, concluded)
         /\ bank' = [bank EXCEPT ![r] = did]
         /\ outcome' = [outcome EXCEPT ![r] = concluded]
  BY DEF AuthorizePayment, AskBank
<1>3. /\ bank'[r] = did /\ outcome'[r] = concluded
      /\ \A s \in Requests \ {r} : bank'[s] = bank[s] /\ outcome'[s] = outcome[s]
  BY <1>2 DEF TypeOK
<1>4. row[r] = "processing"
  BY DEF AuthorizePayment, AskBank, Positions, Position
<1>5. /\ did # "unasked" /\ concluded # "undecided"
      /\ concluded = "completed" => did = "approved"
  BY <1>2 DEF BankCall
<1>6. Rows'
  BY <1>1, <1>3, <1>4, <1>5 DEF Rows, Created, Asked
<1>7. Announcements'
  BY <1>1, StillAnnouncements
<1>8. Snapshots'
  BY <1>1, GotoSound, QuietSnapshots DEF Snapshots
<1>9. stage'[r] = "save" /\ \A q \in Requests \ {r} : stage'[q] = stage[q]
  BY <1>1, GotoMoves
<1>10. Position(r)'
  BY <1>1, <1>3, <1>4, <1>5, <1>9 DEF Position, Asked
<1>11. Positions'
  BY <1>1, <1>3, <1>9, <1>10, OthersKeep DEF Announced
<1> QED
  BY <1>6, <1>7, <1>8, <1>11

LEMMA SaveKeeps ==
    ASSUME TypeOK, TypeOK', Consistent, NEW r \in Requests, SavePayment(r)
    PROVE  Consistent'
<1> USE DEF Consistent
<1>1. UNCHANGED <<seen, outcome, idem, cache, bank, log, batch, marking>>
  BY DEF SavePayment
<1>2. /\ stage'[r] = "done" \/ (stage'[r] = "storeIdem" /\ SaveRow(r))
      /\ \A q \in Requests \ {r} : stage'[q] = stage[q]
      /\ \A q \in Requests : /\ Sound(reply'[q].snap, KeyOf[q])
                             /\ reply'[q].kind = "created" => reply'[q].snap # NoSnapshot
  BY StepMoves, GotoMoves, RespondMoves DEF SavePayment, Writes, Refused
<1>3. /\ row[r] = "processing" /\ Asked(r) /\ outcome[r] # "undecided"
      /\ outcome[r] = "completed" => bank[r] = "approved"
  BY DEF SavePayment, Positions, Position
<1>4. r \notin published
  BY <1>3 DEF Announcements, Final
<1>5. UNCHANGED published
  BY <1>4 DEF SavePayment, Writes, SaveRow
<1>6. /\ \A s \in Requests \ {r} : row'[s] = row[s]
      /\ row' = row \/ row'[r] = StatusOf(outcome[r])
      /\ SaveRow(r) => row'[r] = StatusOf(outcome[r])
  BY DEF SavePayment, Writes, SaveRow, TypeOK
<1>7. RowsGrow /\ RecordsGrow
  BY <1>1, <1>3, <1>6 DEF RowsGrow, RecordsGrow, Created, Final, StatusOf
<1>8. Rows'
  BY <1>1, <1>3, <1>6 DEF Rows, Created, Asked, StatusOf
<1>9. Announcements'
  BY <1>1, <1>5, <1>7, GrowingAnnouncements
<1>10. Snapshots'
  BY <1>1, <1>2, <1>7, GrowingSnapshots DEF Snapshots
<1>11. Position(r)'
  <2>1. CASE stage'[r] = "done"
    BY <2>1, WaitingPosition DEF Waiting
  <2>2. CASE stage'[r] = "storeIdem" /\ SaveRow(r)
    BY <1>1, <1>3, <1>6, <2>2 DEF Position, Asked
  <2> QED
    BY <1>2, <2>1, <2>2
<1>12. Positions'
  BY <1>1, <1>2, <1>6, <1>11, OthersKeep DEF Announced
<1> QED
  BY <1>8, <1>9, <1>10, <1>12

\* A final record of the key already holds what a second store would write.
LEMMA StoreIdemKeeps ==
    ASSUME TypeOK, TypeOK', Consistent, NEW r \in Requests, StoreIdem(r)
    PROVE  Consistent'
<1> USE DEF Consistent
<1>1. UNCHANGED <<seen, outcome, row, published, cache, bank, log, batch, marking>>
  BY DEF StoreIdem
<1>2. /\ stage'[r] = "done" \/ (stage'[r] = "storeCache" /\ UpdateRecord(r))
      /\ \A q \in Requests \ {r} : stage'[q] = stage[q]
      /\ \A q \in Requests : /\ Sound(reply'[q].snap, KeyOf[q])
                             /\ reply'[q].kind = "created" => reply'[q].snap # NoSnapshot
  BY StepMoves, GotoMoves, RespondMoves DEF StoreIdem, Writes, Refused
<1>3. /\ row[r] = StatusOf(outcome[r]) /\ Created(r) /\ KeyOf[r] \in Keys
      /\ outcome[r] # "undecided" /\ Asked(r)
      /\ outcome[r] = "completed" => bank[r] = "approved"
  BY DEF StoreIdem, Positions, Position, Created, StatusOf
<1>4. /\ \A k \in Keys \ {KeyOf[r]} : idem'[k] = idem[k]
      /\ idem' = idem \/ idem'[KeyOf[r]] = Result(r)
      /\ UpdateRecord(r) => idem'[KeyOf[r]] = Result(r)
  BY <1>3 DEF StoreIdem, Writes, UpdateRecord, TypeOK
<1>5. RowsGrow
  BY <1>1 DEF RowsGrow, Created
<1>6. RecordsGrow
  <2>1. ASSUME idem[KeyOf[r]] # NoSnapshot, idem[KeyOf[r]].status \in Final
        PROVE  idem[KeyOf[r]] = Result(r)
    <3> DEFINE snap == idem[KeyOf[r]]
    <3>1. snap \in Snapshot
      BY <1>3, <2>1 DEF TypeOK, MaybeSnapshot
    <3>2. KeyOf[snap.pay] = KeyOf[r] /\ Created(snap.pay) /\ row[snap.pay] = snap.status
      BY <1>3, <2>1 DEF Snapshots, Sound
    <3>3. snap.pay = r
      BY <1>3, <3>1, <3>2 DEF Rows, Snapshot
    <3> QED
      BY <1>3, <3>1, <3>2, <3>3 DEF Result, Snapshot
  <2> QED
    BY <1>4, <2>1 DEF RecordsGrow
<1>7. \A k \in Keys : idem'[k] = idem[k] \/ Sound(idem[k], k)'
  <2>1. ASSUME idem'[KeyOf[r]] = Result(r)
        PROVE  Sound(idem[KeyOf[r]], KeyOf[r])'
    BY <1>1, <1>3, <2>1 DEF Sound, Result, Created
  <2> QED
    BY <1>4, <2>1
<1>8. Rows' /\ Announcements'
  BY <1>1, StillRows, StillAnnouncements
<1>9. Snapshots'
  BY <1>1, <1>2, <1>5, <1>6, <1>7, GrowingSnapshots DEF Snapshots
<1>10. ASSUME NEW s \in Requests \ {r}, stage[s] \in {"storeCache", "publish", "mark"}
       PROVE  idem'[KeyOf[s]] = idem[KeyOf[s]]
  <2>1. Created(s)
    BY <1>10 DEF Positions, Position, Created, StatusOf
  <2>2. KeyOf[s] # KeyOf[r]
    BY <1>3, <2>1 DEF Rows
  <2> QED
    BY <1>4, <2>2
<1>11. Position(r)'
  <2>1. CASE stage'[r] = "done"
    BY <2>1, WaitingPosition DEF Waiting
  <2>2. CASE stage'[r] = "storeCache" /\ UpdateRecord(r)
    BY <1>1, <1>3, <1>4, <2>2 DEF Position, Asked, Result
  <2> QED
    BY <1>2, <2>1, <2>2
<1>12. Positions'
  BY <1>1, <1>2, <1>10, <1>11, OthersKeep DEF Announced
<1> QED
  BY <1>8, <1>9, <1>12

LEMMA StoreCacheKeeps ==
    ASSUME TypeOK, TypeOK', Consistent, NEW r \in Requests, StoreCache(r)
    PROVE  Consistent'
<1> USE DEF Consistent
<1>1. UNCHANGED <<seen, outcome, row, published, idem, bank, log, batch, marking>>
  BY DEF StoreCache
<1>2. Position(r) /\ stage[r] = "storeCache"
  BY DEF StoreCache, Positions
<1>3. /\ \/ stage'[r] = "done"
         \/ stage'[r] = "publish" /\ outcome[r] = "completed"
      /\ \A q \in Requests \ {r} : stage'[q] = stage[q]
      /\ \A q \in Requests : /\ Sound(reply'[q].snap, KeyOf[q])
                             /\ reply'[q].kind = "created" => reply'[q].snap # NoSnapshot
  <2>1. CASE Answer(r)
    BY <1>2, <2>1, AnswerKeeps
  <2>2. CASE outcome[r] = "completed" /\ Goto(r, "publish")
    BY <2>2, GotoMoves, GotoSound
  <2> QED
    BY <2>1, <2>2 DEF StoreCache
<1>4. Sound(Result(r), KeyOf[r])
  BY <1>2 DEF Position, Sound, Result, Created, StatusOf
<1>5. \A k \in Keys : Sound(cache'[k], k)
  <2>1. CASE UNCHANGED cache
    BY <2>1 DEF Snapshots
  <2>2. CASE cache' = [cache EXCEPT ![KeyOf[r]] = Result(r)]
    BY <1>4, <2>2 DEF Snapshots, TypeOK
  <2> QED
    BY <2>1, <2>2 DEF StoreCache
<1>6. Rows' /\ Announcements'
  BY <1>1, StillRows, StillAnnouncements
<1>7. Snapshots'
  BY <1>1, <1>3, <1>5, QuietSnapshots DEF Snapshots
<1>8. Position(r)'
  <2>1. CASE stage'[r] = "done"
    BY <2>1, WaitingPosition DEF Waiting
  <2>2. CASE stage'[r] = "publish" /\ outcome[r] = "completed"
    BY <1>1, <1>2, <2>2 DEF Position, Asked, Result
  <2> QED
    BY <1>3, <2>1, <2>2
<1>9. Positions'
  BY <1>1, <1>3, <1>8, OthersKeep DEF Announced
<1> QED
  BY <1>6, <1>7, <1>9

\* What a publication of a truthful snapshot leaves behind is truthful.
LEMMA ExtendedAnnouncements ==
    ASSUME TypeOK, Announcements, NEW snap \in Snapshot, Truthful(snap), Extended(snap),
           UNCHANGED <<row, published>>, batch' \subseteq batch,
           \/ marking' \in {marking, NoSnapshot}
           \/ marking' = snap /\ Announced(snap.pay)'
    PROVE  Announcements'
<1>1. \A i \in 1..Len(log') : Truthful(log'[i])
  BY DEF Announcements, Extended, Truthful
<1>2. \A e \in batch' : Truthful(e)
  BY DEF Announcements
<1>3. \A p \in Requests : Announced(p) => Announced(p)'
  BY DEF Extended
<1>4. \A p \in published : row[p] \in Final /\ Announced(p)'
  BY <1>3 DEF Announcements, TypeOK
<1>5. marking' # NoSnapshot => Truthful(marking') /\ (\E i \in 1..Len(log') : log'[i].pay = marking'.pay)
  <2>1. CASE marking' = snap /\ Announced(snap.pay)'
    BY <2>1 DEF Announced
  <2>2. CASE marking' = marking /\ marking # NoSnapshot
    <3>1. marking.pay \in Requests /\ Announced(marking.pay)
      BY <2>2 DEF TypeOK, MaybeSnapshot, Snapshot, Announcements
    <3>2. PICK p \in Requests : p = marking.pay
      BY <3>1
    <3>3. Announced(p)'
      BY <1>3, <3>1, <3>2
    <3> QED
      BY <2>2, <3>2, <3>3 DEF Announced, Announcements
  <2> QED
    BY <2>1, <2>2
<1> QED
  BY <1>1, <1>2, <1>4, <1>5 DEF Announcements, Truthful, Announced

LEMMA PublishKeeps ==
    ASSUME TypeOK, TypeOK', Consistent, NEW r \in Requests, Publish(r)
    PROVE  Consistent'
<1> USE DEF Consistent
<1>1. UNCHANGED <<seen, outcome, row, published, idem, cache, bank, batch, marking>>
  BY DEF Publish
<1>2. Position(r) /\ stage[r] = "publish"
  BY DEF Publish, Positions
<1>3. Result(r) \in Snapshot /\ Result(r).pay = r
  BY ResultIsSnapshot DEF Result
<1>4. Truthful(Result(r))
  BY <1>2 DEF Position, Truthful, Result, StatusOf, Final
<1>5. Extended(Result(r))
  BY <1>3, WritesExtend, FailuresExtend DEF Publish
<1>6. /\ \/ stage'[r] = "done"
         \/ stage'[r] = "mark" /\ Announced(r)'
      /\ \A q \in Requests \ {r} : stage'[q] = stage[q]
      /\ \A q \in Requests : /\ Sound(reply'[q].snap, KeyOf[q])
                             /\ reply'[q].kind = "created" => reply'[q].snap # NoSnapshot
  <2>1. CASE Answer(r)
    BY <1>2, <2>1, AnswerKeeps
  <2>2. CASE KafkaWrites(Result(r)) /\ Goto(r, "mark")
    BY <1>3, <2>2, WritesExtend, GotoMoves, GotoSound
  <2> QED
    BY <2>1, <2>2 DEF Publish
<1>7. Rows'
  BY <1>1, StillRows
<1>8. Announcements'
  BY <1>1, <1>3, <1>4, <1>5, ExtendedAnnouncements
<1>9. Snapshots'
  BY <1>1, <1>6, QuietSnapshots DEF Snapshots
<1>10. Position(r)'
  <2>1. CASE stage'[r] = "done"
    BY <2>1, WaitingPosition DEF Waiting
  <2>2. CASE stage'[r] = "mark" /\ Announced(r)'
    BY <1>1, <1>2, <2>2 DEF Position, Asked, Result
  <2> QED
    BY <1>6, <2>1, <2>2
<1>11. Positions'
  BY <1>1, <1>5, <1>6, <1>10, OthersKeep DEF Extended
<1> QED
  BY <1>7, <1>8, <1>9, <1>11

LEMMA MarkKeeps ==
    ASSUME TypeOK, TypeOK', Consistent, NEW r \in Requests, Mark(r)
    PROVE  Consistent'
<1> USE DEF Consistent
<1>1. /\ UNCHANGED <<seen, outcome, row, idem, cache, bank, log, batch, marking>>
      /\ published' = published \/ published' = published \union {r}
  BY DEF Mark, MarkEventPublished
<1>2. Position(r) /\ stage[r] = "mark"
  BY DEF Mark, Positions
<1>3. /\ stage'[r] = "done"
      /\ \A q \in Requests \ {r} : stage'[q] = stage[q]
      /\ \A q \in Requests : /\ Sound(reply'[q].snap, KeyOf[q])
                             /\ reply'[q].kind = "created" => reply'[q].snap # NoSnapshot
  BY <1>2, AnswerKeeps DEF Mark
<1>4. Rows'
  BY <1>1, StillRows
<1>5. row[r] \in Final /\ Announced(r)
  BY <1>2 DEF Position, StatusOf, Final
<1>6. Announcements'
  BY <1>1, <1>5 DEF Announcements, Truthful, Announced
<1>7. Snapshots'
  BY <1>1, <1>3, QuietSnapshots DEF Snapshots
<1>8. Positions'
  BY <1>1, <1>3, WaitingPosition, OthersKeep DEF Waiting, Announced
<1> QED
  BY <1>4, <1>6, <1>7, <1>8

-----------------------------------------------------------------------------
(* The inductive invariant: the recovery job and the crash. *)

\* A step of the recovery job leaves every request where it is.
LEMMA RecoveryFrame ==
    ASSUME TypeOK, Positions, Rows, Snapshots,
           UNCHANGED <<stage, local, reply, row, idem, cache, bank>>,
           \A r \in Requests : Announced(r) => Announced(r)'
    PROVE  Positions' /\ Rows' /\ Snapshots'
<1>1. Positions'
  BY StillPosition DEF Positions
<1>2. Snapshots'
  BY QuietSnapshots DEF Snapshots
<1> QED
  BY <1>1, <1>2, StillRows

LEMMA RecoveryKeeps ==
    ASSUME TypeOK, TypeOK', Consistent, RecoveryStep
    PROVE  Consistent'
<1> USE DEF Consistent
<1>1. CASE RecoveryScan
  <2>1. UNCHANGED <<stage, local, reply, row, idem, cache, bank, log, published, marking>>
    BY <1>1 DEF RecoveryScan
  <2>2. \A snap \in batch' : Truthful(snap)
    BY <1>1 DEF RecoveryScan, GetAllUnpublished, Truthful, TypeOK
  <2>3. Announcements'
    BY <2>1, <2>2 DEF Announcements, Truthful, Announced
  <2> QED
    BY <2>1, <2>3, RecoveryFrame DEF Announced
<1>2. ASSUME NEW snap \in batch, RecoveryPublishes(snap)
      PROVE  Consistent'
  <2>1. snap \in Snapshot /\ Truthful(snap)
    BY DEF TypeOK, Announcements
  <2>2. Extended(snap) /\ Announced(snap.pay)'
    BY <1>2, <2>1, WritesExtend DEF RecoveryPublishes
  <2>3. /\ UNCHANGED <<stage, local, reply, row, idem, cache, bank, published>>
        /\ batch' \subseteq batch /\ marking' = snap
    BY <1>2 DEF RecoveryPublishes
  <2>4. Announcements'
    BY <2>1, <2>2, <2>3, ExtendedAnnouncements
  <2> QED
    BY <2>2, <2>3, <2>4, RecoveryFrame DEF Extended
<1>3. ASSUME NEW snap \in batch, RecoveryPublishFails(snap)
      PROVE  Consistent'
  <2>1. snap \in Snapshot /\ Truthful(snap)
    BY DEF TypeOK, Announcements
  <2>2. Extended(snap)
    BY <1>3, <2>1, FailuresExtend DEF RecoveryPublishFails
  <2>3. /\ UNCHANGED <<stage, local, reply, row, idem, cache, bank, published>>
        /\ batch' \subseteq batch /\ marking' = NoSnapshot
    BY <1>3 DEF RecoveryPublishFails
  <2>4. Announcements'
    BY <2>1, <2>2, <2>3, ExtendedAnnouncements
  <2> QED
    BY <2>2, <2>3, <2>4, RecoveryFrame DEF Extended
<1>4. CASE RecoveryMark
  <2>1. /\ UNCHANGED <<stage, local, reply, row, idem, cache, bank, log, batch>>
        /\ published' = published \/ published' = published \union {marking.pay}
        /\ marking # NoSnapshot /\ marking' = NoSnapshot
    BY <1>4 DEF RecoveryMark, MarkEventPublished
  <2>2. row[marking.pay] \in Final /\ Announced(marking.pay)
    BY <2>1 DEF Announcements, Truthful
  <2>3. Announcements'
    BY <2>1, <2>2 DEF Announcements, Truthful, Announced
  <2> QED
    BY <2>1, <2>3, RecoveryFrame DEF Announced
<1> QED
  BY <1>1, <1>2, <1>3, <1>4 DEF RecoveryStep

LEMMA CrashKeeps ==
    ASSUME TypeOK, Consistent, Crash
    PROVE  Consistent'
<1> USE DEF Consistent
<1>1. /\ UNCHANGED <<seen, outcome, reply, row, published, idem, cache, bank, log>>
      /\ batch' = {} /\ marking' = NoSnapshot
  BY DEF Crash
<1>2. \A r \in Requests : stage'[r] \in Waiting
  BY DEF Crash, Waiting
<1>3. Positions'
  BY <1>2, WaitingPosition DEF Positions
<1>4. Snapshots'
  BY <1>1, QuietSnapshots DEF Snapshots
<1>5. Announcements'
  BY <1>1 DEF Announcements, Truthful, Announced
<1> QED
  BY <1>1, <1>3, <1>4, <1>5, StillRows

LEMMA ConsistentInit == Init => Consistent
BY DEF Init, Consistent, Positions, Position, Rows, Snapshots, Sound, Announcements,
       Created, Asked

LEMMA ConsistentStep == TypeOK /\ TypeOK' /\ Consistent /\ [Next]_vars => Consistent'
<1> SUFFICES ASSUME TypeOK, TypeOK', Consistent, [Next]_vars
             PROVE  Consistent'
  OBVIOUS
<1>1. ASSUME NEW r \in Requests, CreateStep(r)
      PROVE  Consistent'
  BY <1>1, InsertPaymentKeeps, InsertIdemKeeps, AuthorizeKeeps, SaveKeeps, StoreIdemKeeps,
     StoreCacheKeeps, PublishKeeps, MarkKeeps DEF CreateStep
<1>2. ASSUME NEW r \in Requests, Arrive(r) \/ RequestStep(r)
      PROVE  Consistent'
  BY <1>1, <1>2, LookupKeeps, LockKeeps DEF RequestStep
<1>3. CASE UNCHANGED vars
  <2>1. UNCHANGED <<stage, local, reply, row, published, idem, cache, bank, log, batch,
                    marking>>
    BY <1>3 DEF vars
  <2> QED
    BY <2>1, RecoveryFrame, StillAnnouncements DEF Consistent, Announced
<1> QED
  BY <1>2, <1>3, ExpiryKeeps, RecoveryKeeps, CrashKeeps DEF Next

-----------------------------------------------------------------------------
(* The theorems. *)

\* Where requests stand, what Postgres, Redis and Kafka hold and what clients were
\* told agree in every reachable state, under every combination of faults.
THEOREM PaymentConsistent == Spec => [](TypeOK /\ Consistent)
<1>1. Init => TypeOK /\ Consistent
  BY TypeInit, ConsistentInit
<1>2. TypeOK /\ Consistent /\ [Next]_vars => (TypeOK /\ Consistent)'
  BY TypeStep, ConsistentStep
<1> QED
  BY <1>1, <1>2, PTL DEF Spec

\* The bank is never asked twice for one key.
THEOREM BankAskedOnce == Spec => []OneBankCallPerKey
<1>1. Consistent => OneBankCallPerKey
  BY DEF Consistent, Rows, OneBankCallPerKey
<1> QED
  BY <1>1, PaymentConsistent, PTL

\* Every answer that shows a payment of a key shows the same payment.
THEOREM SamePaymentShown == Spec => []OnePaymentShownPerKey
<1>1. TypeOK /\ Consistent => OnePaymentShownPerKey
  <2> SUFFICES ASSUME TypeOK, Consistent, NEW r \in Requests, NEW s \in Requests,
                      reply[r].kind = "created", reply[s].kind = "created",
                      KeyOf[r] = KeyOf[s]
               PROVE  reply[r].snap.pay = reply[s].snap.pay
    BY DEF OnePaymentShownPerKey
  <2>1. reply[r].snap \in Snapshot /\ reply[s].snap \in Snapshot
    BY DEF TypeOK, Consistent, Snapshots, MaybeSnapshot
  <2> QED
    BY <2>1 DEF Consistent, Snapshots, Sound, Rows, Snapshot
<1> QED
  BY <1>1, PaymentConsistent, PTL

\* No stored or given answer is final before the payment's row is, and a client told of
\* an outcome can have the answer replayed from the database.
THEOREM AnswersTrailStores == Spec => []AnswersAreBacked
<1>1. TypeOK /\ Consistent => AnswersAreBacked
  BY DEF TypeOK, Consistent, Snapshots, Sound, AnswersAreBacked
<1> QED
  BY <1>1, PaymentConsistent, PTL

\* The topic holds only true announcements, of decided payments, and what is marked
\* published is in the topic.
THEOREM TopicIsTruthful == Spec => []EventsTellTheOutcome
<1>1. TypeOK /\ Consistent => EventsTellTheOutcome
  <2> SUFFICES ASSUME TypeOK, Consistent, NEW i \in 1..Len(log)
               PROVE  /\ row[log[i].pay] = log[i].status
                      /\ EventType(log[i].status) = "payment.succeeded"
                           => /\ log[i].status = "completed"
                              /\ bank[log[i].pay] = "approved"
    BY DEF EventsTellTheOutcome, Consistent, Announcements, Announced
  <2>1. Truthful(log[i])
    BY DEF Consistent, Announcements
  <2>2. log[i] \in Message
    BY DEF TypeOK
  <2>3. log[i].pay \in Requests
    BY <2>2 DEF Message
  <2> QED
    BY <2>1, <2>3 DEF Truthful, Final, EventType, Consistent, Rows
<1> QED
  BY <1>1, PaymentConsistent, PTL

\* A row changes only under the request that created it, while it is "processing".
LEMMA RowsSettle ==
    ASSUME TypeOK, Consistent, Next, NEW r \in Requests
    PROVE  /\ row[r] \in Final => row'[r] = row[r]
           /\ r \in published => r \in published'
<1> SUFFICES ASSUME ~UNCHANGED <<row, published>>
             PROVE  /\ row[r] \in Final => row'[r] = row[r]
                    /\ r \in published => r \in published'
  OBVIOUS
<1>1. ASSUME NEW s \in Requests, CreateStep(s)
      PROVE  /\ row[r] \in Final => row'[r] = row[r]
             /\ r \in published => r \in published'
  <2>1. CASE InsertPayment(s)
    BY <2>1 DEF InsertPayment, Writes, InsertRow, SameKey, TypeOK, Final
  <2>2. CASE SavePayment(s)
    <3>1. row[s] = "processing"
      BY <2>2 DEF SavePayment, Consistent, Positions, Position
    <3>2. s \notin published
      BY <3>1 DEF Consistent, Announcements, Final
    <3> QED
      BY <2>2, <3>1, <3>2 DEF SavePayment, Writes, SaveRow, TypeOK, Final
  <2>3. CASE Mark(s)
    BY <2>3 DEF Mark, MarkEventPublished
  <2> QED
    BY <1>1, <2>1, <2>2, <2>3 DEF CreateStep, InsertIdem, AuthorizePayment, AskBank,
       StoreIdem, StoreCache, Publish
<1>2. CASE RecoveryStep
  BY <1>2 DEF RecoveryStep, RecoveryScan, RecoveryPublishes, RecoveryPublishFails,
     RecoveryMark, MarkEventPublished
<1> QED
  BY <1>1, <1>2 DEF Next, RequestStep, LookupStep, Arrive, CacheHit, CacheMiss,
     PollCancelled, RecordFound, RecordMissing, RecordError, FillCache, LockAcquired,
     LockRefused, LockExpires, CacheExpires, Crash

\* A record is written over only by the payment it is the record of.
LEMMA RecordsSettle ==
    ASSUME TypeOK, Consistent, [Next]_vars, NEW k \in Keys, idem[k] # NoSnapshot,
           idem'[k] # idem[k]
    PROVE  /\ idem[k].status = "processing"
           /\ \E s \in Final : idem'[k] = [idem[k] EXCEPT !.status = s]
<1>1. \E r \in Requests : InsertIdem(r) \/ StoreIdem(r)
  <2> SUFFICES ASSUME \A r \in Requests : ~InsertIdem(r) /\ ~StoreIdem(r)
               PROVE  UNCHANGED idem
    OBVIOUS
  <2> QED
    BY DEF Next, RequestStep, LookupStep, CreateStep, RecoveryStep, Arrive, CacheHit,
           CacheMiss, RecordFound, RecordMissing, RecordError, FillCache, PollCancelled,
           LockAcquired, LockRefused, LockExpires, CacheExpires, InsertPayment,
           AuthorizePayment, AskBank, SavePayment, StoreCache, Publish, Mark, RecoveryScan,
           RecoveryPublishes, RecoveryPublishFails, RecoveryMark, Crash, vars
<1>2. PICK s \in Requests : InsertIdem(s) \/ StoreIdem(s)
  BY <1>1
<1>3. ~InsertIdem(s)
  BY <1>2 DEF InsertIdem, InsertRecord, Writes, TypeOK
<1>4. /\ k = KeyOf[s] /\ idem'[k] = Result(s) /\ stage[s] = "storeIdem"
  BY <1>2, <1>3 DEF StoreIdem, UpdateRecord, Writes, TypeOK
<1>5. row[s] = StatusOf(outcome[s])
  BY <1>4 DEF Consistent, Positions, Position
<1>6. idem[k] \in Snapshot /\ idem[k].pay = s
  <2>1. KeyOf[idem[k].pay] = k /\ Created(idem[k].pay)
    BY DEF Consistent, Snapshots, Sound
  <2>2. idem[k] \in Snapshot /\ idem[k].pay \in Requests
    BY DEF TypeOK, MaybeSnapshot, Snapshot
  <2>3. Created(s)
    BY <1>5 DEF Created, StatusOf
  <2> QED
    BY <1>4, <2>1, <2>2, <2>3 DEF Consistent, Rows
<1>7. idem[k] = [pay |-> s, status |-> idem[k].status]
      /\ idem[k].status \in Final \union {"processing"}
  BY <1>6 DEF Snapshot
<1>8. idem[k].status = "processing"
  <2>1. idem[k].status \in Final => row[s] = idem[k].status
    BY <1>6 DEF Consistent, Snapshots, Sound
  <2>2. idem[k].status \in Final => idem'[k] = idem[k]
    BY <1>4, <1>5, <1>7, <2>1 DEF Result
  <2> QED
    BY <1>7, <2>2
<1>9. idem'[k] = [idem[k] EXCEPT !.status = StatusOf(outcome[s])]
  BY <1>4, <1>7 DEF Result
<1> QED
  BY <1>8, <1>9 DEF StatusOf, Final

\* No step of any request or of the recovery job undoes a decision or a publication; and
\* what the database replays never goes back, however often the lock expires: what the
\* README promises of replays holds of the durable records.
THEOREM DecisionsStand == Spec => DecisionsAreFinal
<1>1. TypeOK /\ Consistent /\ [Next]_vars =>
        [(\A r \in Requests : RowStands(r)) /\ (\A k \in Keys : RecordStands(k))]_vars
  BY RowsSettle, RecordsSettle DEF RowStands, RecordStands
<1> QED
  BY <1>1, PaymentConsistent, PTL DEF Spec, DecisionsAreFinal

-----------------------------------------------------------------------------
(* The bank is asked on record. *)

\* A request about to ask the bank, or that has asked it, owns the record of its key.
Recorded ==
    \A r \in Requests : At(r, "bank") \/ Asked(r)
        => idem[KeyOf[r]] # NoSnapshot /\ idem[KeyOf[r]].pay = r

LEMMA RecordedInit == Init => Recorded
BY DEF Init, Recorded, Asked

\* A step that leaves the record and the bank alone, and brings nobody to the bank.
LEMMA StillRecorded ==
    ASSUME Recorded, UNCHANGED <<idem, bank>>,
           \A r \in Requests : stage'[r] = "bank" => stage[r] = "bank"
    PROVE  Recorded'
BY DEF Recorded, Asked

LEMMA InsertIdemRecords ==
    ASSUME TypeOK, Consistent, Recorded, NEW s \in Requests, InsertIdem(s)
    PROVE  Recorded'
<1>1. CASE InsertRecord(s)
  <2>1. idem' = [idem EXCEPT ![KeyOf[s]] = [pay |-> s, status |-> "processing"]]
    BY <1>1 DEF InsertRecord
  <2>2. idem[KeyOf[s]] = NoSnapshot /\ KeyOf[s] \in Keys
    BY <1>1 DEF InsertRecord
  <2>3. [pay |-> s, status |-> "processing"] \in Snapshot
    BY DEF Snapshot
  <2>4. \A q \in Requests \ {s} : stage'[q] = stage[q]
    BY GotoMoves, RespondMoves DEF InsertIdem, Writes, Refused
  <2>5. UNCHANGED bank
    BY DEF InsertIdem
  <2>6. ASSUME NEW r \in Requests, (At(r, "bank") \/ Asked(r))'
        PROVE  idem'[KeyOf[r]] # NoSnapshot /\ idem'[KeyOf[r]].pay = r
    <3>1. CASE r = s
      <4>1. idem'[KeyOf[r]] = [pay |-> s, status |-> "processing"]
        BY <2>1, <2>2, <3>1 DEF TypeOK
      <4> QED
        BY <2>3, <3>1, <4>1
    <3>2. CASE r # s
      <4>1. At(r, "bank") \/ Asked(r)
        BY <2>4, <2>5, <2>6, <3>2 DEF Asked
      <4>2. idem[KeyOf[r]] # NoSnapshot /\ idem[KeyOf[r]].pay = r
        BY <4>1 DEF Recorded
      <4>3. idem'[KeyOf[r]] = idem[KeyOf[r]]
        BY <2>1, <2>2, <4>2 DEF TypeOK
      <4> QED
        BY <4>2, <4>3
    <3> QED
      BY <3>1, <3>2
  <2> QED
    BY <2>6 DEF Recorded
<1>2. CASE Refused(s, idem[KeyOf[s]] # NoSnapshot) /\ UNCHANGED idem
  <2>1. UNCHANGED <<idem, bank>>
    BY <1>2 DEF InsertIdem
  <2>2. \A r \in Requests : stage'[r] = "bank" => stage[r] = "bank"
    BY <1>2, RespondMoves DEF Refused
  <2> QED
    BY <2>1, <2>2, StillRecorded
<1> QED
  BY <1>1, <1>2 DEF InsertIdem, Writes

LEMMA StoreIdemRecords ==
    ASSUME TypeOK, Consistent, Recorded, NEW s \in Requests, StoreIdem(s)
    PROVE  Recorded'
<1>1. /\ UNCHANGED bank
      /\ idem' = idem \/ idem' = [idem EXCEPT ![KeyOf[s]] = Result(s)]
      /\ stage[s] = "storeIdem"
  BY DEF StoreIdem, Writes, UpdateRecord
<1>2. \A r \in Requests : stage'[r] = "bank" => stage[r] = "bank"
  BY GotoMoves, RespondMoves DEF StoreIdem, Writes, Refused
<1>3. CASE idem' = idem
  BY <1>1, <1>2, <1>3, StillRecorded
<1>4. CASE idem' = [idem EXCEPT ![KeyOf[s]] = Result(s)]
  <2>1. Created(s)
    BY <1>1 DEF Consistent, Positions, Position, Rows
  <2>2. ASSUME NEW r \in Requests, (At(r, "bank") \/ Asked(r))'
        PROVE  idem'[KeyOf[r]] # NoSnapshot /\ idem'[KeyOf[r]].pay = r
    <3>1. At(r, "bank") \/ Asked(r)
      BY <1>1, <1>2, <2>2 DEF Asked
    <3>2. idem[KeyOf[r]] # NoSnapshot /\ idem[KeyOf[r]].pay = r
      BY <3>1 DEF Recorded
    <3>3. CASE KeyOf[r] # KeyOf[s]
      BY <1>4, <3>2, <3>3 DEF TypeOK
    <3>4. CASE KeyOf[r] = KeyOf[s]
      <4>1. Created(r)
        BY <3>1 DEF Consistent, Positions, Position, Rows, Created
      <4>2. r = s
        BY <2>1, <3>4, <4>1 DEF Consistent, Rows
      <4>3. idem'[KeyOf[r]] = Result(s)
        BY <1>4, <3>4 DEF TypeOK
      <4>4. Result(s) # NoSnapshot /\ Result(s).pay = s
        BY ResultIsSnapshot DEF Result
      <4> QED
        BY <4>2, <4>3, <4>4
    <3> QED
      BY <3>3, <3>4
  <2> QED
    BY <2>2 DEF Recorded
<1> QED
  BY <1>1, <1>3, <1>4

LEMMA RecordedStep == TypeOK /\ Consistent /\ Recorded /\ [Next]_vars => Recorded'
<1> SUFFICES ASSUME TypeOK, Consistent, Recorded, [Next]_vars
             PROVE  Recorded'
  OBVIOUS
<1>1. ASSUME NEW s \in Requests, CreateStep(s)
      PROVE  Recorded'
  <2>1. CASE AuthorizePayment(s)
    <3>1. UNCHANGED idem /\ stage[s] = "bank"
      BY <2>1 DEF AuthorizePayment, AskBank
    <3>2. /\ stage'[s] = "save"
          /\ \A q \in Requests \ {s} : stage'[q] = stage[q] /\ bank'[q] = bank[q]
      BY <2>1, GotoMoves DEF AuthorizePayment, AskBank, TypeOK
    <3> QED
      BY <3>1, <3>2 DEF Recorded, Asked
  <2>2. CASE InsertPayment(s) \/ SavePayment(s) \/ StoreCache(s) \/ Publish(s) \/ Mark(s)
    <3>1. UNCHANGED <<idem, bank>>
      BY <2>2 DEF InsertPayment, SavePayment, StoreCache, Publish, Mark
    <3>2. \A r \in Requests : stage'[r] = "bank" => stage[r] = "bank"
      BY <2>2, GotoMoves, RespondMoves DEF InsertPayment, SavePayment, StoreCache, Publish,
         Mark, Writes, Refused, Answer
    <3> QED
      BY <3>1, <3>2, StillRecorded
  <2> QED
    BY <1>1, <2>1, <2>2, InsertIdemRecords, StoreIdemRecords DEF CreateStep
<1>2. ASSUME NEW s \in Requests,
             Arrive(s) \/ LookupStep(s) \/ LockAcquired(s) \/ LockRefused(s)
      PROVE  Recorded'
  <2>1. UNCHANGED <<idem, bank>>
    BY <1>2 DEF Arrive, LookupStep, CacheHit, CacheMiss, PollCancelled, RecordFound,
       RecordMissing, RecordError, FillCache, LockAcquired, LockRefused
  <2>2. \A r \in Requests : stage'[r] = "bank" => stage[r] = "bank"
    BY <1>2, GotoMoves, RespondMoves DEF Arrive, LookupStep, CacheHit, CacheMiss,
       PollCancelled, RecordFound, RecordMissing, RecordError, FillCache, Continue,
       LockAcquired, LockRefused
  <2> QED
    BY <2>1, <2>2, StillRecorded
<1>3. CASE RecoveryStep \/ (\E k \in Keys : LockExpires(k) \/ CacheExpires(k))
            \/ UNCHANGED vars
  <2>1. UNCHANGED <<stage, idem, bank>>
    BY <1>3 DEF RecoveryStep, RecoveryScan, RecoveryPublishes, RecoveryPublishFails,
       RecoveryMark, LockExpires, CacheExpires, vars
  <2> QED
    BY <2>1, StillRecorded
<1>4. CASE Crash
  BY <1>4, StillRecorded DEF Crash
<1> QED
  BY <1>1, <1>2, <1>3, <1>4 DEF Next, RequestStep

\* Whatever becomes of a call to the bank, the payment it is about can be found by its key.
THEOREM BankCallsRecorded == Spec => []BankCallsAreRecorded
<1>1. Recorded => BankCallsAreRecorded
  BY DEF Recorded, BankCallsAreRecorded
<1> QED
  BY <1>1, PaymentConsistent, RecordedInit, RecordedStep, PTL DEF Spec

-----------------------------------------------------------------------------
(* Clients are told what the bank did. *)

\* "declined" is the bank's word, in memory as in the answer.
Honest ==
    \A r \in Requests :
        /\ outcome[r] = "declined" => bank[r] = "declined"
        /\ reply[r].kind = "declined" => At(r, "done") /\ outcome[r] = "declined"

LEMMA HonestInit == Init => Honest
BY DEF Init, Honest

\* A step that decides nothing and tells nobody of a decline.
LEMMA StillHonest ==
    ASSUME Honest, UNCHANGED <<outcome, bank>>,
           \A r \in Requests : /\ stage[r] = "done" => stage'[r] = "done"
                               /\ reply'[r].kind = "declined" => reply[r].kind = "declined"
    PROVE  Honest'
BY DEF Honest

\* A step of a request that only moves on, or ends with another answer than a decline.
LEMMA OtherwiseHonest ==
    ASSUME TypeOK, Honest, NEW s \in Requests, stage[s] # "done",
           UNCHANGED <<outcome, bank>>,
           \/ \E t \in Stage : Goto(s, t)
           \/ \E kind \in ReplyKind \ {"declined"}, snap \in MaybeSnapshot :
                Respond(s, kind, snap)
    PROVE  Honest'
<1>1. CASE \E t \in Stage : Goto(s, t)
  <2>1. \A r \in Requests : stage[r] = "done" => stage'[r] = "done"
    BY <1>1, GotoMoves
  <2>2. UNCHANGED reply
    BY <1>1 DEF Goto
  <2> QED
    BY <2>1, <2>2, StillHonest
<1>2. ASSUME NEW kind \in ReplyKind \ {"declined"}, NEW snap \in MaybeSnapshot,
             Respond(s, kind, snap)
      PROVE  Honest'
  <2>1. \A r \in Requests : stage[r] = "done" => stage'[r] = "done"
    BY <1>2, RespondMoves
  <2>2. reply' = [reply EXCEPT ![s] = [kind |-> kind, snap |-> snap]]
    BY <1>2 DEF Respond
  <2>3. \A r \in Requests : reply'[r].kind = "declined" => reply[r].kind = "declined"
    BY <1>2, <2>2 DEF TypeOK
  <2> QED
    BY <2>1, <2>3, StillHonest
<1> QED
  BY <1>1, <1>2

LEMMA AnswerIsHonest ==
    ASSUME TypeOK, Honest, NEW s \in Requests, stage[s] # "done",
           UNCHANGED <<outcome, bank>>, Answer(s)
    PROVE  Honest'
<1>1. CASE outcome[s] = "declined"
  <2>1. Respond(s, "declined", NoSnapshot)
    BY <1>1 DEF Answer
  <2> QED
    BY <1>1, <2>1 DEF Honest, Respond, TypeOK
<1>2. CASE outcome[s] # "declined"
  <2>1. Result(s) \in MaybeSnapshot /\ NoSnapshot \in MaybeSnapshot
    BY ResultIsSnapshot DEF MaybeSnapshot
  <2>2. {"created", "unavailable"} \subseteq ReplyKind \ {"declined"}
    BY DEF ReplyKind
  <2>3. Respond(s, "created", Result(s)) \/ Respond(s, "unavailable", NoSnapshot)
    BY <1>2 DEF Answer
  <2> QED
    BY <2>1, <2>2, <2>3, OtherwiseHonest
<1> QED
  BY <1>1, <1>2

LEMMA HonestStep == TypeOK /\ Honest /\ [Next]_vars => Honest'
<1> SUFFICES ASSUME TypeOK, Honest, [Next]_vars
             PROVE  Honest'
  OBVIOUS
<1>1. /\ {"insertIdem", "bank", "storeIdem", "storeCache", "publish", "mark", "insert",
          "cache", "db", "fill", "setnx"} \subseteq Stage
      /\ {"created", "error", "conflict"} \subseteq ReplyKind \ {"declined"}
      /\ NoSnapshot \in MaybeSnapshot
  BY DEF Stage, Lookup, Creating, ReplyKind, MaybeSnapshot
<1>2. ASSUME NEW s \in Requests, CreateStep(s)
      PROVE  Honest'
  <2>1. CASE AuthorizePayment(s)
    <3>1. PICK did \in BankRecord, concluded \in Outcome :
               /\ BankCall(did, concluded)
               /\ bank' = [bank EXCEPT ![s] = did]
               /\ outcome' = [outcome EXCEPT ![s] = concluded]
      BY <2>1 DEF AuthorizePayment, AskBank
    <3>2. concluded = "declined" => did = "declined"
      BY <3>1 DEF BankCall
    <3>3. /\ stage[s] = "bank"
          /\ \A r \in Requests \ {s} : stage'[r] = stage[r]
          /\ UNCHANGED reply
      BY <2>1, GotoMoves DEF AuthorizePayment, AskBank, Goto
    <3>4. reply[s].kind # "declined"
      BY <3>3 DEF Honest
    <3>5. \A r \in Requests : outcome'[r] = "declined" => bank'[r] = "declined"
      BY <3>1, <3>2 DEF Honest, TypeOK
    <3>6. \A r \in Requests \ {s} : outcome'[r] = outcome[r]
      BY <3>1 DEF TypeOK
    <3> QED
      BY <3>3, <3>4, <3>5, <3>6 DEF Honest
  <2>2. CASE InsertPayment(s) \/ InsertIdem(s) \/ SavePayment(s) \/ StoreIdem(s)
    <3>1. UNCHANGED <<outcome, bank>> /\ stage[s] # "done"
      BY <2>2 DEF InsertPayment, InsertIdem, SavePayment, StoreIdem
    <3>2. (\E t \in Stage : Goto(s, t)) \/ Respond(s, "error", NoSnapshot)
      BY <1>1, <2>2 DEF InsertPayment, InsertIdem, SavePayment, StoreIdem, Writes, Refused
    <3> QED
      BY <1>1, <3>1, <3>2, OtherwiseHonest
  <2>3. CASE StoreCache(s) \/ Publish(s) \/ Mark(s)
    <3>1. UNCHANGED <<outcome, bank>> /\ stage[s] # "done"
      BY <2>3 DEF StoreCache, Publish, Mark
    <3>2. (\E t \in Stage : Goto(s, t)) \/ Answer(s)
      BY <1>1, <2>3 DEF StoreCache, Publish, Mark
    <3> QED
      BY <3>1, <3>2, OtherwiseHonest, AnswerIsHonest
  <2> QED
    BY <1>2, <2>1, <2>2, <2>3 DEF CreateStep
<1>3. ASSUME NEW s \in Requests,
             Arrive(s) \/ LookupStep(s) \/ LockAcquired(s) \/ LockRefused(s)
      PROVE  Honest'
  <2>1. UNCHANGED <<outcome, bank>> /\ stage[s] # "done"
    BY <1>3 DEF Arrive, LookupStep, CacheHit, CacheMiss, PollCancelled, RecordFound,
       RecordMissing, RecordError, FillCache, LockAcquired, LockRefused
  <2>2. cache[KeyOf[s]] \in MaybeSnapshot /\ seen[s] \in MaybeSnapshot
    BY DEF TypeOK
  <2>3. \/ \E t \in Stage : Goto(s, t)
        \/ \E kind \in ReplyKind \ {"declined"}, snap \in MaybeSnapshot :
             Respond(s, kind, snap)
    BY <1>1, <1>3, <2>2 DEF Arrive, LookupStep, CacheHit, CacheMiss, PollCancelled,
       RecordFound, RecordMissing, RecordError, FillCache, Continue, LockAcquired,
       LockRefused
  <2> QED
    BY <2>1, <2>3, OtherwiseHonest
<1>4. CASE RecoveryStep \/ (\E k \in Keys : LockExpires(k) \/ CacheExpires(k))
            \/ UNCHANGED vars
  <2>1. UNCHANGED <<stage, reply, outcome, bank>>
    BY <1>4 DEF RecoveryStep, RecoveryScan, RecoveryPublishes, RecoveryPublishFails,
       RecoveryMark, LockExpires, CacheExpires, vars
  <2> QED
    BY <2>1, StillHonest
<1>5. CASE Crash
  BY <1>5, StillHonest DEF Crash
<1> QED
  BY <1>2, <1>3, <1>4, <1>5 DEF Next, RequestStep

\* A lost answer of the bank is told neither as a decline nor as a completed payment.
THEOREM AnswersHonest == Spec => []AnswersAreHonest
<1>1. TypeOK /\ Consistent /\ Honest => AnswersAreHonest
  <2> SUFFICES ASSUME TypeOK, Consistent, Honest, NEW r \in Requests
               PROVE  /\ reply[r].kind = "declined" => bank[r] = "declined"
                      /\ reply[r].snap # NoSnapshot /\ reply[r].snap.status = "completed"
                           => bank[reply[r].snap.pay] = "approved"
    BY DEF AnswersAreHonest
  <2>1. reply[r].snap # NoSnapshot => reply[r].snap.pay \in Requests
    BY DEF TypeOK, MaybeSnapshot, Snapshot
  <2>2. Sound(reply[r].snap, KeyOf[r])
    BY DEF Consistent, Snapshots
  <2> QED
    BY <2>1, <2>2 DEF Honest, Sound, Consistent, Rows, Final
<1> QED
  BY <1>1, PaymentConsistent, HonestInit, HonestStep, PTL DEF Spec
=============================================================================
