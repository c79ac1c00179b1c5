--------------------------- MODULE RefinementProofs ---------------------------
(***************************************************************************)
(* A machine-checked proof that the payment service implements             *)
(* PaymentPromise: seen per key, each of its steps is one of the promise's *)
(* or leaves what the promise speaks of alone.                             *)
(***************************************************************************)
EXTENDS PaymentRefinement, PaymentProofs

USE RequestsAssumption, BoundsAssumption, NoSnapshotAssumption
    DEF At, local, postgres, redis, kafka, recovery

-----------------------------------------------------------------------------
(* What the refinement mapping shows. *)

Shown ==
    /\ PaymentOfKey = [k \in Keys |-> PaymentOfKey[k]]
    /\ BankOfKey = [k \in Keys |-> BankOfKey[k]]
    /\ AnnouncedOfKey = [k \in Keys |-> AnnouncedOfKey[k]]
    /\ \A k \in Keys :
         /\ (\A r \in Requests : KeyOf[r] = k => ~Created(r)) => PaymentOfKey[k] = "none"
         /\ (\A r \in Requests : KeyOf[r] = k => ~Asked(r)) => BankOfKey[k] = "unasked"
    /\ \A r \in Requests :
         /\ Created(r) => PaymentOfKey[KeyOf[r]] = row[r]
         /\ Asked(r) => BankOfKey[KeyOf[r]] = bank[r]
    /\ \A k \in Keys : \A type :
         type \in AnnouncedOfKey[k] <=>
           \E i \in 1..Len(log) : KeyOf[log[i].pay] = k /\ type = EventType(log[i].status)

\* A key has at most one creator, so the choice of one is no choice.
LEMMA MappingShows == TypeOK /\ Consistent => Shown
<1> SUFFICES ASSUME TypeOK, Consistent
             PROVE  Shown
  OBVIOUS
<1>1. /\ PaymentOfKey = [k \in Keys |-> PaymentOfKey[k]]
      /\ BankOfKey = [k \in Keys |-> BankOfKey[k]]
      /\ AnnouncedOfKey = [k \in Keys |-> AnnouncedOfKey[k]]
  BY DEF PaymentOfKey, BankOfKey, AnnouncedOfKey
<1>2. ASSUME NEW k \in Keys, \A r \in Requests : KeyOf[r] = k => ~Created(r)
      PROVE  PaymentOfKey[k] = "none"
  <2>1. Creators(k) = {}
    BY <1>2 DEF Creators
  <2> QED
    BY <2>1 DEF PaymentOfKey
<1>3. ASSUME NEW k \in Keys, \A r \in Requests : KeyOf[r] = k => ~Asked(r)
      PROVE  BankOfKey[k] = "unasked"
  <2>1. Askers(k) = {}
    BY <1>3 DEF Askers
  <2> QED
    BY <2>1 DEF BankOfKey
<1>4. ASSUME NEW r \in Requests, Created(r)
      PROVE  PaymentOfKey[KeyOf[r]] = row[r]
  <2>1. Creators(KeyOf[r]) = {r}
    BY <1>4 DEF Creators, Consistent, Rows
  <2>2. One({r}) = r
    BY DEF One
  <2> QED
    BY <2>1, <2>2 DEF PaymentOfKey
<1>5. ASSUME NEW r \in Requests, Asked(r)
      PROVE  BankOfKey[KeyOf[r]] = bank[r]
  <2>1. Askers(KeyOf[r]) = {r}
    BY <1>5 DEF Askers, Consistent, Rows
  <2>2. One({r}) = r
    BY DEF One
  <2> QED
    BY <2>1, <2>2 DEF BankOfKey
<1>6. ASSUME NEW k \in Keys, NEW type
      PROVE  type \in AnnouncedOfKey[k] <=>
               \E i \in 1..Len(log) : KeyOf[log[i].pay] = k /\ type = EventType(log[i].status)
  BY DEF AnnouncedOfKey
<1> QED
  BY <1>1, <1>2, <1>3, <1>4, <1>5, <1>6 DEF Shown

LEMMA MappingShowsNext == (TypeOK /\ Consistent)' => Shown'
BY MappingShows, PTL

-----------------------------------------------------------------------------
(* Steps and stutters. *)

Step == Promise!Next \/ UNCHANGED <<PaymentOfKey, BankOfKey, AnnouncedOfKey>>

LEMMA StillPayment == UNCHANGED row => UNCHANGED PaymentOfKey
BY DEF PaymentOfKey, Creators, Created

LEMMA StillBank == UNCHANGED bank => UNCHANGED BankOfKey
BY DEF BankOfKey, Askers, Asked

LEMMA StillAnnounced == UNCHANGED log => UNCHANGED AnnouncedOfKey
BY DEF AnnouncedOfKey

LEMMA Stutters ==
    ASSUME UNCHANGED <<row, bank, log>>
    PROVE  Step
BY StillPayment, StillBank, StillAnnounced DEF Step

LEMMA InsertOpens ==
    ASSUME TypeOK, Consistent, Shown, Shown', NEW s \in Requests, InsertPayment(s)
    PROVE  Step
<1>1. UNCHANGED <<bank, log>>
  BY DEF InsertPayment
<1>2. CASE UNCHANGED row
  BY <1>1, <1>2, Stutters
<1>3. CASE InsertRow(s)
  <2> DEFINE k == KeyOf[s]
  <2>1. k \in Keys
    OBVIOUS
  <2>2. \A r \in Requests : KeyOf[r] = k => ~Created(r)
    BY <1>3 DEF InsertRow, SameKey, Created
  <2>3. PaymentOfKey[k] = "none"
    BY <2>1, <2>2 DEF Shown
  <2>4. /\ row'[s] = "processing"
        /\ \A r \in Requests \ {s} : row'[r] = row[r]
    BY <1>3 DEF InsertRow, TypeOK
  <2>5. PaymentOfKey'[k] = "processing"
    BY <2>4 DEF Shown, Created
  <2>6. ASSUME NEW q \in Keys \ {k}
        PROVE  PaymentOfKey'[q] = PaymentOfKey[q]
    <3>1. CASE \A r \in Requests : KeyOf[r] = q => ~Created(r)
      <4>1. (\A r \in Requests : KeyOf[r] = q => ~Created(r))'
        BY <2>4, <3>1 DEF Created
      <4> QED
        BY <3>1, <4>1 DEF Shown
    <3>2. ASSUME NEW r \in Requests, KeyOf[r] = q, Created(r)
          PROVE  PaymentOfKey'[q] = PaymentOfKey[q]
      <4>1. row'[r] = row[r] /\ Created(r)'
        BY <2>4, <3>2 DEF Created
      <4> QED
        BY <3>2, <4>1 DEF Shown
    <3> QED
      BY <3>1, <3>2
  <2>7. PaymentOfKey' = [PaymentOfKey EXCEPT ![k] = "processing"]
    BY <2>1, <2>5, <2>6 DEF Shown
  <2>8. UNCHANGED <<BankOfKey, AnnouncedOfKey>>
    BY <1>1, StillBank, StillAnnounced
  <2>9. Promise!Open(k)
    BY <2>3, <2>7, <2>8 DEF Promise!Open
  <2> QED
    BY <2>1, <2>9 DEF Step, Promise!Next
<1> QED
  BY <1>2, <1>3 DEF InsertPayment, Writes

LEMMA AuthorizeAsks ==
    ASSUME TypeOK, Consistent, Shown, Shown', NEW s \in Requests, AuthorizePayment(s)
    PROVE  Step
<1> DEFINE k == KeyOf[s]
<1>1. k \in Keys /\ UNCHANGED <<row, log>> /\ stage[s] = "bank"
  BY DEF AuthorizePayment, AskBank
<1>2. row[s] = "processing" /\ ~Asked(s)
  BY <1>1 DEF Consistent, Positions, Position
<1>3. PICK did \in BankRecord, concluded \in Outcome :
           BankCall(did, concluded) /\ bank' = [bank EXCEPT ![s] = did]
  BY DEF AuthorizePayment, AskBank
<1>4. did \in {"unreached", "approved", "declined"}
  BY <1>3 DEF BankCall, BankRecord
<1>5. /\ bank'[s] = did
      /\ \A r \in Requests \ {s} : bank'[r] = bank[r]
  BY <1>3 DEF TypeOK
<1>6. PaymentOfKey[k] = "processing"
  BY <1>2 DEF Shown, Created
<1>7. BankOfKey[k] = "unasked"
  <2>1. \A r \in Requests : KeyOf[r] = k => ~Asked(r)
    BY <1>2 DEF Consistent, Rows, Created
  <2> QED
    BY <1>1, <2>1 DEF Shown
<1>8. BankOfKey'[k] = did
  BY <1>4, <1>5 DEF Shown, Asked
<1>9. ASSUME NEW q \in Keys \ {k}
      PROVE  BankOfKey'[q] = BankOfKey[q]
  <2>1. CASE \A r \in Requests : KeyOf[r] = q => ~Asked(r)
    <3>1. (\A r \in Requests : KeyOf[r] = q => ~Asked(r))'
      BY <1>5, <2>1 DEF Asked
    <3> QED
      BY <2>1, <3>1 DEF Shown
  <2>2. ASSUME NEW r \in Requests, KeyOf[r] = q, Asked(r)
        PROVE  BankOfKey'[q] = BankOfKey[q]
    <3>1. bank'[r] = bank[r] /\ Asked(r)'
      BY <1>5, <2>2 DEF Asked
    <3> QED
      BY <2>2, <3>1 DEF Shown
  <2> QED
    BY <2>1, <2>2
<1>10. BankOfKey' = [BankOfKey EXCEPT ![k] = did]
  BY <1>1, <1>8, <1>9 DEF Shown
<1>11. UNCHANGED <<PaymentOfKey, AnnouncedOfKey>>
  BY <1>1, StillPayment, StillAnnounced
<1>12. Promise!Ask(k)
  BY <1>4, <1>6, <1>7, <1>10, <1>11 DEF Promise!Ask
<1> QED
  BY <1>1, <1>12 DEF Step, Promise!Next

LEMMA SaveDecides ==
    ASSUME TypeOK, Consistent, Shown, Shown', NEW s \in Requests, SavePayment(s)
    PROVE  Step
<1>1. UNCHANGED <<bank, log>> /\ stage[s] = "save"
  BY DEF SavePayment
<1>2. CASE UNCHANGED row
  BY <1>1, <1>2, Stutters
<1>3. CASE SaveRow(s)
  <2> DEFINE k == KeyOf[s]
  <2>1. /\ k \in Keys /\ row[s] = "processing" /\ Asked(s) /\ outcome[s] # "undecided"
        /\ outcome[s] = "completed" => bank[s] = "approved"
    BY <1>1 DEF Consistent, Positions, Position
  <2>2. /\ row'[s] = StatusOf(outcome[s])
        /\ \A r \in Requests \ {s} : row'[r] = row[r]
    BY <1>3 DEF SaveRow, TypeOK
  <2>3. row'[s] = "failed" \/ (row'[s] = "completed" /\ bank[s] = "approved")
    BY <2>1, <2>2 DEF StatusOf
  <2>4. PaymentOfKey[k] = "processing" /\ BankOfKey[k] = bank[s] /\ BankOfKey[k] # "unasked"
    BY <2>1 DEF Shown, Created, Asked
  <2>5. PaymentOfKey'[k] = row'[s]
    BY <2>3 DEF Shown, Created
  <2>6. ASSUME NEW q \in Keys \ {k}
        PROVE  PaymentOfKey'[q] = PaymentOfKey[q]
    <3>1. CASE \A r \in Requests : KeyOf[r] = q => ~Created(r)
      <4>1. (\A r \in Requests : KeyOf[r] = q => ~Created(r))'
        BY <2>2, <3>1 DEF Created
      <4> QED
        BY <3>1, <4>1 DEF Shown
    <3>2. ASSUME NEW r \in Requests, KeyOf[r] = q, Created(r)
          PROVE  PaymentOfKey'[q] = PaymentOfKey[q]
      <4>1. row'[r] = row[r] /\ Created(r)'
        BY <2>2, <3>2 DEF Created
      <4> QED
        BY <3>2, <4>1 DEF Shown
    <3> QED
      BY <3>1, <3>2
  <2>7. PaymentOfKey' = [PaymentOfKey EXCEPT ![k] = row'[s]]
    BY <2>1, <2>5, <2>6 DEF Shown
  <2>8. UNCHANGED <<BankOfKey, AnnouncedOfKey>>
    BY <1>1, StillBank, StillAnnounced
  <2>9. Promise!Decide(k)
    BY <2>3, <2>4, <2>7, <2>8 DEF Promise!Decide
  <2> QED
    BY <2>1, <2>9 DEF Step, Promise!Next
<1> QED
  BY <1>2, <1>3 DEF SavePayment, Writes

\* Every message of a key announces the outcome of the key's one payment.
LEMMA WritesAnnounce ==
    ASSUME TypeOK, Consistent, Shown, Shown', NEW snap \in Snapshot, Truthful(snap),
           KafkaWrites(snap), UNCHANGED <<row, bank>>
    PROVE  Step
<1> DEFINE k == KeyOf[snap.pay]
           type == EventType(snap.status)
<1>1. snap.pay \in Requests /\ k \in Keys
  BY DEF Snapshot
<1>2. snap.status \in Final /\ row[snap.pay] = snap.status
  BY DEF Truthful
<1>3. PaymentOfKey[k] = snap.status
  BY <1>1, <1>2 DEF Shown, Created, Final
<1>4. PICK n \in Copies : AppendCopies(snap, n)
  BY DEF KafkaWrites
<1>5. n \in Nat \ {0}
  BY DEF Copies
<1>6. /\ Len(log) \in Nat
      /\ Len(log') = Len(log) + n
      /\ \A i \in 1..Len(log) : log'[i] = log[i]
      /\ \A i \in (Len(log) + 1)..Len(log') :
           log'[i].pay = snap.pay /\ log'[i].status = snap.status
  BY <1>4, <1>5, AppendedMessages DEF TypeOK
<1>7. \A i \in 1..Len(log) : KeyOf[log[i].pay] = k => log[i].status = snap.status
  <2> SUFFICES ASSUME NEW i \in 1..Len(log), KeyOf[log[i].pay] = k
               PROVE  log[i].status = snap.status
    OBVIOUS
  <2>1. log[i].pay \in Requests
    <3>1. log[i] \in Message
      BY DEF TypeOK
    <3> QED
      BY <3>1 DEF Message
  <2>2. Truthful(log[i])
    BY DEF Consistent, Announcements
  <2>3. log[i].pay = snap.pay
    BY <1>1, <1>2, <2>1, <2>2 DEF Consistent, Rows, Created, Truthful, Final
  <2> QED
    BY <1>2, <2>2, <2>3 DEF Truthful
<1>8. AnnouncedOfKey'[k] = {type}
  <2>1. ASSUME NEW t, t \in AnnouncedOfKey'[k]
        PROVE  t = type
    <3>1. PICK i \in 1..Len(log') :
                KeyOf[log'[i].pay] = k /\ t = EventType(log'[i].status)
      BY <1>1, <2>1 DEF Shown
    <3>2. log'[i].status = snap.status
      <4>1. CASE i \in 1..Len(log)
        BY <1>6, <1>7, <3>1, <4>1
      <4>2. CASE i \in (Len(log) + 1)..Len(log')
        BY <1>6, <4>2
      <4> QED
        BY <1>5, <1>6, <4>1, <4>2
    <3> QED
      BY <3>1, <3>2
  <2>2. type \in AnnouncedOfKey'[k]
    <3>1. Len(log') \in 1..Len(log') /\ Len(log') \in (Len(log) + 1)..Len(log')
      BY <1>5, <1>6
    <3>2. \E i \in 1..Len(log') : KeyOf[log'[i].pay] = k /\ type = EventType(log'[i].status)
      BY <1>6, <3>1
    <3> QED
      BY <1>1, <3>2 DEF Shown
  <2> QED
    BY <2>1, <2>2
<1>9. ASSUME NEW q \in Keys \ {k}
      PROVE  AnnouncedOfKey'[q] = AnnouncedOfKey[q]
  <2>1. ASSUME NEW t
        PROVE  (\E i \in 1..Len(log') :
                   KeyOf[log'[i].pay] = q /\ t = EventType(log'[i].status))
               <=> (\E i \in 1..Len(log) :
                      KeyOf[log[i].pay] = q /\ t = EventType(log[i].status))
    BY <1>5, <1>6
  <2>2. \A t : t \in AnnouncedOfKey'[q] <=> t \in AnnouncedOfKey[q]
    BY <2>1 DEF Shown
  <2> QED
    BY <2>2
<1>10. AnnouncedOfKey' = [AnnouncedOfKey EXCEPT ![k] = {type}]
  BY <1>1, <1>8, <1>9 DEF Shown
<1>11. UNCHANGED <<PaymentOfKey, BankOfKey>>
  BY StillPayment, StillBank
<1>12. Promise!Announce(k)
  <2>1. CASE snap.status = "completed"
    BY <1>3, <1>10, <1>11, <2>1 DEF Promise!Announce, EventType
  <2>2. CASE snap.status = "failed"
    BY <1>3, <1>10, <1>11, <2>2 DEF Promise!Announce, EventType
  <2> QED
    BY <1>2, <2>1, <2>2 DEF Final
<1> QED
  BY <1>1, <1>12 DEF Step, Promise!Next

\* So does a publication that reports an error, if the broker kept the message.
LEMMA FailuresAnnounce ==
    ASSUME TypeOK, Consistent, Shown, Shown', NEW snap \in Snapshot, Truthful(snap),
           KafkaFails(snap), UNCHANGED <<row, bank>>
    PROVE  Step
BY WritesAnnounce, Stutters DEF KafkaFails

LEMMA PublishAnnounces ==
    ASSUME TypeOK, Consistent, Shown, Shown', NEW s \in Requests, Publish(s)
    PROVE  Step
<1>1. Result(s) \in Snapshot
  BY ResultIsSnapshot
<1>2. Truthful(Result(s))
  BY DEF Publish, Consistent, Positions, Position, Truthful, Result, StatusOf, Final
<1> QED
  BY <1>1, <1>2, WritesAnnounce, FailuresAnnounce DEF Publish

LEMMA RecoveryAnnounces ==
    ASSUME TypeOK, Consistent, Shown, Shown', RecoveryStep
    PROVE  Step
<1>1. CASE RecoveryScan \/ RecoveryMark
  BY <1>1, Stutters DEF RecoveryScan, RecoveryMark
<1>2. ASSUME NEW snap \in batch, RecoveryPublishes(snap) \/ RecoveryPublishFails(snap)
      PROVE  Step
  <2>1. snap \in Snapshot /\ Truthful(snap)
    BY DEF TypeOK, Consistent, Announcements
  <2> QED
    BY <1>2, <2>1, WritesAnnounce, FailuresAnnounce
       DEF RecoveryPublishes, RecoveryPublishFails
<1> QED
  BY <1>1, <1>2 DEF RecoveryStep

LEMMA StepsRefine ==
    ASSUME TypeOK, Consistent, Shown, Shown', [Next]_vars
    PROVE  Step
<1>1. ASSUME NEW s \in Requests, CreateStep(s)
      PROVE  Step
  <2>1. CASE InsertIdem(s) \/ StoreIdem(s) \/ StoreCache(s) \/ Mark(s)
    BY <2>1, Stutters DEF InsertIdem, StoreIdem, StoreCache, Mark
  <2> QED
    BY <1>1, <2>1, InsertOpens, AuthorizeAsks, SaveDecides, PublishAnnounces DEF CreateStep
<1>2. ASSUME NEW s \in Requests,
             Arrive(s) \/ LookupStep(s) \/ LockAcquired(s) \/ LockRefused(s)
      PROVE  Step
  BY <1>2, Stutters DEF Arrive, LookupStep, CacheHit, CacheMiss, PollCancelled,
     RecordFound, RecordMissing, RecordError, FillCache, LockAcquired, LockRefused
<1>3. CASE Crash \/ (\E k \in Keys : LockExpires(k) \/ CacheExpires(k)) \/ UNCHANGED vars
  BY <1>3, Stutters DEF Crash, LockExpires, CacheExpires, vars
<1> QED
  BY <1>1, <1>2, <1>3, RecoveryAnnounces DEF Next, RequestStep

LEMMA InitRefines == Init => Promise!Init
<1> SUFFICES ASSUME Init
             PROVE  Promise!Init
  OBVIOUS
<1>1. \A k \in Keys : Creators(k) = {} /\ Askers(k) = {}
  BY DEF Init, Creators, Askers, Created, Asked
<1>2. PaymentOfKey = [k \in Keys |-> "none"]
  BY <1>1 DEF PaymentOfKey
<1>3. BankOfKey = [k \in Keys |-> "unasked"]
  BY <1>1 DEF BankOfKey
<1>4. AnnouncedOfKey = [k \in Keys |-> {}]
  <2>1. {j \in 1..Len(log) : TRUE} = {}
    BY DEF Init
  <2> QED
    BY <2>1 DEF AnnouncedOfKey
<1> QED
  BY <1>2, <1>3, <1>4 DEF Promise!Init

\* The payment service, under every combination of faults, crashes included, does what
\* PaymentPromise says for every key: one payment, one question to the bank, one outcome.
THEOREM ServiceKeepsPromise == Spec => KeepsPromise
<1>1. TypeOK /\ Consistent /\ (TypeOK /\ Consistent)' /\ [Next]_vars
        => [Promise!Next]_(Promise!vars)
  BY MappingShows, MappingShowsNext, StepsRefine DEF Step, Promise!vars
<1> QED
  BY <1>1, InitRefines, PaymentConsistent, PTL DEF Spec, KeepsPromise, Promise!Spec
=============================================================================
