----------------------------- MODULE LedgerProofs -----------------------------
(***************************************************************************)
(* Machine-checked proofs about the ledger service, for every set of       *)
(* events, every number of concurrent handlers and every bound.            *)
(***************************************************************************)
EXTENDS LedgerRefinement, SumProofs, TLAPS

USE LedgerEventsAssumption, LedgerDataAssumption, LedgerBoundsAssumption

-----------------------------------------------------------------------------
(* Type correctness. *)

USE DEF offsets, books, bounds, Workers, ValidEvents

USE DEF IsEventProcessed, IncrementPendingBalance, MarkEventProcessed

LEMMA EventFields ==
    ASSUME NEW e \in Event
    PROVE  /\ e.id \in Ids /\ e.kind \in Kinds /\ e.pay \in Payments
           /\ e.amount \in Nat /\ MerchantOf[e.pay] \in Merchants
BY DEF Event

LEMMA BeginTyped ==
    ASSUME TypeOK, NEW w \in Workers, NEW e \in Event, Begin(w, e)
    PROVE  /\ step' \in [Workers -> {"idle", "check", "post", "commit"}]
           /\ job' \in [Workers -> Event \union {NoEvent}]
BY DEF TypeOK, Begin, Over, Goto

\* A worker that looks at or writes the books has an event in hand.
Busy == \A w \in Workers : step[w] \in {"check", "post"} => job[w] \in Event

LEMMA PostingsTyped ==
    ASSUME TypeOK, NEW e \in Event, Postings(e)
    PROVE  /\ debits' \in [Ids -> Nat]
           /\ credits' \in [Ids -> Nat]
           /\ pending' \in [Merchants -> Nat]
           /\ processed' \subseteq Ids
<1>1. e.id \in Ids /\ e.amount \in Nat /\ MerchantOf[e.pay] \in Merchants
  BY EventFields
<1>2. pending' \in [Merchants -> Nat]
  BY <1>1 DEF TypeOK, Postings
<1> QED
  BY <1>1, <1>2 DEF TypeOK, Postings

LEMMA LedgerTypeInit == Init => TypeOK /\ Busy
BY DEF Init, TypeOK, Busy

LEMMA LedgerTypeStep == TypeOK /\ Busy /\ [Next]_vars => TypeOK' /\ Busy'
<1> SUFFICES ASSUME TypeOK, Busy, [Next]_vars
             PROVE  TypeOK' /\ Busy'
  OBVIOUS
<1>1. ASSUME NEW e \in Events, Produce(e)
      PROVE  TypeOK' /\ Busy'
  BY <1>1 DEF Produce, TypeOK, Busy
<1>2. CASE Fetch
  <2>1. log[next + 1] \in Event /\ next + 1 \in 0..Len(log)
    BY <1>2 DEF Fetch, TypeOK
  <2>2. /\ step' \in [Workers -> {"idle", "check", "post", "commit"}]
        /\ job' \in [Workers -> Event \union {NoEvent}]
    BY <1>2, <2>1, BeginTyped DEF Fetch
  <2>3. TypeOK'
    BY <1>2, <2>1, <2>2 DEF Fetch, TypeOK
  <2>4. Busy'
    BY <1>2, <2>1 DEF Fetch, Begin, Over, Goto, TypeOK, Busy
  <2> QED
    BY <2>3, <2>4
<1>3. ASSUME NEW w \in Workers, Check(w)
      PROVE  TypeOK' /\ Busy'
  BY <1>3 DEF Check, Succeed, Over, Fail, Goto, TypeOK, Busy
<1>4. ASSUME NEW w \in Workers, Post(w)
      PROVE  TypeOK' /\ Busy'
  <2>1. job[w] \in Event
    BY <1>4 DEF Post, Busy
  <2>2. /\ step' \in [Workers -> {"idle", "check", "post", "commit"}]
        /\ \A v \in Workers : step'[v] \in {"check", "post"} => step'[v] = step[v]
        /\ UNCHANGED <<log, offsets, job, bounds>>
    BY <1>4 DEF Post, Succeed, Over, Fail, Goto, TypeOK
  <2>3. /\ debits' \in [Ids -> Nat]
        /\ credits' \in [Ids -> Nat]
        /\ pending' \in [Merchants -> Nat]
        /\ processed' \subseteq Ids
    <3>1. CASE Postings(job[w])
      BY <2>1, <3>1, PostingsTyped
    <3>2. CASE UNCHANGED books
      BY <3>2 DEF TypeOK
    <3> QED
      BY <1>4, <3>1, <3>2 DEF Post
  <2> QED
    BY <2>2, <2>3 DEF TypeOK, Busy
<1>5. CASE Commit
  BY <1>5 DEF Commit, Goto, TypeOK, Busy
<1>6. ASSUME NEW h \in Handlers, NEW e \in Events, HttpPost(h, e)
      PROVE  TypeOK' /\ Busy'
  <2>1. e \in Event /\ h \in Workers
    OBVIOUS
  <2>2. /\ step' \in [Workers -> {"idle", "check", "post", "commit"}]
        /\ job' \in [Workers -> Event \union {NoEvent}]
    BY <1>6, <2>1, BeginTyped DEF HttpPost
  <2>3. TypeOK'
    BY <1>6, <2>2 DEF HttpPost, TypeOK
  <2>4. Busy'
    BY <1>6, <2>1 DEF HttpPost, Begin, Over, Goto, TypeOK, Busy
  <2> QED
    BY <2>3, <2>4
<1>7. CASE Restart
  BY <1>7 DEF Restart, TypeOK, Busy
<1>8. CASE UNCHANGED vars
  BY <1>8 DEF vars, TypeOK, Busy
<1> QED
  BY <1>1, <1>2, <1>3, <1>4, <1>5, <1>6, <1>7, <1>8
     DEF Next, ServiceStep, ConsumerStep, WorkerStep

\* The variables keep their types in every reachable state.
THEOREM LedgerTypes == Spec => [](TypeOK /\ Busy)
BY LedgerTypeInit, LedgerTypeStep, PTL DEF Spec

-----------------------------------------------------------------------------
(* The books. *)

\* A transaction that commits posts an event not posted before.
LEMMA PostingsKeepOnce ==
    ASSUME TypeOK, PostedExactlyOnce, NEW e \in Event, Postings(e)
    PROVE  PostedExactlyOnce'
BY EventFields DEF TypeOK, Postings, PostedExactlyOnce

LEMMA BooksStep ==
    TypeOK /\ Busy /\ PostedExactlyOnce /\ [Next]_vars => PostedExactlyOnce'
<1> SUFFICES ASSUME TypeOK, Busy, PostedExactlyOnce, [Next]_vars
             PROVE  PostedExactlyOnce'
  OBVIOUS
<1>1. CASE UNCHANGED books
  BY <1>1 DEF PostedExactlyOnce
<1>2. ASSUME NEW w \in Workers, Post(w)
      PROVE  PostedExactlyOnce'
  <2>1. job[w] \in Event
    BY <1>2 DEF Post, Busy
  <2> QED
    BY <1>1, <1>2, <2>1, PostingsKeepOnce DEF Post
<1> QED
  BY <1>1, <1>2 DEF Next, ServiceStep, ConsumerStep, WorkerStep, Produce, Fetch, Check,
     Commit, HttpPost, Restart, vars

\* Whatever workers run concurrently, and whatever is delivered or posted again, each
\* event enters the journal once, with equal debits and credits.
THEOREM BooksPostOnce == Spec => []PostedExactlyOnce
<1>1. Init => PostedExactlyOnce
  BY DEF Init, PostedExactlyOnce
<1> QED
  BY <1>1, BooksStep, LedgerTypes, PTL DEF Spec

-----------------------------------------------------------------------------
(* Committed offsets. *)

\* Every message the reader is done with is in the books; the one it fetched last
\* may still be in hand.
Dealt(i) == log[i].kind = "succeeded" => log[i].id \in processed

Reading == step[Consumer] \in {"check", "post"}

Offsets ==
    /\ committed <= next
    /\ Reading => next > 0 /\ job[Consumer] = log[next] /\ committed < next
    /\ \A i \in 1..next : Dealt(i) \/ (Reading /\ i = next)

LEMMA OffsetsStep ==
    ASSUME Consumer \notin DbFaults, TypeOK, TypeOK', Busy, Offsets, [Next]_vars
    PROVE  Offsets'
<1> USE DEF Offsets, Dealt, Reading
<1>1. /\ next \in Nat /\ committed \in Nat /\ next <= Len(log) /\ Len(log) \in Nat
      /\ \A i \in 1..next : log[i] \in Event
  BY DEF TypeOK
<1>2. ASSUME UNCHANGED <<committed, next, log>>, processed \subseteq processed',
             step'[Consumer] = step[Consumer], job'[Consumer] = job[Consumer]
      PROVE  Offsets'
  BY <1>2
<1>3. ASSUME NEW e \in Events, Produce(e)
      PROVE  Offsets'
  <2>1. \A i \in 1..next : log'[i] = log[i]
    BY <1>1, <1>3 DEF Produce, TypeOK
  <2> QED
    BY <1>1, <1>3, <2>1 DEF Produce
<1>4. CASE Fetch
  <2>1. \A i \in 1..next : Dealt(i)
    BY <1>4 DEF Fetch
  <2>2. /\ next' = next + 1 /\ UNCHANGED <<log, committed, processed>>
        /\ step'[Consumer] = "check" \/ log[next + 1].kind # "succeeded"
        /\ step'[Consumer] = "check" => job'[Consumer] = log[next + 1]
        /\ step'[Consumer] # "post"
    <3>1. Begin(Consumer, log[next + 1]) /\ Consumer \in Workers
      BY <1>4 DEF Fetch
    <3>2. job'[Consumer] = log[next + 1]
      BY <3>1 DEF Begin, TypeOK
    <3>3. step'[Consumer] = IF log[next + 1].kind = "succeeded" THEN "check" ELSE "commit"
      BY <3>1 DEF Begin, Over, Goto, TypeOK
    <3> QED
      BY <1>4, <3>2, <3>3 DEF Fetch
  <2> QED
    BY <1>1, <2>1, <2>2
<1>5. ASSUME Check(Consumer) \/ Post(Consumer)
      PROVE  Offsets'
  <2>1. UNCHANGED <<log, committed, next, job>>
    BY <1>5 DEF Check, Post
  <2>2. processed \subseteq processed'
    BY <1>5 DEF Check, Post, Postings
  <2>3. \/ step'[Consumer] = "post"
        \/ ~Reading' /\ job[Consumer].id \in processed'
    BY <1>5 DEF Check, Post, Postings, Succeed, Over, Fail, Goto, TypeOK
  <2>4. Reading
    BY <1>5 DEF Check, Post
  <2> QED
    BY <1>1, <2>1, <2>2, <2>3, <2>4
<1>6. ASSUME NEW h \in Handlers, Check(h) \/ Post(h)
      PROVE  Offsets'
  BY <1>2, <1>6 DEF Check, Post, Postings, Succeed, Over, Fail, Goto, TypeOK
<1>7. CASE Commit
  BY <1>1, <1>7 DEF Commit, Goto, TypeOK
<1>8. ASSUME NEW h \in Handlers, NEW e \in Events, HttpPost(h, e)
      PROVE  Offsets'
  BY <1>2, <1>8 DEF HttpPost, Begin, Over, Goto, TypeOK
<1>9. CASE Restart
  BY <1>1, <1>9 DEF Restart
<1>10. CASE UNCHANGED vars
  BY <1>2, <1>10 DEF vars
<1> QED
  BY <1>3, <1>4, <1>5, <1>6, <1>7, <1>8, <1>9, <1>10
     DEF Next, ServiceStep, ConsumerStep, WorkerStep

\* Unless the consumer's own database calls fail, no offset is committed before its event is in the
\* books, however often the process restarts or the commit itself fails.
THEOREM OffsetsTrailBooks == Consumer \notin DbFaults => (Spec => []CommittedIsPosted)
<1> SUFFICES ASSUME Consumer \notin DbFaults
             PROVE  Spec => []CommittedIsPosted
  OBVIOUS
<1>1. Init => Offsets
  BY DEF Init, Offsets, Reading
<1>2. TypeOK /\ TypeOK' /\ Busy /\ Offsets /\ [Next]_vars => Offsets'
  BY OffsetsStep
<1>3. TypeOK /\ Offsets => CommittedIsPosted
  BY DEF TypeOK, Offsets, Dealt, Reading, CommittedIsPosted
<1> QED
  BY <1>1, <1>2, <1>3, LedgerTypes, PTL DEF Spec

-----------------------------------------------------------------------------
(* The balance. *)

\* What is in the topic is one of the events, and what a worker checks or posts is a
\* valid one.
Known ==
    /\ \A i \in 1..Len(log) : log[i] \in Events
    /\ \A w \in Workers : step[w] \in {"check", "post"} => job[w] \in ValidEvents

LEMMA KnownStep == TypeOK /\ Known /\ [Next]_vars => Known'
<1> SUFFICES ASSUME TypeOK, Known, [Next]_vars
             PROVE  Known'
  OBVIOUS
<1>1. ASSUME NEW e \in Events, Produce(e)
      PROVE  Known'
  BY <1>1 DEF Produce, TypeOK, Known
<1>2. ASSUME NEW w \in Workers, NEW e \in Events, Begin(w, e), UNCHANGED log
      PROVE  Known'
  BY <1>2 DEF Begin, Over, Goto, TypeOK, Known
<1>3. CASE Fetch
  <2>1. next + 1 \in 1..Len(log)
    BY <1>3 DEF Fetch, TypeOK
  <2> QED
    BY <1>2, <1>3, <2>1 DEF Fetch, Known
<1>4. ASSUME NEW w \in Workers, Check(w) \/ Post(w)
      PROVE  Known'
  BY <1>4 DEF Check, Post, Succeed, Over, Fail, Goto, TypeOK, Known
<1>5. CASE Commit
  BY <1>5 DEF Commit, Goto, TypeOK, Known
<1>6. ASSUME NEW h \in Handlers, NEW e \in Events, HttpPost(h, e)
      PROVE  Known'
  BY <1>2, <1>6 DEF HttpPost
<1>7. CASE Restart
  BY <1>7 DEF Restart, TypeOK, Known
<1>8. CASE UNCHANGED vars
  BY <1>8 DEF vars, Known
<1> QED
  BY <1>1, <1>3, <1>4, <1>5, <1>6, <1>7, <1>8
     DEF Next, ServiceStep, ConsumerStep, WorkerStep

\* The amounts of the merchant's processed events add up to its balance.
AmountOf == [e \in Events |-> e.amount]
Booked(m) == {e \in Events : e.id \in processed /\ MerchantOf[e.pay] = m}

Tallied ==
    \A m \in Merchants :
        IsFiniteSet(Booked(m)) /\ pending[m] = SumOver(AmountOf, Booked(m))

LEMMA AmountsAreNumbers == \A e \in Events : AmountOf[e] \in Nat
BY EventFields DEF AmountOf

LEMMA PostingsKeepTally ==
    ASSUME TypeOK, Tallied, NEW e \in Events, Postings(e)
    PROVE  Tallied'
<1> SUFFICES ASSUME NEW m \in Merchants
             PROVE  IsFiniteSet(Booked(m)') /\ pending'[m] = SumOver(AmountOf, Booked(m)')
  BY DEF Tallied, AmountOf
<1>1. /\ e.id \notin processed /\ processed' = processed \union {e.id}
      /\ pending' = [pending EXCEPT ![MerchantOf[e.pay]] = @ + e.amount]
      /\ pending \in [Merchants -> Nat]
      /\ IsFiniteSet(Booked(m)) /\ pending[m] = SumOver(AmountOf, Booked(m))
  BY DEF Postings, TypeOK, Tallied
<1>2. CASE MerchantOf[e.pay] = m
  <2>1. Booked(m)' = Booked(m) \union {e} /\ e \notin Booked(m)
    BY <1>1, <1>2 DEF Booked
  <2>2. SumOver(AmountOf, Booked(m) \union {e}) = SumOver(AmountOf, Booked(m)) + AmountOf[e]
    <3>1. \A f \in Booked(m) \union {e} : AmountOf[f] \in Int
      BY AmountsAreNumbers DEF Booked
    <3> QED
      BY <1>1, <2>1, <3>1, SumWithElement
  <2>3. IsFiniteSet(Booked(m) \union {e})
    BY <1>1, FS_AddElement
  <2>4. pending'[m] = pending[m] + AmountOf[e]
    BY <1>1, <1>2 DEF AmountOf
  <2> QED
    BY <1>1, <2>1, <2>2, <2>3, <2>4
<1>3. CASE MerchantOf[e.pay] # m
  <2>1. Booked(m)' = Booked(m)
    BY <1>1, <1>3 DEF Booked
  <2> QED
    BY <1>1, <1>3, <2>1
<1> QED
  BY <1>2, <1>3

LEMMA TallyStep == TypeOK /\ Known /\ Tallied /\ [Next]_vars => Tallied'
<1> SUFFICES ASSUME TypeOK, Known, Tallied, [Next]_vars
             PROVE  Tallied'
  OBVIOUS
<1>1. CASE UNCHANGED books
  BY <1>1 DEF Tallied, Booked, AmountOf
<1>2. ASSUME NEW w \in Workers, Post(w)
      PROVE  Tallied'
  <2>1. job[w] \in Events
    BY <1>2 DEF Post, Known
  <2> QED
    BY <1>1, <1>2, <2>1, PostingsKeepTally DEF Post
<1> QED
  BY <1>1, <1>2 DEF Next, ServiceStep, ConsumerStep, WorkerStep, Produce, Fetch, Check,
     Commit, HttpPost, Restart, vars

LEMMA TallyInit == Init => Known /\ Tallied
<1> SUFFICES ASSUME Init
             PROVE  Known /\ Tallied
  OBVIOUS
<1>1. Known
  BY DEF Init, Known
<1>2. \A m \in Merchants : Booked(m) = {} /\ pending[m] = 0
  BY DEF Init, Booked
<1> QED
  BY <1>1, <1>2, SumEmpty, FS_EmptySet DEF Tallied

\* The journal's entries are those of the processed events, each debited and credited once.
LEMMA JournalIsBooked ==
    ASSUME TypeOK, PostedExactlyOnce, NEW m \in Merchants
    PROVE  /\ Journal(m) = Booked(m)
           /\ \A e \in Booked(m) : /\ (credits[e.id] - debits[e.id]) * e.amount = 0
                                   /\ credits[e.id] * e.amount = AmountOf[e]
<1>1. \A e \in Events : /\ e.id \in Ids /\ e.amount \in Nat
                        /\ debits[e.id] = credits[e.id]
                        /\ credits[e.id] = IF e.id \in processed THEN 1 ELSE 0
  BY EventFields DEF PostedExactlyOnce
<1> QED
  BY <1>1 DEF Journal, Booked, AmountOf

\* For each merchant, the stored balance is the sum of the journal's credits and the
\* endpoint that verifies it reports a match, however many events there are.
THEOREM BalanceIsTheJournal == Spec => []PendingMatchesJournal
<1>1. ASSUME TypeOK, PostedExactlyOnce, Tallied, NEW m \in Merchants
      PROVE  /\ VerifyBalance(m)
             /\ GetMaterialisedBalance(m).pending =
                    SumOver([e \in Events |-> credits[e.id] * e.amount], Journal(m))
  <2> DEFINE net == [e \in Events |-> (credits[e.id] - debits[e.id]) * e.amount]
             gross == [e \in Events |-> credits[e.id] * e.amount]
  <2>1. /\ IsFiniteSet(Booked(m)) /\ pending[m] = SumOver(AmountOf, Booked(m))
        /\ Journal(m) = Booked(m) /\ Booked(m) \subseteq Events
    BY <1>1, JournalIsBooked DEF Tallied, Booked
  <2>2. \A e \in Booked(m) : /\ net[e] = 0 /\ gross[e] = AmountOf[e]
                             /\ AmountOf[e] \in Int
    BY <1>1, <2>1, JournalIsBooked, AmountsAreNumbers
  <2> HIDE DEF net, gross
  <2>3. SumOver(net, Journal(m)) = 0
    BY <2>1, <2>2, SumOfZeros
  <2>4. SumOver(gross, Journal(m)) = pending[m]
    BY <2>1, <2>2, SumsAgree
  <2> USE DEF net, gross
  <2> QED
    BY <2>3, <2>4 DEF VerifyBalance, GetMaterialisedBalance, ComputeBalanceFromJournal
<1>2. TypeOK /\ PostedExactlyOnce /\ Tallied => PendingMatchesJournal
  BY <1>1 DEF PendingMatchesJournal
<1> QED
  BY <1>2, TallyInit, KnownStep, TallyStep, LedgerTypes, BooksPostOnce, PTL DEF Spec

-----------------------------------------------------------------------------
(* The promise. *)

\* A committed transaction books an event for the first time and moves one balance.
LEMMA PostingsBook ==
    ASSUME TypeOK, PostedExactlyOnce, NEW e \in ValidEvents, Postings(e)
    PROVE  Promise!Book(e)
<1>1. /\ e \in Events /\ e.id \in Ids
      /\ \A f \in Events : f.id \in Ids /\ (f.id = e.id => f = e)
  BY EventFields
<1>2. /\ e.id \notin processed
      /\ debits' = [debits EXCEPT ![e.id] = @ + 1]
      /\ credits' = [credits EXCEPT ![e.id] = @ + 1]
      /\ pending' = [pending EXCEPT ![MerchantOf[e.pay]] = @ + e.amount]
      /\ debits \in [Ids -> Nat] /\ credits \in [Ids -> Nat]
  BY DEF Postings, TypeOK
<1>3. debits[e.id] = 0 /\ credits[e.id] = 0
  BY <1>1, <1>2 DEF PostedExactlyOnce
<1>4. debits'[e.id] + credits'[e.id] > 0
  BY <1>1, <1>2, <1>3
<1>5. \A f \in Events \ {e} : debits'[f.id] = debits[f.id] /\ credits'[f.id] = credits[f.id]
  BY <1>1, <1>2
<1>6. EventsBooked' = EventsBooked \union {e} /\ e \notin EventsBooked
  BY <1>1, <1>3, <1>4, <1>5 DEF EventsBooked
<1> QED
  BY <1>2, <1>6 DEF Promise!Book

LEMMA StepsBook ==
    ASSUME TypeOK, Known, PostedExactlyOnce, [Next]_vars
    PROVE  [Promise!Next]_(Promise!vars)
<1>1. CASE UNCHANGED books
  BY <1>1 DEF EventsBooked, Promise!vars
<1>2. ASSUME NEW w \in Workers, Post(w)
      PROVE  [Promise!Next]_(Promise!vars)
  <2>1. job[w] \in ValidEvents
    BY <1>2 DEF Post, Known
  <2>2. CASE Postings(job[w])
    BY <2>1, <2>2, PostingsBook DEF Promise!Next
  <2> QED
    BY <1>1, <1>2, <2>2 DEF Post
<1> QED
  BY <1>1, <1>2 DEF Next, ServiceStep, ConsumerStep, WorkerStep, Produce, Fetch, Check,
     Commit, HttpPost, Restart, vars

\* The ledger service implements LedgerPromise: journal and balance move together, for a
\* valid event that was not booked before, and at no other step, for any number of
\* handlers, redeliveries, restarts and faults.
THEOREM LedgerKeepsPromise == Spec => KeepsPromise
<1>1. Init => Promise!Init
  <2> SUFFICES ASSUME Init
               PROVE  Promise!Init
    OBVIOUS
  <2>1. \A e \in Events : debits[e.id] = 0 /\ credits[e.id] = 0
    BY EventFields DEF Init
  <2> QED
    BY <2>1 DEF Init, EventsBooked, Promise!Init
<1>2. TypeOK /\ Known /\ PostedExactlyOnce /\ [Next]_vars => [Promise!Next]_(Promise!vars)
  BY StepsBook
<1> QED
  BY <1>1, <1>2, TallyInit, KnownStep, LedgerTypes, BooksPostOnce, PTL
     DEF Spec, KeepsPromise, Promise!Spec
=============================================================================
