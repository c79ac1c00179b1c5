----------------------------- MODULE GatewayProofs -----------------------------
(***************************************************************************)
(* Machine-checked proofs about the gateway, for every limit, window and   *)
(* pruning threshold, and every number of clients and concurrent requests. *)
(***************************************************************************)
EXTENDS Gateway, AuthProofs

USE GatewayAssumption, AuthAssumption, InternalAuthAssumption

-----------------------------------------------------------------------------
(* The limiter. *)

USE DEF limits, requests, counts, validations

\* A request that is let through is counted in its client's bucket, one that is live or
\* begins now; the bucket of another client is at most dropped, once it is over.
LEMMA LetThroughCounts ==
    ASSUME GatewayTypeOK, NEW c \in Clients, LetThrough(c)
    PROVE  /\ \/ /\ Live(buckets[c])
                 /\ buckets'[c] = [count |-> buckets[c].count + 1, resetAt |-> buckets[c].resetAt]
              \/ ~Live(buckets[c]) /\ buckets'[c] = [count |-> 1, resetAt |-> clock + Window]
           /\ buckets'[c] \in [count: 1..MaxRequests, resetAt: Window..Horizon + Window]
           /\ \A d \in Clients \ {c} :
                 buckets'[d] = buckets[d] \/ (~Live(buckets[d]) /\ buckets'[d] = NoBucket)
           /\ DOMAIN buckets' = Clients
           /\ passes' = [passes EXCEPT ![c] = Append(@,
                            [at |-> clock, nth |-> buckets'[c].count,
                             since |-> buckets'[c].resetAt - Window])]
<1> DEFINE map == WithCurrent(c)
<1>1. clock \in 0..Horizon /\ buckets \in [Clients -> Bucket]
  BY DEF GatewayTypeOK, TypeOK
<1>2. CASE Live(buckets[c])
  <2>1. map = buckets
    BY <1>2 DEF WithCurrent
  <2>2. buckets[c] \in [count: 1..MaxRequests, resetAt: Window..Horizon + Window]
    BY <1>1, <1>2 DEF Bucket, NoBucket, Live
  <2>3. buckets[c].count < MaxRequests
    BY <1>2, <2>2 DEF LetThrough, Limited
  <2>4. buckets' = [buckets EXCEPT ![c].count = @ + 1]
    BY <2>1 DEF LetThrough
  <2>5. buckets'[c] = [count |-> buckets[c].count + 1, resetAt |-> buckets[c].resetAt]
    BY <1>1, <2>2, <2>4
  <2>6. buckets'[c] \in [count: 1..MaxRequests, resetAt: Window..Horizon + Window]
    BY <2>2, <2>3, <2>5
  <2>7. passes' = [passes EXCEPT ![c] = Append(@,
                    [at |-> clock, nth |-> buckets[c].count + 1,
                     since |-> buckets[c].resetAt - Window])]
    BY <2>1 DEF LetThrough
  <2> QED
    BY <1>1, <1>2, <2>4, <2>5, <2>6, <2>7
<1>3. CASE ~Live(buckets[c])
  <2> DEFINE fresh == [buckets EXCEPT ![c] = [count |-> 0, resetAt |-> clock + Window]]
  <2>1. map = Prune(fresh)
    BY <1>3 DEF WithCurrent
  <2>2. /\ map[c] = [count |-> 0, resetAt |-> clock + Window]
        /\ \A d \in Clients \ {c} :
              map[d] = buckets[d] \/ (~Live(buckets[d]) /\ map[d] = NoBucket)
        /\ DOMAIN map = Clients
        /\ map = [d \in Clients |-> map[d]]
    <3>1. /\ fresh[c] = [count |-> 0, resetAt |-> clock + Window]
          /\ Live(fresh[c])
          /\ \A d \in Clients \ {c} : fresh[d] = buckets[d]
          /\ fresh = [d \in Clients |-> fresh[d]]
      <4>1. fresh[c] = [count |-> 0, resetAt |-> clock + Window]
        BY <1>1
      <4>2. fresh[c].resetAt = clock + Window /\ clock < clock + Window
        BY <1>1, <4>1
      <4> QED
        BY <1>1, <4>1, <4>2 DEF Live
    <3>2. \/ map = fresh
          \/ map = [d \in Clients |-> IF Live(fresh[d]) THEN fresh[d] ELSE NoBucket]
      BY <2>1 DEF Prune
    <3> HIDE DEF fresh, map
    <3> QED
      BY <3>1, <3>2
  <2>3. /\ buckets' = [map EXCEPT ![c].count = @ + 1]
        /\ passes' = [passes EXCEPT ![c] = Append(@,
                         [at |-> clock, nth |-> map[c].count + 1,
                          since |-> map[c].resetAt - Window])]
    BY DEF LetThrough
  <2> HIDE DEF map
  <2>4. /\ buckets'[c] = [count |-> 1, resetAt |-> clock + Window]
        /\ \A d \in Clients \ {c} : buckets'[d] = map[d]
        /\ DOMAIN buckets' = Clients
    BY <2>2, <2>3
  <2>5. buckets'[c] \in [count: 1..MaxRequests, resetAt: Window..Horizon + Window]
    <3>1. 1 \in 1..MaxRequests /\ clock + Window \in Window..Horizon + Window
      BY <1>1
    <3> QED
      BY <2>4, <3>1
  <2> QED
    BY <1>3, <2>2, <2>3, <2>4, <2>5
<1> QED
  BY <1>2, <1>3

-----------------------------------------------------------------------------
(* The gateway drives the auth service as AuthKeys says callers do. *)

\* A request under way asks for something, is forwarded only after its validation is over
\* and was signed in the past.
Phases ==
    \A r \in Calls :
        /\ phase[r] # "free" => route[r] \in Routes
        /\ phase[r] \in {"forwarding", "sent"} => stage[r] = "done"
        /\ phase[r] = "sent" => sentAt[r] <= clock

LEMMA DoneStaysDone ==
    ASSUME TypeOK, AuthStep, NEW r \in Calls, stage[r] = "done"
    PROVE  stage'[r] = "done"
<1>1. ASSUME NEW s \in Calls, ValidationStep(s)
      PROVE  stage'[r] = "done"
  <2>1. stage[s] # "done"
    BY <1>1 DEF ValidationStep, CacheHit, CacheMiss, CheckRevoked, LoadKey, FillCache,
       HangUp, InFlight
  <2>2. \E t : Goto(s, t) \/ Answer(s, t)
    BY <1>1 DEF ValidationStep, CacheHit, CacheMiss, CheckRevoked, LoadKey, FillCache, HangUp
  <2>3. \E t : stage' = [stage EXCEPT ![s] = t]
    BY <2>2 DEF Goto, Answer
  <2> QED
    BY <2>1, <2>3 DEF TypeOK
<1>2. CASE Crash
  BY <1>2 DEF Crash, CancelCalls, InFlight
<1>3. CASE stage' = stage
  BY <1>3
<1>4. CASE Tick \/ \E k \in Keys, f \in KeyForms : CreateKey(k, f)
  BY <1>3, <1>4 DEF Tick, CreateKey, validations
<1>5. CASE \/ \E v \in Revocations, k \in Keys : FindByID(v, k)
           \/ \E v \in Revocations : RevokeKey(v) \/ DeleteCached(v)
  BY <1>3, <1>5 DEF FindByID, RevokeKey, DeleteCached, validations
<1> QED
  BY <1>1, <1>2, <1>4, <1>5 DEF AuthStep

LEMMA DrivesAuth ==
    ASSUME Phases, GatewayNext
    PROVE  [Next]_authVars
<1>1. ASSUME NEW r \in Calls, NEW c \in Clients, NEW rt \in Routes, Request(r, c, rt)
      PROVE  [Next]_authVars
  <2>1. CASE UNCHANGED validations
    BY <1>1, <2>1 DEF Request, authVars
  <2>2. CASE c # NoKey /\ Validate(r, c)
    BY <1>1, <2>2 DEF Request, Clients, Begin, Next
  <2> QED
    BY <1>1, <2>1, <2>2 DEF Request
<1>2. ASSUME NEW r \in Calls, Authorize(r) \/ Answered(r)
      PROVE  [Next]_authVars
  <2>1. stage[r] = "done"
    BY <1>2 DEF Authorize, Answered, Phases
  <2>2. CASE Forget(r)
    BY <1>2, <2>1, <2>2 DEF Authorize, Answered, End, Next
  <2>3. CASE UNCHANGED validations
    BY <1>2, <2>3 DEF Authorize, Answered, authVars
  <2> QED
    BY <1>2, <2>2, <2>3 DEF Authorize, Answered, Close
<1>3. CASE Restart
  BY <1>3 DEF Restart, Next
<1>4. CASE \E r \in Calls : Forward(r)
  BY <1>4 DEF Forward
<1> QED
  BY <1>1, <1>2, <1>3, <1>4 DEF GatewayNext, Next

\* No step of the auth service turns the clock back.
LEMMA ClockGrows ==
    ASSUME clock \in Nat, AuthStep
    PROVE  clock' \in Nat /\ clock <= clock'
<1>1. clock' = clock \/ clock' = clock + 1
  BY DEF AuthStep, Tick, CreateKey, ValidationStep, CacheHit, CacheMiss, CheckRevoked,
     LoadKey, FillCache, HangUp, FindByID, RevokeKey, DeleteCached, Crash
<1> QED
  BY <1>1

LEMMA PhasesStep ==
    ASSUME GatewayTypeOK, Phases, GatewayNext
    PROVE  Phases'
<1>1. CASE AuthStep /\ UNCHANGED <<limits, requests, counts>>
  <2>1. \A r \in Calls : stage[r] = "done" => stage'[r] = "done"
    BY <1>1, DoneStaysDone DEF GatewayTypeOK
  <2>2. clock \in Nat /\ clock' \in Nat /\ clock <= clock'
    BY <1>1, ClockGrows DEF GatewayTypeOK, TypeOK
  <2>3. \A r \in Calls : sentAt[r] \in Nat
    BY DEF GatewayTypeOK
  <2> QED
    BY <1>1, <2>1, <2>2, <2>3 DEF Phases
<1>2. ASSUME NEW r \in Calls, NEW c \in Clients, NEW rt \in Routes, Request(r, c, rt)
      PROVE  Phases'
  <2>1. CASE UNCHANGED <<requests, validations>>
    BY <1>2, <2>1 DEF Phases, Request
  <2>2. CASE /\ phase' = [phase EXCEPT ![r] = "validating"]
             /\ route' = [route EXCEPT ![r] = rt] /\ Validate(r, c) /\ UNCHANGED sentAt
    <3>1. /\ phase'[r] = "validating" /\ route'[r] = rt
          /\ clock' = clock /\ sentAt' = sentAt
          /\ \A q \in Calls \ {r} :
                phase'[q] = phase[q] /\ route'[q] = route[q] /\ stage'[q] = stage[q]
      BY <1>2, <2>2 DEF Request, Validate, GatewayTypeOK, TypeOK
    <3> QED
      BY <3>1 DEF Phases
  <2> QED
    BY <1>2, <2>1, <2>2 DEF Request
<1>3. ASSUME NEW r \in Calls, Authorize(r) \/ Answered(r)
      PROVE  Phases'
  <2>1. CASE Close(r)
    <3>1. /\ phase'[r] = "free" /\ clock' = clock
          /\ \A q \in Calls \ {r} :
                /\ phase'[q] = phase[q] /\ route'[q] = route[q]
                /\ stage'[q] = stage[q] /\ sentAt'[q] = sentAt[q]
      BY <1>3, <2>1 DEF Authorize, Answered, Close, Forget, GatewayTypeOK, TypeOK
    <3> QED
      BY <3>1 DEF Phases
  <2>2. CASE /\ phase' = [phase EXCEPT ![r] = "forwarding"]
             /\ UNCHANGED <<route, sentAt, validations>>
             /\ phase[r] # "free" /\ stage[r] = "done"
    <3>1. clock' = clock
      BY <1>3 DEF Authorize, Answered
    <3> QED
      BY <2>2, <3>1 DEF Phases, GatewayTypeOK
  <2> QED
    BY <1>3, <2>1, <2>2 DEF Authorize, Answered
<1>4. ASSUME NEW r \in Calls, Forward(r)
      PROVE  Phases'
  <2>1. /\ clock' = clock /\ stage' = stage /\ stage[r] = "done" /\ sentAt'[r] = clock
        /\ clock \in Nat /\ phase[r] # "free" /\ route' = route
        /\ \A q \in Calls \ {r} : phase'[q] = phase[q] /\ sentAt'[q] = sentAt[q]
    BY <1>4 DEF Forward, authVars, Phases, GatewayTypeOK, TypeOK
  <2> QED
    BY <2>1 DEF Phases
<1>5. CASE Restart
  BY <1>5 DEF Restart, Phases
<1> QED
  BY <1>1, <1>2, <1>3, <1>4, <1>5 DEF GatewayNext

LEMMA LetThroughTyped ==
    ASSUME GatewayTypeOK, NEW c \in Clients, LetThrough(c)
    PROVE  buckets' \in [Clients -> Bucket] /\ passes' \in [Clients -> Seq(Passage)]
<1> DEFINE p == [at |-> clock, nth |-> buckets'[c].count, since |-> buckets'[c].resetAt - Window]
<1>1. /\ buckets'[c] \in [count: 1..MaxRequests, resetAt: Window..Horizon + Window]
      /\ \A d \in Clients \ {c} : buckets'[d] = buckets[d] \/ buckets'[d] = NoBucket
      /\ passes' = [passes EXCEPT ![c] = Append(@, p)]
      /\ DOMAIN buckets' = Clients
  BY LetThroughCounts
<1>2. buckets \in [Clients -> Bucket] /\ passes \in [Clients -> Seq(Passage)]
  BY DEF GatewayTypeOK
<1>3. \A d \in Clients : buckets'[d] \in Bucket
  BY <1>1, <1>2 DEF Bucket
<1>4. buckets' = [d \in Clients |-> buckets'[d]]
  BY LetThroughCounts DEF LetThrough
<1>5. p \in Passage
  BY <1>1 DEF Passage, GatewayTypeOK, TypeOK
<1> HIDE DEF p
<1>6. Append(passes[c], p) \in Seq(Passage)
  BY <1>2, <1>5
<1> QED
  BY <1>1, <1>2, <1>3, <1>4, <1>6

LEMMA GatewayTypedStep ==
    ASSUME GatewayTypeOK, TypeOK', GatewayNext
    PROVE  GatewayTypeOK'
<1>1. CASE AuthStep /\ InTime /\ UNCHANGED <<limits, requests, counts>>
  BY <1>1 DEF GatewayTypeOK, Bucket, InTime
<1>2. ASSUME NEW r \in Calls, NEW c \in Clients, NEW rt \in Routes, Request(r, c, rt)
      PROVE  GatewayTypeOK'
  <2>1. arrivals' \in 0..MaxArrivals
    BY <1>2 DEF Request, GatewayTypeOK
  <2>2. /\ buckets' \in [Clients -> Bucket]
        /\ passes' \in [Clients -> Seq(Passage)]
    BY <1>2, LetThroughTyped DEF Request, GatewayTypeOK
  <2>3. /\ route' \in [Calls -> Routes \union {NoRoute}]
        /\ phase' \in [Calls -> {"free", "validating", "forwarding", "sent"}]
        /\ sentAt' = sentAt /\ restarts' = restarts /\ clock' = clock
        /\ \A q \in Calls : phase'[q] = "sent" => phase[q] = "sent"
    BY <1>2 DEF Request, GatewayTypeOK
  <2> QED
    BY <2>1, <2>2, <2>3 DEF GatewayTypeOK, Bucket
<1>3. ASSUME NEW r \in Calls, Authorize(r) \/ Answered(r)
      PROVE  GatewayTypeOK'
  <2>1. /\ route' \in [Calls -> Routes \union {NoRoute}]
        /\ phase' \in [Calls -> {"free", "validating", "forwarding", "sent"}]
        /\ sentAt' \in [Calls -> 0..Horizon]
        /\ clock' = clock /\ UNCHANGED <<limits, counts>>
    <3>1. 0 \in 0..Horizon
      BY DEF GatewayTypeOK, TypeOK
    <3> QED
      BY <1>3, <3>1 DEF Authorize, Answered, Close, GatewayTypeOK
  <2>2. \A q \in Calls : phase'[q] = "sent" => phase[q] = "sent" /\ sentAt'[q] = sentAt[q]
    BY <1>3 DEF Authorize, Answered, Close, GatewayTypeOK
  <2> QED
    BY <2>1, <2>2 DEF GatewayTypeOK, Bucket
<1>4. ASSUME NEW r \in Calls, Forward(r)
      PROVE  GatewayTypeOK'
  <2>1. /\ phase' \in [Calls -> {"free", "validating", "forwarding", "sent"}]
        /\ sentAt' \in [Calls -> 0..Horizon]
        /\ clock' = clock /\ clock \in 0..Horizon /\ UNCHANGED <<route, limits, counts>>
        /\ clock <= clock + Patience
    BY <1>4 DEF Forward, authVars, GatewayTypeOK, TypeOK
  <2>2. \A q \in Calls :
            \/ q = r /\ sentAt'[q] = clock
            \/ phase'[q] = phase[q] /\ sentAt'[q] = sentAt[q]
    BY <1>4 DEF Forward, GatewayTypeOK
  <2> QED
    BY <2>1, <2>2 DEF GatewayTypeOK, Bucket
<1>5. CASE Restart
  BY <1>5 DEF Restart, GatewayTypeOK, Bucket
<1> QED
  BY <1>1, <1>2, <1>3, <1>4, <1>5 DEF GatewayNext

GatewayInv == GatewayTypeOK /\ Bound /\ Phases

LEMMA GatewayInvStep == GatewayInv /\ [GatewayNext]_gatewayVars => GatewayInv'
<1> SUFFICES ASSUME GatewayInv, [GatewayNext]_gatewayVars
             PROVE  GatewayInv'
  OBVIOUS
<1>1. CASE GatewayNext
  <2>1. TypeOK' /\ Bound'
    BY <1>1, DrivesAuth, AuthTypeStep DEF GatewayInv, GatewayTypeOK
  <2> QED
    BY <1>1, <2>1, GatewayTypedStep, PhasesStep DEF GatewayInv
<1>2. CASE UNCHANGED gatewayVars
  <2>1. UNCHANGED authVars
    BY <1>2 DEF gatewayVars
  <2>2. TypeOK' /\ Bound'
    BY <2>1, AuthTypeStep DEF GatewayInv, GatewayTypeOK
  <2>3. Phases'
    BY <1>2, <2>1 DEF gatewayVars, authVars, GatewayInv, Phases
  <2> QED
    BY <1>2, <2>1, <2>2, <2>3 DEF gatewayVars, authVars, GatewayInv, GatewayTypeOK, Bucket
<1> QED
  BY <1>1, <1>2

\* The inductive invariant: types, calls that began in the past, and a request is
\* forwarded only after its validation is over and signed in the past.
THEOREM GatewayInvariant == GatewaySpec => []GatewayInv
<1>1. GatewayInit => GatewayInv
  <2> SUFFICES ASSUME GatewayInit PROVE GatewayInv
    OBVIOUS
  <2>1. TypeOK /\ Bound
    BY DEF GatewayInit, Init, TypeOK, Bound, InFlight, Row, NoForm
  <2>2. passes \in [Clients -> Seq(Passage)]
    BY DEF GatewayInit
  <2> QED
    BY <2>1, <2>2 DEF GatewayInit, GatewayInv, GatewayTypeOK, Phases, Bucket
<1> QED
  BY <1>1, GatewayInvStep, PTL DEF GatewaySpec

\* The variables of the gateway and of the auth service behind it keep their types,
\* through refused, limited and forwarded requests and restarts of either.
THEOREM GatewayTypes == GatewaySpec => []GatewayTypeOK
<1>1. GatewayInv => GatewayTypeOK
  BY DEF GatewayInv
<1> QED
  BY <1>1, GatewayInvariant, PTL

\* With the gateway as its caller the auth service behaves as AuthKeys specifies.
THEOREM GatewayIsACaller == GatewaySpec => Spec
<1>1. GatewayInit => Init
  BY DEF GatewayInit
<1>2. GatewayInv /\ [GatewayNext]_gatewayVars => [Next]_authVars
  BY DrivesAuth DEF GatewayInv, gatewayVars
<1> QED
  BY <1>1, <1>2, GatewayInvariant, PTL DEF GatewaySpec, Spec

\* No request gets past the guard with a key revoked too long ago ...
THEOREM RevokedKeysStayOut == GatewaySpec => RevocationTakesEffect
BY GatewayIsACaller, RevokedKeysDie, PTL

\* ... or expired too long ago.
THEOREM ExpiredKeysStayOut == GatewaySpec => ExpiryTakesEffect
BY GatewayIsACaller, ExpiredKeysDie, PTL

-----------------------------------------------------------------------------
(* The limiter holds its limit.  Each bucket begins at a passage, the later *)
(* ones at least a window after the earlier, and numbers its passages; so   *)
(* 2 * MaxRequests passages in a row either reach into a third bucket or    *)
(* fill two from the first passage to the last.                             *)

\* A passage falls into its bucket, the first at its beginning.
Within(p) ==
    /\ p.since <= p.at /\ p.at < p.since + Window
    /\ p.nth = 1 => p.at = p.since

\* What lies between p and q, which came d passages later.
Apart(p, q, d) ==
    \/ q.since = p.since /\ q.nth = p.nth + d
    \/ q.since >= p.since + Window /\ d <= MaxRequests - p.nth + q.nth
    \/ q.since >= p.since + Window + Window

Spaced(s) ==
    /\ \A i \in 1..Len(s) : Within(s[i])
    /\ \A i, j \in 1..Len(s) : i < j => Apart(s[i], s[j], j - i)

\* The client's bucket is the one of its last passage, or dropped after its end.
Remembered(c) ==
    LET s == passes[c]
        last == s[Len(s)]
    IN  IF s = <<>> THEN buckets[c] = NoBucket
        ELSE /\ last.since <= clock
             /\ \/ buckets[c] = [count |-> last.nth, resetAt |-> last.since + Window]
                \/ buckets[c] = NoBucket /\ last.since + Window <= clock

Windows == \A c \in Clients : Spaced(passes[c]) /\ Remembered(c)

\* The next passage is the next of the last one's bucket, or the first of a later one.
Follows(p, q) ==
    \/ q.since = p.since /\ q.nth = p.nth + 1
    \/ q.since >= p.since + Window /\ q.nth = 1

LEMMA PassageNumbers ==
    ASSUME NEW p \in Passage
    PROVE  /\ p.at \in Nat /\ p.since \in Nat /\ p.nth \in Nat
           /\ 1 <= p.nth /\ p.nth <= MaxRequests
BY DEF Passage

LEMMA ApartGrows ==
    ASSUME NEW p \in Passage, NEW q \in Passage, NEW r \in Passage, NEW d \in Nat,
           Apart(p, q, d), Follows(q, r)
    PROVE  Apart(p, r, d + 1)
<1>1. /\ p.since \in Nat /\ q.since \in Nat /\ r.since \in Nat
      /\ p.nth \in Nat /\ q.nth \in Nat /\ r.nth \in Nat
      /\ q.nth <= MaxRequests
  BY PassageNumbers
<1>2. CASE q.since = p.since /\ q.nth = p.nth + d
  BY <1>1, <1>2 DEF Apart, Follows
<1>3. CASE q.since >= p.since + Window /\ d <= MaxRequests - p.nth + q.nth
  <2>1. CASE r.since = q.since /\ r.nth = q.nth + 1
    <3>1. d + 1 <= MaxRequests - p.nth + r.nth
      BY <1>1, <1>3, <2>1
    <3> QED
      BY <1>3, <2>1, <3>1 DEF Apart
  <2>2. CASE r.since >= q.since + Window
    BY <1>1, <1>3, <2>2 DEF Apart
  <2> QED
    BY <2>1, <2>2 DEF Follows
<1>4. CASE q.since >= p.since + Window + Window
  BY <1>1, <1>4 DEF Apart, Follows
<1> QED
  BY <1>2, <1>3, <1>4 DEF Apart

LEMMA SpacedGrows ==
    ASSUME NEW s \in Seq(Passage), NEW p \in Passage, Spaced(s), Within(p),
           s # <<>> => Follows(s[Len(s)], p)
    PROVE  Spaced(Append(s, p))
<1> DEFINE n == Len(s)
           t == Append(s, p)
<1>1. /\ n \in Nat /\ Len(t) = n + 1 /\ t[n + 1] = p
      /\ \A i \in 1..n : t[i] = s[i] /\ s[i] \in Passage
  OBVIOUS
<1>2. n > 0 => Follows(s[n], p)
  OBVIOUS
<1> HIDE DEF n, t
<1>3. \A i \in 1..Len(t) : Within(t[i])
  <2> TAKE i \in 1..Len(t)
  <2>1. i \in 1..n \/ i = n + 1
    BY <1>1
  <2> QED
    BY <1>1, <2>1 DEF Spaced, n
<1>4. ASSUME NEW i \in 1..n
      PROVE  Apart(t[i], t[n + 1], n + 1 - i)
  <2>1. s[i] \in Passage /\ s[n] \in Passage /\ Follows(s[n], p) /\ i \in Nat
    BY <1>1, <1>2, <1>4
  <2>2. CASE i = n
    <3>1. /\ s[n].since \in Nat /\ p.since \in Nat
          /\ s[n].nth \in Nat /\ s[n].nth <= MaxRequests /\ p.nth \in Nat
      BY <2>1, PassageNumbers
    <3>2. n + 1 - i = 1
      BY <1>1, <2>2
    <3>3. Apart(s[n], p, 1)
      BY <2>1, <3>1 DEF Apart, Follows
    <3> QED
      BY <1>1, <1>4, <2>2, <3>2, <3>3
  <2>3. CASE i < n
    <3>1. n - i \in Nat /\ n - i + 1 = n + 1 - i /\ n \in 1..n
      BY <1>1, <2>1, <2>3
    <3>2. Apart(s[i], s[n], n - i)
      BY <1>4, <2>3, <3>1 DEF Spaced, n
    <3>3. Apart(s[i], p, n - i + 1)
      BY <2>1, <3>1, <3>2, ApartGrows
    <3> QED
      BY <1>1, <1>4, <3>1, <3>3
  <2> QED
    BY <1>1, <2>1, <2>2, <2>3
<1>5. \A i, j \in 1..Len(t) : i < j => Apart(t[i], t[j], j - i)
  <2> SUFFICES ASSUME NEW i \in 1..Len(t), NEW j \in 1..Len(t), i < j
               PROVE  Apart(t[i], t[j], j - i)
    OBVIOUS
  <2>1. i \in 1..n /\ (j \in 1..n \/ j = n + 1)
    BY <1>1
  <2>2. CASE j \in 1..n
    BY <1>1, <2>1, <2>2 DEF Spaced, n
  <2>3. CASE j = n + 1
    <3>1. Apart(t[i], t[n + 1], n + 1 - i)
      BY <1>4, <2>1
    <3>2. t[j] = t[n + 1] /\ j - i = n + 1 - i
      BY <1>1, <2>1, <2>3
    <3> QED
      BY <3>1, <3>2
  <2> QED
    BY <2>1, <2>2, <2>3
<1> QED
  BY <1>3, <1>5 DEF Spaced, t

\* Of two passages the later is a window after the earlier if its bucket begins two
\* windows later, or one window later when the earlier is the first of its own.
LEMMA WindowBetween ==
    ASSUME NEW a \in Nat, NEW b \in Nat, NEW x \in Nat, NEW y \in Nat,
           a < x + Window, y <= b,
           \/ y >= x + Window + Window
           \/ a = x /\ y >= x + Window
    PROVE  b >= a + Window
<1>1. Window \in Nat
  OBVIOUS
<1> QED
  BY <1>1

LEMMA SpacedLimits ==
    ASSUME NEW s \in Seq(Passage), Spaced(s),
           NEW i \in DOMAIN s, NEW j \in DOMAIN s, j = i + 2 * MaxRequests - 1
    PROVE  s[j].at >= s[i].at + Window
<1>1. i \in 1..Len(s) /\ j \in 1..Len(s)
  OBVIOUS
<1>2. s[i] \in Passage /\ s[j] \in Passage
  OBVIOUS
<1>3. /\ s[i].since \in Nat /\ s[j].since \in Nat /\ s[i].at \in Nat /\ s[j].at \in Nat
      /\ s[i].nth \in Nat /\ 1 <= s[i].nth /\ s[i].nth <= MaxRequests
      /\ s[j].nth \in Nat /\ 1 <= s[j].nth /\ s[j].nth <= MaxRequests
  BY <1>2, PassageNumbers
<1>4. i < j /\ j - i = 2 * MaxRequests - 1
  BY <1>1
<1>5. Within(s[i]) /\ Within(s[j]) /\ Apart(s[i], s[j], 2 * MaxRequests - 1)
  BY <1>1, <1>4 DEF Spaced
<1>6. CASE s[j].since = s[i].since /\ s[j].nth = s[i].nth + (2 * MaxRequests - 1)
  BY <1>3, <1>6
<1>7. CASE /\ s[j].since >= s[i].since + Window
           /\ 2 * MaxRequests - 1 <= MaxRequests - s[i].nth + s[j].nth
  <2>1. s[i].nth = 1
    BY <1>3, <1>7
  <2>2. s[i].at = s[i].since /\ s[i].at < s[i].since + Window /\ s[j].since <= s[j].at
    BY <1>5, <2>1 DEF Within
  <2> QED
    BY <1>3, <1>7, <2>2, WindowBetween
<1>8. CASE s[j].since >= s[i].since + Window + Window
  <2>1. s[i].at < s[i].since + Window /\ s[j].since <= s[j].at
    BY <1>5 DEF Within
  <2> QED
    BY <1>3, <1>8, <2>1, WindowBetween
<1> QED
  BY <1>5, <1>6, <1>7, <1>8 DEF Apart

LEMMA LetThroughKeeps ==
    ASSUME GatewayTypeOK, Windows, NEW c \in Clients, LetThrough(c), UNCHANGED clock
    PROVE  Windows'
<1> DEFINE s == passes[c]
           p == [at |-> clock, nth |-> buckets'[c].count, since |-> buckets'[c].resetAt - Window]
<1>1. s \in Seq(Passage) /\ clock \in 0..Horizon
  BY DEF GatewayTypeOK, TypeOK
<1>2. /\ buckets'[c] \in [count: 1..MaxRequests, resetAt: Window..Horizon + Window]
      /\ passes' = [passes EXCEPT ![c] = Append(s, p)]
      /\ \/ /\ Live(buckets[c])
            /\ buckets'[c] = [count |-> buckets[c].count + 1, resetAt |-> buckets[c].resetAt]
         \/ ~Live(buckets[c]) /\ buckets'[c] = [count |-> 1, resetAt |-> clock + Window]
      /\ \A d \in Clients \ {c} :
            buckets'[d] = buckets[d] \/ (~Live(buckets[d]) /\ buckets'[d] = NoBucket)
  BY LetThroughCounts
<1>3. p \in Passage
  <2>1. buckets'[c].count \in 1..MaxRequests /\ buckets'[c].resetAt \in Window..Horizon + Window
    BY <1>2
  <2>2. buckets'[c].resetAt - Window \in 0..Horizon
    BY <2>1
  <2> QED
    BY <1>1, <2>1, <2>2 DEF Passage
<1>4. /\ passes'[c] = Append(s, p) /\ \A d \in Clients \ {c} : passes'[d] = passes[d]
      /\ Append(s, p) # <<>>
      /\ Append(s, p)[Len(Append(s, p))] = p
  <2>1. passes'[c] = Append(s, p) /\ \A d \in Clients \ {c} : passes'[d] = passes[d]
    <3> HIDE DEF p
    <3> QED
      BY <1>2 DEF GatewayTypeOK
  <2>2. Append(s, p) # <<>> /\ Append(s, p)[Len(Append(s, p))] = p
    <3> HIDE DEF p, s
    <3> QED
      BY <1>1, <1>3
  <2> QED
    BY <2>1, <2>2
<1>5. Spaced(s) /\ Remembered(c)
  BY DEF Windows
<1>6. ASSUME s # <<>>
      PROVE  /\ s[Len(s)] \in Passage /\ s[Len(s)].since <= clock
             /\ \/ buckets[c] = [count |-> s[Len(s)].nth, resetAt |-> s[Len(s)].since + Window]
                \/ buckets[c] = NoBucket /\ s[Len(s)].since + Window <= clock
  BY <1>1, <1>5, <1>6 DEF Remembered
<1>7. Within(p) /\ (s # <<>> => Follows(s[Len(s)], p))
  <2>1. CASE Live(buckets[c])
    <3>1. ~Live(NoBucket)
      BY <1>1 DEF Live, NoBucket
    <3>2. s # <<>>
      BY <1>5, <2>1, <3>1 DEF Remembered
    <3>3. buckets[c] = [count |-> s[Len(s)].nth, resetAt |-> s[Len(s)].since + Window]
      BY <1>6, <2>1, <3>1, <3>2
    <3>4. /\ s[Len(s)].since \in Nat /\ s[Len(s)].nth \in Nat
          /\ 1 <= s[Len(s)].nth /\ s[Len(s)].nth <= MaxRequests
      BY <1>6, <3>2, PassageNumbers
    <3>5. /\ buckets'[c].count = s[Len(s)].nth + 1
          /\ buckets'[c].resetAt = s[Len(s)].since + Window
      BY <1>2, <2>1, <3>3
    <3>6. p.nth = s[Len(s)].nth + 1 /\ p.since = s[Len(s)].since /\ p.at = clock
      BY <3>4, <3>5
    <3>7. s[Len(s)].since <= clock /\ clock < s[Len(s)].since + Window
      BY <1>6, <2>1, <3>2, <3>3 DEF Live
    <3> HIDE DEF p
    <3>8. Follows(s[Len(s)], p) /\ Within(p)
      BY <3>4, <3>6, <3>7 DEF Follows, Within
    <3> QED
      BY <3>8
  <2>2. CASE ~Live(buckets[c])
    <3>1. p = [at |-> clock, nth |-> 1, since |-> clock]
      BY <1>1, <1>2, <2>2
    <3>2. Within(p)
      BY <1>1, <3>1 DEF Within
    <3>3. ASSUME s # <<>>
          PROVE  s[Len(s)].since + Window <= clock
      <4>1. s[Len(s)].since \in Nat
        BY <1>6, <3>3, PassageNumbers
      <4> QED
        BY <1>1, <1>6, <2>2, <3>3, <4>1 DEF Live
    <3> HIDE DEF p
    <3>4. s # <<>> => Follows(s[Len(s)], p)
      BY <3>1, <3>3 DEF Follows
    <3> QED
      BY <3>2, <3>4
  <2> QED
    BY <2>1, <2>2
<1>8. Spaced(Append(s, p))
  BY <1>1, <1>3, <1>5, <1>7, SpacedGrows
<1>9. Remembered(c)'
  <2>1. buckets'[c] = [count |-> p.nth, resetAt |-> p.since + Window]
    BY <1>2
  <2>2. p.since <= clock'
    BY <1>1, <1>3, <1>7, PassageNumbers DEF Within
  <2> HIDE DEF p
  <2> QED
    BY <1>4, <2>1, <2>2 DEF Remembered
<1>10. ASSUME NEW d \in Clients \ {c}
       PROVE  Spaced(passes'[d]) /\ Remembered(d)'
  <2>1. Spaced(passes[d]) /\ Remembered(d) /\ passes'[d] = passes[d]
    BY <1>4, <1>10 DEF Windows
  <2>2. buckets'[d] = buckets[d] \/ (~Live(buckets[d]) /\ buckets'[d] = NoBucket)
    BY <1>2, <1>10
  <2>3. CASE passes[d] = <<>>
    BY <2>1, <2>2, <2>3 DEF Remembered
  <2>4. CASE passes[d] # <<>>
    <3> DEFINE last == passes[d][Len(passes[d])]
    <3>1. last.since \in Nat
      <4>1. passes[d] \in Seq(Passage)
        BY DEF GatewayTypeOK
      <4>2. last \in Passage
        BY <2>4, <4>1
      <4> QED
        BY <4>2, PassageNumbers
    <3>2. buckets[d] = [count |-> last.nth, resetAt |-> last.since + Window] /\ ~Live(buckets[d])
            => last.since + Window <= clock
      BY <1>1, <3>1 DEF Live
    <3> QED
      BY <2>1, <2>2, <2>4, <3>2 DEF Remembered
  <2> QED
    BY <2>3, <2>4
<1> QED
  BY <1>4, <1>8, <1>9, <1>10 DEF Windows

\* A step that leaves the limiter alone leaves its windows, time passing or not.
LEMMA QuietKeepsWindows ==
    ASSUME GatewayTypeOK, Windows, UNCHANGED limits, clock' \in Nat, clock <= clock'
    PROVE  Windows'
<1> SUFFICES ASSUME NEW c \in Clients
             PROVE  Spaced(passes'[c]) /\ Remembered(c)'
  BY DEF Windows
<1>1. Spaced(passes[c]) /\ Remembered(c) /\ clock \in Nat
  BY DEF Windows, GatewayTypeOK, TypeOK
<1>2. CASE passes[c] = <<>>
  BY <1>1, <1>2 DEF Remembered
<1>3. CASE passes[c] # <<>>
  <2> DEFINE last == passes[c][Len(passes[c])]
  <2>1. last.since \in Nat
    <3>1. passes[c] \in Seq(Passage)
      BY DEF GatewayTypeOK
    <3>2. last \in Passage
      BY <1>3, <3>1
    <3> QED
      BY <3>2, PassageNumbers
  <2>2. /\ last.since <= clock => last.since <= clock'
        /\ last.since + Window <= clock => last.since + Window <= clock'
    BY <1>1, <2>1
  <2> QED
    BY <1>1, <1>3, <2>2 DEF Remembered
<1> QED
  BY <1>2, <1>3

LEMMA WindowsStep == GatewayInv /\ GatewayInv' /\ Windows /\ [GatewayNext]_gatewayVars => Windows'
<1> SUFFICES ASSUME GatewayInv, GatewayInv', Windows, [GatewayNext]_gatewayVars
             PROVE  Windows'
  OBVIOUS
<1>1. GatewayTypeOK /\ clock \in Nat /\ clock' \in Nat
  BY DEF GatewayInv, GatewayTypeOK, TypeOK
<1>2. CASE UNCHANGED limits /\ UNCHANGED clock
  BY <1>1, <1>2, QuietKeepsWindows
<1>3. CASE AuthStep /\ UNCHANGED limits
  <2>1. clock <= clock'
    BY <1>1, <1>3, ClockGrows
  <2> QED
    BY <1>1, <1>3, <2>1, QuietKeepsWindows
<1>4. ASSUME NEW r \in Calls, NEW c \in Clients, NEW rt \in Routes, Request(r, c, rt)
      PROVE  Windows'
  <2>1. UNCHANGED clock /\ (LetThrough(c) \/ UNCHANGED limits)
    BY <1>4 DEF Request
  <2> QED
    BY <1>1, <1>2, <2>1, LetThroughKeeps
<1>5. CASE \E r \in Calls : Authorize(r) \/ Forward(r) \/ Answered(r)
  BY <1>2, <1>5 DEF Authorize, Forward, Answered, authVars
<1>6. CASE Restart
  BY <1>6 DEF Restart, Windows, Spaced, Remembered
<1>7. CASE UNCHANGED gatewayVars
  BY <1>2, <1>7 DEF gatewayVars, authVars
<1> QED
  BY <1>3, <1>4, <1>5, <1>6, <1>7 DEF GatewayNext

\* A client never gets more past the limiter than twice its limit less one in a window.
THEOREM LimitHolds == GatewaySpec => []RateLimited
<1>1. GatewayInit => Windows
  BY DEF GatewayInit, Windows, Spaced, Remembered
<1>2. GatewayInv /\ Windows => RateLimited
  <2> SUFFICES ASSUME GatewayInv, Windows, NEW c \in Clients,
                      NEW i \in DOMAIN passes[c], NEW j \in DOMAIN passes[c],
                      j = i + 2 * MaxRequests - 1
               PROVE  passes[c][j].at >= passes[c][i].at + Window
    BY DEF RateLimited
  <2>1. passes[c] \in Seq(Passage) /\ Spaced(passes[c])
    BY DEF GatewayInv, GatewayTypeOK, Windows
  <2> QED
    BY <2>1, SpacedLimits
<1> QED
  BY <1>1, <1>2, WindowsStep, GatewayInvariant, PTL DEF GatewaySpec

-----------------------------------------------------------------------------
(* Every call the gateway still waits for is admitted. *)

\* Both ways of judging a timestamp admit one that was written at most Patience ago.
LEMMA RecentIsFresh ==
    ASSUME NEW s \in Services, NEW at \in Nat, clock \in Nat,
           at <= clock, clock <= at + Patience
    PROVE  /\ ValidTimestamp(at, clock + Ahead[s])
           /\ IsFreshTimestamp(at, clock + Ahead[s])
<1>1. /\ Ahead[s] \in Int /\ Patience \in Nat /\ MaxClockSkew \in Nat
      /\ -MaxClockSkew < Ahead[s] /\ Ahead[s] + Patience < MaxClockSkew
  OBVIOUS
<1> QED
  BY <1>1 DEF ValidTimestamp, IsFreshTimestamp

\* The service that gets a call computes the signature that was sent with it.
LEMMA SignatureHolds ==
    ASSUME NEW call, NEW at
    PROVE  /\ SignInternalRequest(call, at).at = at
           /\ ValidSignature(call, HashBody(call.body), SignInternalRequest(call, at))
BY DEF ValidSignature, SignInternalRequest

\* What the API offers is known where the gateway sends it.
LEMMA OfferedIsKnown ==
    ASSUME NEW rt \in Route, Offered(rt)
    PROVE  Onward(rt).target \in Known /\ Part(Served(rt)) = Part(rt.path)
<1>1. Served(rt) \in Paths /\ Onward(rt).target = <<Served(rt), Target(rt)>>
  BY DEF Route, Served, Onward
<1>2. Target(rt) = "/*" \/ (Target(rt) = "/" /\ Served(rt) # "transactions")
  BY DEF Offered, Target, Served
<1> QED
  BY <1>1, <1>2 DEF Known, Offered

\* No request and no validation is turned away for its signature, its age or its path,
\* whatever the clocks, as long as they differ by less than the skew less the timeout.
THEOREM CallsAreAdmitted == GatewaySpec => []CallsAreHeard
<1>1. GatewayInv => CallsAreHeard
  <2> SUFFICES ASSUME GatewayInv, NEW r \in Calls
               PROVE  /\ InFlight(r) => RequireInternalAuth(Validation,
                             SignInternalRequest(Validation, began[r]), clock + Ahead["auth"])
                      /\ (/\ phase[r] = "sent" /\ Offered(route[r])
                          /\ route[r].path = "webhooks" /\ ~route[r].get
                                => route[r].body # "none")
                         => Heard(route[r], sentAt[r])
    BY DEF CallsAreHeard
  <2>1. clock \in Nat /\ began[r] \in Nat /\ sentAt[r] \in Nat
    BY DEF GatewayInv, GatewayTypeOK, TypeOK
  <2>2. ASSUME InFlight(r)
        PROVE  RequireInternalAuth(Validation, SignInternalRequest(Validation, began[r]),
                                   clock + Ahead["auth"])
    <3>1. began[r] <= clock /\ clock <= began[r] + Patience
      BY <2>2 DEF GatewayInv, Bound, GatewayTypeOK, TypeOK
    <3>2. ValidTimestamp(began[r], clock + Ahead["auth"])
      BY <2>1, <3>1, RecentIsFresh DEF Services
    <3> QED
      BY <3>2, SignatureHolds DEF RequireInternalAuth
  <2>3. ASSUME phase[r] = "sent", Offered(route[r]),
               route[r].path = "webhooks" /\ ~route[r].get => route[r].body # "none"
        PROVE  Heard(route[r], sentAt[r])
    <3> DEFINE rt == route[r]
               call == Onward(rt)
    <3>1. sentAt[r] <= clock /\ clock <= sentAt[r] + Patience
      BY <2>3 DEF GatewayInv, Phases, GatewayTypeOK
    <3>2. rt \in Route
      BY <2>3 DEF GatewayInv, Phases
    <3>3. call.target \in Known /\ Part(Served(rt)) = Part(rt.path)
      BY <2>3, <3>2, OfferedIsKnown
    <3>4. "webhooks" \in Services /\ Part(rt.path) \in Services
      BY <3>2 DEF Part, Services, Route, Paths
    <3>5. CASE rt.path = "webhooks"
      <4>1. BodySha256(call) = HashBody(call.body)
        BY <2>3, <3>5 DEF BodySha256, Onward
      <4>2. IsFreshTimestamp(sentAt[r], clock + Ahead["webhooks"])
        BY <2>1, <3>1, <3>4, RecentIsFresh
      <4> QED
        BY <3>3, <3>5, <4>1, <4>2, SignatureHolds DEF Heard, CanActivate
    <3>6. CASE rt.path # "webhooks"
      <4>1. ValidTimestamp(sentAt[r], clock + Ahead[Part(rt.path)])
        BY <2>1, <3>1, <3>4, RecentIsFresh
      <4> QED
        BY <3>3, <3>6, <4>1, SignatureHolds DEF Heard, RequireInternalAuth
    <3> QED
      BY <3>5, <3>6
  <2> QED
    BY <2>2, <2>3
<1> QED
  BY <1>1, GatewayInvariant, PTL

-----------------------------------------------------------------------------
(* Routes open to the keys created for them. *)

\* The normal form of a key's scopes meets what is asked for, with "full" and "admin",
\* exactly when the scopes it was created with do, none standing for all.
LEMMA NormalFormDecides ==
    ASSUME NEW k, NEW required
    PROVE  HasAnyScope(ScopeOf(k), required) <=> Requested(k, {"full", "admin"} \union required)
<1> DEFINE items == row[k].form.items
<1>1. CASE items = <<>>
  BY <1>1 DEF HasAnyScope, ScopeOf, NormalizeScope, Requested
<1>2. CASE items # <<>> /\ Fulls(items) # {}
  <2>1. "full" \in ToSet(items)
    BY <1>2 DEF Fulls, ToSet
  <2> QED
    BY <1>2, <2>1 DEF HasAnyScope, ScopeOf, NormalizeScope, Requested
<1>3. CASE items # <<>> /\ Fulls(items) = {}
  BY <1>3 DEF HasAnyScope, ScopeOf, NormalizeScope, Requested
<1> QED
  BY <1>1, <1>2, <1>3

\* What a route requires is its write scope and, unless it changes something, its read
\* scope.
LEMMA RouteRequires ==
    ASSUME NEW rt \in Route
    PROVE  RequiredScopes(rt) =
               WriteScope[Part(rt.path)] \union IF Changes(rt) THEN {} ELSE ReadScope[Part(rt.path)]
BY DEF RequiredScopes, Changes, Route

LEMMA RequestedEither ==
    ASSUME NEW k, NEW S, NEW T
    PROVE  Requested(k, S \union T) <=> Requested(k, S) \/ Requested(k, T)
BY DEF Requested

\* A validated request goes on exactly when its key was created for its route, for all
\* lists of scopes and all routes but those whose dot segments lead to another path.
THEOREM RoutesOpenToTheirKeys == GatewaySpec => RoutesFollowTheKey
<1> DEFINE Allowed(r) ==
        LET part == Part(route[r].path) IN
        \/ Requested(carries[r], {"full", "admin"} \union WriteScope[part])
        \/ ~Changes(route[r]) /\ Requested(carries[r], ReadScope[part])
<1>1. ASSUME GatewayInv, [GatewayNext]_gatewayVars, NEW r \in Calls,
             phase[r] = "validating", phase'[r] # "validating",
             verdict[r] = "valid", UNCHANGED restarts,
             Served(route[r]) = route[r].path
      PROVE  phase'[r] = "forwarding" <=> Allowed(r)
  <2>1. Authorize(r)
    <3>1. phase' # phase
      BY <1>1
    <3>2. ~UNCHANGED gatewayVars /\ ~(AuthStep /\ UNCHANGED <<limits, requests, counts>>)
      BY <3>1 DEF gatewayVars
    <3>3. ~Restart
      BY <1>1 DEF Restart, GatewayInv, GatewayTypeOK
    <3>4. ASSUME NEW q \in Calls, NEW c \in Clients, NEW rt \in Routes, Request(q, c, rt)
          PROVE  FALSE
      <4>1. phase[q] = "free" /\ q # r
        BY <1>1, <3>4 DEF Request
      <4>2. phase' = [phase EXCEPT ![q] = "validating"]
        BY <3>1, <3>4 DEF Request
      <4> QED
        BY <1>1, <4>1, <4>2 DEF GatewayInv, GatewayTypeOK
    <3>5. ASSUME NEW q \in Calls, Authorize(q) \/ Forward(q) \/ Answered(q), q # r
          PROVE  FALSE
      <4>1. phase'[r] = phase[r]
        <5>1. \E p : phase' = [phase EXCEPT ![q] = p]
          BY <3>5 DEF Authorize, Forward, Answered, Close
        <5> QED
          BY <1>1, <3>5, <5>1 DEF GatewayInv, GatewayTypeOK
      <4> QED
        BY <1>1, <4>1
    <3>6. ~Forward(r) /\ ~Answered(r)
      BY <1>1 DEF Forward, Answered
    <3> QED
      BY <1>1, <3>2, <3>3, <3>4, <3>5, <3>6 DEF GatewayNext
  <2>2. phase'[r] = "forwarding" <=> HasAnyScope(ScopeOf(carries[r]), RequiredScopes(route[r]))
    BY <1>1, <2>1 DEF Authorize, Close, GatewayInv, GatewayTypeOK
  <2>3. route[r] \in Route
    BY <1>1 DEF GatewayInv, Phases
  <2>4. HasAnyScope(ScopeOf(carries[r]), RequiredScopes(route[r])) <=> Allowed(r)
    <3> DEFINE W == WriteScope[Part(route[r].path)]
               R == ReadScope[Part(route[r].path)]
               all == {"full", "admin"}
    <3>1. HasAnyScope(ScopeOf(carries[r]), RequiredScopes(route[r]))
            <=> Requested(carries[r], all \union RequiredScopes(route[r]))
      BY NormalFormDecides
    <3>2. CASE Changes(route[r])
      BY <2>3, <3>1, <3>2, RouteRequires
    <3>3. CASE ~Changes(route[r])
      <4>1. all \union RequiredScopes(route[r]) = (all \union W) \union R
        BY <2>3, <3>3, RouteRequires
      <4> QED
        BY <3>1, <3>3, <4>1, RequestedEither
    <3> QED
      BY <3>2, <3>3
  <2> QED
    BY <2>2, <2>4
<1>2. GatewayInv /\ [GatewayNext]_gatewayVars
        => [\A r \in Calls :
              (/\ phase[r] = "validating" /\ phase'[r] # "validating"
               /\ verdict[r] = "valid" /\ UNCHANGED restarts
               /\ Served(route[r]) = route[r].path)
              => (phase'[r] = "forwarding" <=> Allowed(r))]_gatewayVars
  BY <1>1
<1> QED
  BY <1>2, GatewayInvariant, PTL DEF GatewaySpec, RoutesFollowTheKey
=============================================================================
