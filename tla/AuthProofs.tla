------------------------------ MODULE AuthProofs ------------------------------
(***************************************************************************)
(* Machine-checked proofs about the auth service, for every number of keys,*)
(* concurrent validations and revocations, every time to live, every       *)
(* patience of the caller and every combination of faults.                 *)
(***************************************************************************)
EXTENDS AuthKeys, TLAPS

USE AuthAssumption

-----------------------------------------------------------------------------
(* Type correctness, with the facts it rests on: a call in flight carries a *)
(* key and began in the past, a revocation under way has a target.          *)

Bound ==
    /\ \A r \in Calls : InFlight(r) => carries[r] \in Keys /\ began[r] <= clock
    /\ \A v \in Revocations : duty[v] # "idle" => target[v] \in Keys

USE DEF tables, validations, revocations

LEMMA AnswerTyped ==
    ASSUME TypeOK, Bound, NEW r \in Calls, InFlight(r),
           NEW v \in {"valid", "invalid", "revoked", "error"},
           Answer(r, v), UNCHANGED <<clock, tables, carries, began, revocations, crashes>>,
           cached' \in [Keys -> Nat]
    PROVE  TypeOK' /\ Bound'
BY DEF TypeOK, Bound, Answer, InFlight, Row, IsRevoked

LEMMA GotoTyped ==
    ASSUME TypeOK, Bound, NEW r \in Calls, InFlight(r),
           NEW s \in {"revocation", "row", "fill"},
           Goto(r, s), UNCHANGED <<clock, tables, cached, carries, began, revocations, crashes>>
    PROVE  TypeOK' /\ Bound'
BY DEF TypeOK, Bound, Goto, InFlight, Row, IsRevoked

LEMMA TTLBounds ==
    ASSUME TypeOK, NEW k \in Keys
    PROVE  /\ KeyValidationCacheTTL(k) \in Nat
           /\ KeyValidationCacheTTL(k) <= CacheTTL
           /\ \/ clock + KeyValidationCacheTTL(k) <= row[k].expires
              \/ row[k].expires <= clock /\ KeyValidationCacheTTL(k) = MinTTL
<1>1. row[k].expires \in Nat /\ clock \in Nat
  BY DEF TypeOK, Row
<1> QED
  BY <1>1 DEF KeyValidationCacheTTL

LEMMA ValidationTyped ==
    ASSUME TypeOK, Bound, NEW r \in Calls, ValidationStep(r)
    PROVE  TypeOK' /\ Bound'
<1>1. CASE CacheHit(r) \/ HangUp(r)
  BY <1>1, AnswerTyped DEF CacheHit, HangUp, InFlight, TypeOK
<1>2. CASE CacheMiss(r)
  BY <1>2, GotoTyped DEF CacheMiss, InFlight
<1>3. CASE CheckRevoked(r)
  <2>1. CASE Answer(r, "revoked") \/ Answer(r, "error")
    BY <1>3, <2>1, AnswerTyped DEF CheckRevoked, InFlight, TypeOK
  <2>2. CASE Goto(r, "row")
    BY <1>3, <2>2, GotoTyped DEF CheckRevoked, InFlight
  <2> QED
    BY <1>3, <2>1, <2>2 DEF CheckRevoked
<1>4. CASE LoadKey(r)
  <2>1. CASE Answer(r, "invalid") \/ Answer(r, "error")
    BY <1>4, <2>1, AnswerTyped DEF LoadKey, InFlight, TypeOK
  <2>2. CASE Goto(r, "fill")
    BY <1>4, <2>2, GotoTyped DEF LoadKey, InFlight
  <2> QED
    BY <1>4, <2>1, <2>2 DEF LoadKey
<1>5. CASE FillCache(r)
  <2>1. InFlight(r) /\ carries[r] \in Keys
    BY <1>5 DEF FillCache, InFlight, Bound
  <2>2. cached' \in [Keys -> Nat]
    <3>1. clock + KeyValidationCacheTTL(carries[r]) \in Nat
      BY <2>1, TTLBounds DEF TypeOK
    <3> QED
      BY <1>5, <2>1, <3>1 DEF FillCache, TypeOK
  <2> QED
    BY <1>5, <2>1, <2>2, AnswerTyped DEF FillCache
<1> QED
  BY <1>1, <1>2, <1>3, <1>4, <1>5 DEF ValidationStep

LEMMA RevocationTyped ==
    ASSUME TypeOK, Bound, NEW v \in Revocations, RevokeKey(v)
    PROVE  TypeOK' /\ Bound'
<1>1. target[v] \in Keys
  BY DEF RevokeKey, Bound
<1>2. row' \in [Keys -> Row] /\ revoked' \in [Keys -> -1..Horizon]
  <2>1. CASE Revoke(target[v])
    <3>1. row[target[v]] \in Row /\ row \in [Keys -> Row]
      BY <1>1 DEF TypeOK
    <3>2. [row[target[v]] EXCEPT !.status = "inactive"] \in Row
      BY <3>1 DEF Row
    <3>3. row' \in [Keys -> Row]
      BY <1>1, <2>1, <3>1, <3>2 DEF Revoke
    <3>4. revoked' \in [Keys -> -1..Horizon]
      BY <1>1, <2>1 DEF Revoke, TypeOK
    <3> QED
      BY <3>3, <3>4
  <2>2. CASE UNCHANGED tables
    BY <2>2 DEF TypeOK
  <2> QED
    BY <2>1, <2>2 DEF RevokeKey
<1>3. /\ duty' \in [Revocations -> {"idle", "commit", "delete"}]
      /\ target' \in [Revocations -> Keys \union {NoKey}]
      /\ \A w \in Revocations : duty'[w] # "idle" => target'[w] \in Keys
  <2>1. CASE Duty(v, "delete")
    BY <1>1, <2>1 DEF Duty, TypeOK, Bound
  <2>2. CASE Over(v)
    BY <2>2 DEF Over, TypeOK, Bound
  <2> QED
    BY <2>1, <2>2 DEF RevokeKey
<1>4. UNCHANGED <<clock, cached, validations, crashes>>
  BY DEF RevokeKey
<1> QED
  BY <1>2, <1>3, <1>4 DEF TypeOK, Bound, InFlight

LEMMA AuthTypeStep == TypeOK /\ Bound /\ [Next]_authVars => TypeOK' /\ Bound'
<1> SUFFICES ASSUME TypeOK, Bound, [Next]_authVars
             PROVE  TypeOK' /\ Bound'
  OBVIOUS
<1>1. CASE Tick
  BY <1>1 DEF Tick, TypeOK, Bound, InFlight, Row
<1>2. ASSUME NEW k \in Keys, NEW f \in KeyForms, CreateKey(k, f)
      PROVE  TypeOK' /\ Bound'
  <2>1. [status |-> "active", form |-> f, expires |-> clock + f.life] \in Row
    BY DEF Row, TypeOK
  <2> QED
    BY <1>2, <2>1 DEF CreateKey, TypeOK, Bound, InFlight
<1>3. ASSUME NEW r \in Calls, ValidationStep(r)
      PROVE  TypeOK' /\ Bound'
  BY <1>3, ValidationTyped
<1>4. ASSUME NEW v \in Revocations, NEW k \in Keys, FindByID(v, k)
      PROVE  TypeOK' /\ Bound'
  BY <1>4 DEF FindByID, TypeOK, Bound, InFlight
<1>5. ASSUME NEW v \in Revocations, RevokeKey(v)
      PROVE  TypeOK' /\ Bound'
  BY <1>5, RevocationTyped
<1>6. ASSUME NEW v \in Revocations, DeleteCached(v)
      PROVE  TypeOK' /\ Bound'
  <2>1. cached' \in [Keys -> Nat]
    BY <1>6 DEF DeleteCached, TypeOK
  <2>2. /\ duty' \in [Revocations -> {"idle", "commit", "delete"}]
        /\ target' \in [Revocations -> Keys \union {NoKey}]
        /\ \A w \in Revocations : duty'[w] # "idle" => target'[w] \in Keys
    BY <1>6 DEF DeleteCached, Over, TypeOK, Bound
  <2>3. UNCHANGED <<clock, tables, validations, crashes>>
    BY <1>6 DEF DeleteCached
  <2> QED
    BY <2>1, <2>2, <2>3 DEF TypeOK, Bound, InFlight
<1>7. CASE Crash
  BY <1>7 DEF Crash, CancelCalls, TypeOK, Bound, InFlight
<1>8. ASSUME NEW r \in Calls, NEW k \in Keys, Begin(r, k)
      PROVE  TypeOK' /\ Bound'
  BY <1>8 DEF Begin, Validate, TypeOK, Bound, InFlight
<1>9. ASSUME NEW r \in Calls, End(r)
      PROVE  TypeOK' /\ Bound'
  BY <1>9 DEF End, Forget, TypeOK, Bound, InFlight
<1>10. CASE CallersDie
  BY <1>10 DEF CallersDie, TypeOK, Bound, InFlight
<1>11. CASE UNCHANGED authVars
  BY <1>11 DEF authVars, TypeOK, Bound, InFlight
<1> QED
  BY <1>1, <1>2, <1>3, <1>4, <1>5, <1>6, <1>7, <1>8, <1>9, <1>10, <1>11
     DEF Next, AuthStep

\* The auth service's variables keep their types, and no call outlives its caller's
\* patience.
THEOREM AuthTypes == Spec => [](TypeOK /\ Bound)
<1>1. Init => TypeOK /\ Bound
  BY DEF Init, TypeOK, Bound, InFlight, Row, NoForm
<1> QED
  BY <1>1, AuthTypeStep, PTL DEF Spec

-----------------------------------------------------------------------------
(* Staleness.  What is in the cache was put there by a validation that read the key *)
(* before it was revoked or expired, and no validation outlives its caller.         *)

\* A validation that has passed the check of revoked_keys began before the revocation;
\* one that has passed the check of the key itself began before the key's end.
ReadInTime ==
    \A r \in Calls :
        /\ stage[r] \in {"row", "fill"} /\ IsRevoked(carries[r])
              => began[r] <= revoked[carries[r]]
        /\ stage[r] = "fill" => began[r] < row[carries[r]].expires

EntryEnds ==
    \A k \in Keys :
        /\ cached[k] <= clock + CacheTTL
        /\ IsRevoked(k) => cached[k] <= revoked[k] + Patience + CacheTTL
        /\ cached[k] < row[k].expires + Patience + MinTTL

AbsentKeysEnd == \A k \in Keys : row[k].status = "absent" => row[k].expires = 0

Staleness == ReadInTime /\ EntryEnds /\ AbsentKeysEnd

USE DEF IsRevoked

LEMMA Numbers ==
    ASSUME TypeOK
    PROVE  /\ clock \in Nat
           /\ \A r \in Calls : began[r] \in Nat
           /\ \A k \in Keys :
                /\ row[k].expires \in Nat /\ cached[k] \in Nat /\ revoked[k] \in Int
                /\ IsRevoked(k) => revoked[k] \in Nat
BY DEF TypeOK, Row

LEMMA CallFacts ==
    ASSUME TypeOK, Bound, NEW r \in Calls, InFlight(r)
    PROVE  /\ carries[r] \in Keys /\ began[r] <= clock
           /\ clock <= began[r] + Patience
BY DEF TypeOK, Bound

LEMMA EntryFacts ==
    ASSUME Staleness, TypeOK, NEW k \in Keys
    PROVE  /\ cached[k] \in Nat /\ clock \in Nat /\ row[k].expires \in Nat
           /\ cached[k] <= clock + CacheTTL
           /\ IsRevoked(k) => cached[k] <= revoked[k] + Patience + CacheTTL
           /\ cached[k] < row[k].expires + Patience + MinTTL
<1>1. /\ cached[k] \in Nat /\ clock \in Nat /\ row[k].expires \in Nat
      /\ revoked[k] \in Int
  BY Numbers
<1> QED
  BY <1>1 DEF Staleness, EntryEnds

\* A step that leaves tables and cache alone keeps the bounds, if no validation moves on.
LEMMA QuietStep ==
    ASSUME TypeOK, Bound, Staleness, UNCHANGED <<tables, cached>>,
           clock' \in Nat, clock <= clock',
           \A r \in Calls : stage'[r] \in {"row", "fill"} =>
              /\ stage[r] = stage'[r]
              /\ began'[r] = began[r] /\ carries'[r] = carries[r]
    PROVE  Staleness'
<1>1. ReadInTime' /\ AbsentKeysEnd'
  BY DEF Staleness, ReadInTime, AbsentKeysEnd
<1>2. EntryEnds'
  <2> SUFFICES ASSUME NEW k \in Keys PROVE cached[k] <= clock' + CacheTTL
    BY DEF Staleness, EntryEnds
  <2> QED
    BY DEF Staleness, EntryEnds, TypeOK
<1> QED
  BY <1>1, <1>2 DEF Staleness

LEMMA CheckRevokedKeeps ==
    ASSUME TypeOK, Bound, Staleness, NEW r \in Calls, CheckRevoked(r) \/ LoadKey(r)
    PROVE  Staleness'
<1>1. carries[r] \in Keys /\ began[r] <= clock /\ clock \in Nat /\ began[r] \in Nat
  <2>1. InFlight(r)
    BY DEF CheckRevoked, LoadKey, InFlight
  <2> QED
    BY <2>1, CallFacts, Numbers
<1>2. UNCHANGED <<clock, tables, cached, carries, began>>
  BY DEF CheckRevoked, LoadKey
<1>3. \A s \in Calls : s # r => stage'[s] = stage[s]
  BY DEF CheckRevoked, LoadKey, Goto, Answer, TypeOK
<1>4. stage'[r] = "row" => ~IsRevoked(carries[r])
  BY DEF CheckRevoked, LoadKey, Goto, Answer, TypeOK
<1>5. stage'[r] = "fill" => stage[r] = "row" /\ clock < row[carries[r]].expires
  BY DEF CheckRevoked, LoadKey, Goto, Answer, Usable, TypeOK
<1>6. row[carries[r]].expires \in Nat
  BY <1>1 DEF TypeOK, Row
<1>7. ReadInTime'
  BY <1>1, <1>2, <1>3, <1>4, <1>5, <1>6 DEF Staleness, ReadInTime
<1> QED
  BY <1>2, <1>7 DEF Staleness, EntryEnds, AbsentKeysEnd

LEMMA FillCacheKeeps ==
    ASSUME TypeOK, Bound, Staleness, NEW r \in Calls, FillCache(r)
    PROVE  Staleness'
<1> DEFINE k == carries[r]
<1>1. /\ k \in Keys /\ clock \in Nat /\ began[r] \in Nat
      /\ clock <= began[r] + Patience
  <2>1. InFlight(r)
    BY DEF FillCache, InFlight
  <2> QED
    BY <2>1, CallFacts, Numbers
<1>2. row[k].expires \in Nat /\ revoked[k] \in Int /\ cached[k] \in Nat
  BY <1>1 DEF TypeOK, Row
<1>3. began[r] < row[k].expires /\ (IsRevoked(k) => began[r] <= revoked[k])
  BY DEF FillCache, Staleness, ReadInTime
<1>4. /\ UNCHANGED <<clock, tables, carries, began>>
      /\ \A s \in Calls : stage'[s] = stage[s] \/ stage'[s] = "done"
      /\ cached' \in {cached, [cached EXCEPT ![k] = clock + KeyValidationCacheTTL(k)]}
  BY DEF FillCache, Answer, TypeOK
<1>5. ReadInTime' /\ AbsentKeysEnd'
  BY <1>4 DEF Staleness, ReadInTime, AbsentKeysEnd
<1>6. EntryEnds'
  <2>1. \A l \in Keys : l # k => cached'[l] = cached[l]
    BY <1>4 DEF TypeOK
  <2>2. cached'[k] = cached[k] \/ cached'[k] = clock + KeyValidationCacheTTL(k)
    BY <1>1, <1>4 DEF TypeOK
  <2>3. /\ KeyValidationCacheTTL(k) \in Nat
        /\ KeyValidationCacheTTL(k) <= CacheTTL
        /\ \/ clock + KeyValidationCacheTTL(k) <= row[k].expires
           \/ row[k].expires <= clock /\ KeyValidationCacheTTL(k) = MinTTL
    BY <1>1, TTLBounds
  <2>4. /\ cached'[k] <= clock + CacheTTL
        /\ IsRevoked(k) => cached'[k] <= revoked[k] + Patience + CacheTTL
        /\ cached'[k] < row[k].expires + Patience + MinTTL
    <3>1. CASE cached'[k] = cached[k]
      <4>1. /\ cached[k] <= clock + CacheTTL
            /\ IsRevoked(k) => cached[k] <= revoked[k] + Patience + CacheTTL
            /\ cached[k] < row[k].expires + Patience + MinTTL
        BY <1>1, EntryFacts
      <4> QED
        BY <1>1, <1>2, <3>1, <4>1
    <3>2. CASE cached'[k] = clock + KeyValidationCacheTTL(k)
      <4>1. PICK ttl \in Nat :
              /\ cached'[k] = clock + ttl /\ ttl <= CacheTTL
              /\ clock + ttl <= row[k].expires \/ (row[k].expires <= clock /\ ttl = MinTTL)
        BY <2>3, <3>2
      <4>2. clock + ttl <= clock + CacheTTL
        BY <1>1, <4>1
      <4>3. IsRevoked(k) => clock + ttl <= revoked[k] + Patience + CacheTTL
        BY <1>1, <1>2, <1>3, <4>1
      <4>4. clock + ttl < row[k].expires + Patience + MinTTL
        BY <1>1, <1>2, <1>3, <4>1
      <4> QED
        BY <4>1, <4>2, <4>3, <4>4
    <3> QED
      BY <2>2, <3>1, <3>2
  <2> QED
    BY <1>4, <2>1, <2>4 DEF Staleness, EntryEnds
<1> QED
  BY <1>5, <1>6 DEF Staleness

LEMMA RevokeKeyKeeps ==
    ASSUME TypeOK, Bound, Staleness, NEW v \in Revocations, RevokeKey(v)
    PROVE  Staleness'
<1> DEFINE k == target[v]
<1>1. /\ k \in Keys /\ clock \in Nat
      /\ UNCHANGED <<clock, cached, validations>>
  BY DEF RevokeKey, Bound, TypeOK
<1>2. CASE UNCHANGED tables
  BY <1>1, <1>2 DEF Staleness, ReadInTime, EntryEnds, AbsentKeysEnd
<1>3. CASE ~IsRevoked(k) /\ Revoke(k)
  <2>1. /\ revoked' = [revoked EXCEPT ![k] = clock]
        /\ \A l \in Keys : row'[l].expires = row[l].expires
        /\ \A l \in Keys : row'[l].status \in {row[l].status, "inactive"}
    BY <1>1, <1>3 DEF Revoke, TypeOK, Row
  <2>2. ReadInTime'
    <3> SUFFICES ASSUME NEW r \in Calls, stage[r] \in {"row", "fill"}
                 PROVE  /\ IsRevoked(carries[r])' => began[r] <= revoked'[carries[r]]
                        /\ stage[r] = "fill" => began[r] < row'[carries[r]].expires
      BY <1>1 DEF ReadInTime
    <3>1. carries[r] \in Keys /\ began[r] <= clock
      BY DEF Bound, InFlight
    <3> QED
      BY <1>1, <2>1, <3>1 DEF Staleness, ReadInTime, TypeOK
  <2>3. EntryEnds'
    <3> SUFFICES ASSUME NEW l \in Keys
                 PROVE  /\ cached[l] <= clock + CacheTTL
                        /\ IsRevoked(l)' => cached[l] <= revoked'[l] + Patience + CacheTTL
                        /\ cached[l] < row'[l].expires + Patience + MinTTL
      BY <1>1 DEF EntryEnds
    <3>1. cached[l] \in Nat /\ cached[l] <= clock + CacheTTL
      BY DEF Staleness, EntryEnds, TypeOK
    <3>2. IsRevoked(l)' => cached[l] <= revoked'[l] + Patience + CacheTTL
      BY <1>1, <2>1, <3>1 DEF Staleness, EntryEnds, TypeOK
    <3> QED
      BY <2>1, <3>1, <3>2 DEF Staleness, EntryEnds
  <2>4. AbsentKeysEnd'
    BY <2>1 DEF Staleness, AbsentKeysEnd
  <2> QED
    BY <2>2, <2>3, <2>4 DEF Staleness
<1> QED
  BY <1>2, <1>3 DEF RevokeKey

LEMMA StalenessStep == TypeOK /\ TypeOK' /\ Bound /\ Staleness /\ [Next]_authVars => Staleness'
<1> SUFFICES ASSUME TypeOK, TypeOK', Bound, Staleness, [Next]_authVars
             PROVE  Staleness'
  OBVIOUS
<1>0. clock' \in Nat /\ clock \in Nat
  BY DEF TypeOK
<1>1. CASE Tick
  BY <1>0, <1>1, QuietStep DEF Tick
<1>2. ASSUME NEW k \in Keys, NEW f \in KeyForms, CreateKey(k, f)
      PROVE  Staleness'
  <2>1. /\ UNCHANGED <<clock, revoked, cached, validations>>
        /\ \A l \in Keys : l # k => row'[l] = row[l]
        /\ row'[k].status = "active" /\ row'[k].expires = clock + f.life
    BY <1>2 DEF CreateKey, TypeOK
  <2>2. row[k].expires = 0 /\ clock + f.life \in Nat
    BY <1>0, <1>2 DEF CreateKey, Staleness, AbsentKeysEnd
  <2>3. \A l \in Keys : row'[l].expires \in Nat /\ row[l].expires \in Nat
                        /\ row[l].expires <= row'[l].expires
    <3>1. \A l \in Keys : row'[l].expires \in Nat /\ row[l].expires \in Nat
      BY DEF TypeOK, Row
    <3> QED
      BY <2>1, <2>2, <3>1
  <2>4. ReadInTime'
    <3> SUFFICES ASSUME NEW r \in Calls, stage[r] = "fill"
                 PROVE  began[r] < row'[carries[r]].expires
      BY <2>1 DEF Staleness, ReadInTime
    <3>1. carries[r] \in Keys /\ began[r] \in Nat
      <4>1. InFlight(r)
        BY DEF InFlight
      <4> QED
        BY <4>1, CallFacts, Numbers
    <3> QED
      BY <2>3, <3>1 DEF Staleness, ReadInTime
  <2>5. EntryEnds'
    <3> SUFFICES ASSUME NEW l \in Keys
                 PROVE  cached[l] < row'[l].expires + Patience + MinTTL
      BY <2>1 DEF Staleness, EntryEnds
    <3>1. cached[l] \in Nat /\ cached[l] < row[l].expires + Patience + MinTTL
      BY EntryFacts
    <3>2. row[l].expires <= row'[l].expires /\ row[l].expires \in Nat /\ row'[l].expires \in Nat
      BY <2>3
    <3>3. /\ row[l].expires + Patience + MinTTL \in Nat
          /\ row'[l].expires + Patience + MinTTL \in Nat
          /\ row[l].expires + Patience + MinTTL <= row'[l].expires + Patience + MinTTL
      BY <3>2
    <3> QED
      BY <3>1, <3>3
  <2>6. AbsentKeysEnd'
    BY <2>1 DEF Staleness, AbsentKeysEnd
  <2> QED
    BY <2>4, <2>5, <2>6 DEF Staleness
<1>3. ASSUME NEW r \in Calls, CacheHit(r) \/ CacheMiss(r) \/ HangUp(r)
      PROVE  Staleness'
  <2>1. /\ UNCHANGED <<clock, tables, cached, carries, began>>
        /\ \A s \in Calls : stage'[s] \in {stage[s], "done", "revocation"}
    BY <1>3 DEF CacheHit, CacheMiss, HangUp, Goto, Answer, TypeOK
  <2> QED
    BY <1>0, <2>1, QuietStep
<1>4. ASSUME NEW r \in Calls, CheckRevoked(r) \/ LoadKey(r)
      PROVE  Staleness'
  BY <1>4, CheckRevokedKeeps
<1>5. ASSUME NEW r \in Calls, FillCache(r)
      PROVE  Staleness'
  BY <1>5, FillCacheKeeps
<1>6. ASSUME NEW v \in Revocations, NEW k \in Keys, FindByID(v, k)
      PROVE  Staleness'
  BY <1>0, <1>6, QuietStep DEF FindByID
<1>7. ASSUME NEW v \in Revocations, RevokeKey(v)
      PROVE  Staleness'
  BY <1>7, RevokeKeyKeeps
<1>8. ASSUME NEW v \in Revocations, DeleteCached(v)
      PROVE  Staleness'
  <2>1. /\ UNCHANGED <<clock, tables, validations>>
        /\ \A k \in Keys : cached'[k] \in {cached[k], 0}
    BY <1>8 DEF DeleteCached, TypeOK
  <2>2. \A k \in Keys :
            /\ row[k].expires \in Nat /\ cached[k] \in Nat
            /\ IsRevoked(k) => revoked[k] \in Nat
    BY Numbers
  <2>3. EntryEnds'
    <3> SUFFICES ASSUME NEW k \in Keys
                 PROVE  /\ cached'[k] <= clock + CacheTTL
                        /\ IsRevoked(k) => cached'[k] <= revoked[k] + Patience + CacheTTL
                        /\ cached'[k] < row[k].expires + Patience + MinTTL
      BY <2>1 DEF EntryEnds
    <3>1. CASE cached'[k] = cached[k]
      BY <3>1, EntryFacts
    <3>2. CASE cached'[k] = 0
      BY <1>0, <2>2, <3>2
    <3> QED
      BY <2>1, <3>1, <3>2
  <2> QED
    BY <2>1, <2>3 DEF Staleness, ReadInTime, AbsentKeysEnd
<1>9. CASE Crash
  <2>1. \A r \in Calls : stage'[r] \in {stage[r], "done"}
    BY <1>9 DEF Crash, CancelCalls
  <2> QED
    BY <1>0, <1>9, <2>1, QuietStep DEF Crash
<1>10. ASSUME NEW r \in Calls, NEW k \in Keys, Begin(r, k)
       PROVE  Staleness'
  <2>1. /\ UNCHANGED <<clock, tables, cached>>
        /\ stage'[r] = "cache"
        /\ \A s \in Calls :
              s # r => stage'[s] = stage[s] /\ carries'[s] = carries[s] /\ began'[s] = began[s]
    BY <1>10 DEF Begin, Validate, TypeOK
  <2> QED
    BY <1>0, <2>1, QuietStep
<1>11. ASSUME NEW r \in Calls, End(r)
       PROVE  Staleness'
  <2>1. /\ UNCHANGED <<clock, tables, cached>>
        /\ stage'[r] = "idle"
        /\ \A s \in Calls :
              s # r => stage'[s] = stage[s] /\ carries'[s] = carries[s] /\ began'[s] = began[s]
    BY <1>11 DEF End, Forget, TypeOK
  <2> QED
    BY <1>0, <2>1, QuietStep
<1>12. CASE CallersDie
  BY <1>0, <1>12, QuietStep DEF CallersDie
<1>13. CASE UNCHANGED authVars
  BY <1>0, <1>13, QuietStep DEF authVars
<1> QED
  BY <1>1, <1>2, <1>3, <1>4, <1>5, <1>6, <1>7, <1>8, <1>9, <1>10, <1>11, <1>12, <1>13
     DEF Next, AuthStep, ValidationStep

\* A cache entry ends soon after the revocation or the end of its key, whatever failed,
\* died or was delayed.
THEOREM CacheIsShortLived == Spec => []Staleness
<1>1. Init => Staleness
  BY DEF Init, Staleness, ReadInTime, EntryEnds, AbsentKeysEnd
<1> QED
  BY <1>1, StalenessStep, AuthTypes, PTL DEF Spec

-----------------------------------------------------------------------------
(* What callers see. *)

\* A validation that answers "valid" read the entry or has just written it.
LEMMA WhoAccepts ==
    ASSUME TypeOK, [Next]_authVars, NEW r \in Calls, Accepts(r)
    PROVE  CacheHit(r) \/ FillCache(r)
<1>1. ASSUME NEW s \in Calls, ValidationStep(s)
      PROVE  CacheHit(r) \/ FillCache(r)
  <2>1. verdict' = verdict \/ \E v \in {"valid", "invalid", "revoked", "error"} : Answer(s, v)
    BY <1>1 DEF ValidationStep, CacheHit, CacheMiss, CheckRevoked, LoadKey, FillCache,
       HangUp, Goto
  <2>2. s = r /\ Answer(s, "valid")
    BY <2>1 DEF Accepts, Answer, TypeOK
  <2> QED
    BY <1>1, <2>2 DEF ValidationStep, CacheHit, CacheMiss, CheckRevoked, LoadKey, FillCache,
       HangUp, Goto, Answer, TypeOK
<1>2. verdict'[r] # verdict[r] /\ verdict'[r] = "valid"
  BY DEF Accepts
<1>3. ~Tick /\ ~CallersDie /\ ~Crash /\ ~UNCHANGED authVars
  BY <1>2 DEF Tick, CallersDie, Crash, CancelCalls, authVars
<1>4. \A s \in Calls : ~End(s) /\ \A k \in Keys : ~Begin(s, k)
  BY <1>2 DEF Begin, Validate, End, Forget, TypeOK
<1>5. \A k \in Keys, f \in KeyForms : ~CreateKey(k, f)
  BY <1>2 DEF CreateKey
<1>6. \A v \in Revocations :
        ~RevokeKey(v) /\ ~DeleteCached(v) /\ \A k \in Keys : ~FindByID(v, k)
  BY <1>2 DEF FindByID, RevokeKey, DeleteCached
<1> QED
  BY <1>1, <1>3, <1>4, <1>5, <1>6 DEF Next, AuthStep

LEMMA AcceptedInTime ==
    ASSUME TypeOK, Bound, Staleness, [Next]_authVars, NEW r \in Calls, Accepts(r)
    PROVE  /\ IsRevoked(carries[r]) => clock < revoked[carries[r]] + Patience + CacheTTL
           /\ clock < row[carries[r]].expires + Patience + MinTTL
<1> DEFINE k == carries[r]
<1>1. CacheHit(r) \/ FillCache(r)
  BY WhoAccepts
<1>2. InFlight(r)
  BY <1>1 DEF CacheHit, FillCache, InFlight
<1>3. k \in Keys /\ clock <= began[r] + Patience
  BY <1>2, CallFacts
<1>4. /\ clock \in Nat /\ began[r] \in Nat /\ cached[k] \in Nat
      /\ row[k].expires \in Nat /\ revoked[k] \in Int
  BY <1>3, Numbers
<1>5. CASE CacheHit(r)
  <2>1. clock < cached[k]
    BY <1>5 DEF CacheHit, Cached
  <2>2. /\ IsRevoked(k) => cached[k] <= revoked[k] + Patience + CacheTTL
        /\ cached[k] < row[k].expires + Patience + MinTTL
    BY <1>3, EntryFacts
  <2> QED
    BY <1>4, <2>1, <2>2
<1>6. CASE FillCache(r)
  <2>1. began[r] < row[k].expires /\ (IsRevoked(k) => began[r] <= revoked[k])
    BY <1>6 DEF FillCache, Staleness, ReadInTime
  <2> QED
    BY <1>3, <1>4, <2>1
<1> QED
  BY <1>1, <1>5, <1>6

\* A revoked key is accepted for at most the caller's patience and the entry's life.
THEOREM RevokedKeysDie == Spec => RevocationTakesEffect
<1>1. TypeOK /\ Bound /\ Staleness /\ [Next]_authVars
        => [\A r \in Calls : Accepts(r) /\ IsRevoked(carries[r])
              => clock < revoked[carries[r]] + Patience + CacheTTL]_authVars
  BY AcceptedInTime
<1> QED
  BY <1>1, AuthTypes, CacheIsShortLived, PTL DEF Spec, RevocationTakesEffect

\* An expired key is accepted for at most the caller's patience and the shortest entry.
THEOREM ExpiredKeysDie == Spec => ExpiryTakesEffect
<1>1. TypeOK /\ Bound /\ Staleness /\ [Next]_authVars
        => [\A r \in Calls : Accepts(r)
              => clock < row[carries[r]].expires + Patience + MinTTL]_authVars
  BY AcceptedInTime
<1> QED
  BY <1>1, AuthTypes, CacheIsShortLived, PTL DEF Spec, ExpiryTakesEffect
=============================================================================
