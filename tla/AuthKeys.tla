------------------------------- MODULE AuthKeys -------------------------------
(***************************************************************************)
(* The auth service: creating API keys, validating them through a          *)
(* short-lived Redis cache, and revoking them.                              *)
(*                                                                         *)
(* The clock counts seconds.  A call is one POST /internal/validate of the  *)
(* gateway, which hangs up after Patience seconds; Go then cancels the      *)
(* call's context, and with it every later use of Redis.  A validation's    *)
(* answer after that reaches nobody, so the call simply ends.  A call that  *)
(* is done may be taken for another.  A key stands for its merchant too:    *)
(* CreateMerchant makes one of each.                                        *)
(***************************************************************************)
EXTENDS Integers, Sequences, FiniteSets, SequencesExt

CONSTANTS
    Keys,
    NoKey,          \* the key of a call that carries none
    Calls,          \* validations that may be in flight at once
    Revocations,    \* calls of POST /keys/:id/revoke that may be under way at once
    KeyForms,       \* the scope lists and lifetimes offered to CreateKey
    CacheTTL,       \* seconds a validation is cached (30 in the code)
    MinTTL,         \* seconds a validation of an expired key is cached (1)
    Patience,       \* the gateway's timeout (5 seconds)
    Faults,         \* what may go wrong in this instance
    Horizon,        \* bound on the clock
    MaxCrashes      \* bound on process crashes

AllowedScopes == {"admin", "auth:write", "full", "ledger:read", "ledger:write",
                  "payments:read", "payments:write", "webhooks:read", "webhooks:write"}

ASSUME AuthAssumption ==
    /\ \A f \in KeyForms : f.items \in Seq(STRING) /\ f.life \in Nat \ {0}
    /\ CacheTTL \in Nat \ {0} /\ MinTTL \in Nat \ {0} /\ Patience \in Nat
    /\ MinTTL <= CacheTTL
    /\ NoKey \notin Keys
    /\ Faults \subseteq {"db", "cache"}
    /\ Horizon \in Nat /\ MaxCrashes \in Nat

VARIABLES
    clock,
    row,        \* Postgres: api_keys
    revoked,    \* Postgres: revoked_keys, each with the time of its revocation
    cached,     \* Redis: when the validation entry of each key expires, 0 if none
    stage,      \* the next call of each validation
    carries,    \* the key each validation carries
    began,      \* when it began
    verdict,    \* what it answered
    duty,       \* the next call of each revocation
    target,     \* the key it revokes
    crashes     \* crashes so far

tables == <<row, revoked>>
validations == <<stage, carries, began, verdict>>
revocations == <<duty, target>>
authVars == <<clock, tables, cached, validations, revocations, crashes>>

NoForm == [items |-> <<>>, life |-> 0]
Row == [status: {"absent", "active", "inactive"}, form: KeyForms \union {NoForm},
        expires: Nat]
InFlight(r) == stage[r] \notin {"idle", "done"}

TypeOK ==
    /\ clock \in 0..Horizon
    /\ row \in [Keys -> Row]
    /\ revoked \in [Keys -> -1..Horizon]
    /\ cached \in [Keys -> Nat]
    /\ stage \in [Calls -> {"idle", "cache", "revocation", "row", "fill", "done"}]
    /\ carries \in [Calls -> Keys \union {NoKey}]
    /\ began \in [Calls -> 0..Horizon]
    /\ \A r \in Calls : InFlight(r) => clock <= began[r] + Patience
    /\ verdict \in [Calls -> {"none", "valid", "invalid", "revoked", "error"}]
    /\ duty \in [Revocations -> {"idle", "commit", "delete"}]
    /\ target \in [Revocations -> Keys \union {NoKey}]
    /\ crashes \in 0..MaxCrashes

Init ==
    /\ clock = 0
    /\ row = [k \in Keys |-> [status |-> "absent", form |-> NoForm, expires |-> 0]]
    /\ revoked = [k \in Keys |-> -1]
    /\ cached = [k \in Keys |-> 0]
    /\ stage = [r \in Calls |-> "idle"]
    /\ carries = [r \in Calls |-> NoKey]
    /\ began = [r \in Calls |-> 0]
    /\ verdict = [r \in Calls |-> "none"]
    /\ duty = [v \in Revocations |-> "idle"]
    /\ target = [v \in Revocations |-> NoKey]
    /\ crashes = 0

IsRevoked(k) == revoked[k] # -1

\* Time passes, except over a call the gateway should by now have hung up on.
Tick ==
    /\ clock < Horizon
    /\ \A r \in Calls : InFlight(r) => clock < began[r] + Patience
    /\ clock' = clock + 1
    /\ UNCHANGED <<tables, cached, validations, revocations, crashes>>

-----------------------------------------------------------------------------
(* Creating keys. *)

Unknown(items) == {i \in DOMAIN items : items[i] \notin AllowedScopes}
Fulls(items) == {i \in DOMAIN items : items[i] = "full"}

\* The list is read up to its first "full": what is unknown before that is refused.
ScopeRefused(items) == \E i \in Unknown(items) : \A j \in Fulls(items) : i < j

NormalizeScope(items) ==
    IF items = <<>> \/ Fulls(items) # {} THEN {"full"} ELSE ToSet(items)

\* CreateKey: one transaction for merchant and key, or none of it.
CreateKey(k, form) ==
    /\ row[k].status = "absent"
    /\ ~ScopeRefused(form.items)
    /\ row' = [row EXCEPT ![k] = [status |-> "active", form |-> form,
                                  expires |-> clock + form.life]]
    /\ UNCHANGED <<clock, revoked, cached, validations, revocations, crashes>>

ScopeOf(k) == NormalizeScope(row[k].form.items)

-----------------------------------------------------------------------------
(* ValidateKey. *)

Goto(r, s) == stage' = [stage EXCEPT ![r] = s] /\ UNCHANGED verdict

Answer(r, v) ==
    /\ stage' = [stage EXCEPT ![r] = "done"]
    /\ verdict' = [verdict EXCEPT ![r] = v]

\* A call begins.
Validate(r, k) ==
    /\ stage[r] = "idle"
    /\ stage' = [stage EXCEPT ![r] = "cache"]
    /\ UNCHANGED verdict
    /\ carries' = [carries EXCEPT ![r] = k]
    /\ began' = [began EXCEPT ![r] = clock]

Cached(k) == clock < cached[k]

CacheHit(r) ==
    /\ stage[r] = "cache"
    /\ Cached(carries[r])
    /\ Answer(r, "valid")
    /\ UNCHANGED <<clock, tables, cached, carries, began, revocations, crashes>>

CacheMiss(r) ==
    /\ stage[r] = "cache"
    /\ ~Cached(carries[r]) \/ "cache" \in Faults
    /\ Goto(r, "revocation")
    /\ UNCHANGED <<clock, tables, cached, carries, began, revocations, crashes>>

CheckRevoked(r) ==
    /\ stage[r] = "revocation"
    /\ \/ IsRevoked(carries[r]) /\ Answer(r, "revoked")
       \/ ~IsRevoked(carries[r]) /\ Goto(r, "row")
       \/ "db" \in Faults /\ Answer(r, "error")
    /\ UNCHANGED <<clock, tables, cached, carries, began, revocations, crashes>>

\* Variant: the end of the key is not looked at.
UsableForEver(k) == row[k].status = "active"

Usable(k) == row[k].status = "active" /\ clock < row[k].expires

\* GetByHash, a query of its own: the key may have been revoked since the last one.
LoadKey(r) ==
    /\ stage[r] = "row"
    /\ \/ Usable(carries[r]) /\ Goto(r, "fill")
       \/ ~Usable(carries[r]) /\ Answer(r, "invalid")
       \/ "db" \in Faults /\ Answer(r, "error")
    /\ UNCHANGED <<clock, tables, cached, carries, began, revocations, crashes>>

\* Variant: an entry lives as long as its key.
UncappedCacheTTL(k) ==
    LET ttl == row[k].expires - clock IN IF ttl <= 0 THEN MinTTL ELSE ttl

\* At most CacheTTL, and never past the key's own end, but for at least MinTTL.
KeyValidationCacheTTL(k) ==
    LET ttl == row[k].expires - clock IN
    IF ttl <= 0 THEN MinTTL ELSE IF ttl < CacheTTL THEN ttl ELSE CacheTTL

\* The answer is cached, whatever became of the key since it was loaded; a failed
\* write is ignored.
FillCache(r) ==
    /\ stage[r] = "fill"
    /\ \/ cached' = [cached EXCEPT ![carries[r]] =
                       clock + KeyValidationCacheTTL(carries[r])]
       \/ "cache" \in Faults /\ UNCHANGED cached
    /\ Answer(r, "valid")
    /\ UNCHANGED <<clock, tables, carries, began, revocations, crashes>>

\* The gateway hangs up.
HangUp(r) ==
    /\ InFlight(r)
    /\ clock = began[r] + Patience
    /\ Answer(r, "error")
    /\ UNCHANGED <<clock, tables, cached, carries, began, revocations, crashes>>

-----------------------------------------------------------------------------
(* RevokeKey. *)

Duty(v, s) == duty' = [duty EXCEPT ![v] = s] /\ UNCHANGED target

Over(v) ==
    /\ duty' = [duty EXCEPT ![v] = "idle"]
    /\ target' = [target EXCEPT ![v] = NoKey]

Found(k) == row[k].status # "absent"

\* A revocation begins; one whose key is not found, or cannot be looked up, is over.
FindByID(v, k) ==
    /\ duty[v] = "idle"
    /\ Found(k)
    /\ duty' = [duty EXCEPT ![v] = "commit"]
    /\ target' = [target EXCEPT ![v] = k]
    /\ UNCHANGED <<clock, tables, cached, validations, crashes>>

\* Both writes of the transaction.
Revoke(k) ==
    /\ revoked' = [revoked EXCEPT ![k] = clock]
    /\ row' = [row EXCEPT ![k].status = "inactive"]

\* The primary key of revoked_keys refuses a second revocation, which then leaves the
\* cache alone; so does one whose connection is lost after the commit.
RevokeKey(v) ==
    LET k == target[v] IN
    /\ duty[v] = "commit"
    /\ \/ ~IsRevoked(k) /\ Revoke(k) /\ Duty(v, "delete")
       \/ IsRevoked(k) /\ UNCHANGED tables /\ Over(v)
       \/ /\ "db" \in Faults
          /\ UNCHANGED tables \/ (~IsRevoked(k) /\ Revoke(k))
          /\ Over(v)
    /\ UNCHANGED <<clock, cached, validations, crashes>>

\* A failed delete is ignored.
DeleteCached(v) ==
    /\ duty[v] = "delete"
    /\ \/ cached' = [cached EXCEPT ![target[v]] = 0]
       \/ "cache" \in Faults /\ UNCHANGED cached
    /\ Over(v)
    /\ UNCHANGED <<clock, tables, validations, crashes>>

-----------------------------------------------------------------------------
\* The caller has its answer; the call may stand for another.
Forget(r) ==
    /\ stage' = [stage EXCEPT ![r] = "idle"]
    /\ verdict' = [verdict EXCEPT ![r] = "none"]
    /\ carries' = [carries EXCEPT ![r] = NoKey]
    /\ began' = [began EXCEPT ![r] = 0]

CancelCalls ==
    /\ stage' = [r \in Calls |-> IF InFlight(r) THEN "done" ELSE stage[r]]
    /\ verdict' = [r \in Calls |-> IF InFlight(r) THEN "error" ELSE verdict[r]]

\* The process dies and is restarted; Postgres and Redis keep theirs.
Crash ==
    /\ crashes < MaxCrashes
    /\ crashes' = crashes + 1
    /\ CancelCalls
    /\ duty' = [v \in Revocations |-> "idle"]
    /\ target' = [v \in Revocations |-> NoKey]
    /\ UNCHANGED <<clock, tables, cached, carries, began>>

ValidationStep(r) ==
    \/ CacheHit(r) \/ CacheMiss(r) \/ CheckRevoked(r) \/ LoadKey(r) \/ FillCache(r)
    \/ HangUp(r)

\* Everything but the beginning and the end of a validation, which are the caller's.
AuthStep ==
    \/ Tick
    \/ \E k \in Keys, f \in KeyForms : CreateKey(k, f)
    \/ \E r \in Calls : ValidationStep(r)
    \/ \E v \in Revocations, k \in Keys : FindByID(v, k)
    \/ \E v \in Revocations : RevokeKey(v) \/ DeleteCached(v)
    \/ Crash

Begin(r, k) ==
    /\ Validate(r, k)
    /\ UNCHANGED <<clock, tables, cached, revocations, crashes>>

End(r) ==
    /\ stage[r] = "done"
    /\ Forget(r)
    /\ UNCHANGED <<clock, tables, cached, revocations, crashes>>

\* The gateway dies, and with it every call it made.
CallersDie ==
    /\ stage' = [r \in Calls |-> "idle"]
    /\ verdict' = [r \in Calls |-> "none"]
    /\ carries' = [r \in Calls |-> NoKey]
    /\ began' = [r \in Calls |-> 0]
    /\ UNCHANGED <<clock, tables, cached, revocations, crashes>>

Next ==
    \/ AuthStep
    \/ CallersDie
    \/ \E r \in Calls, k \in Keys : Begin(r, k)
    \/ \E r \in Calls : End(r)

Spec == Init /\ [][Next]_authVars

-----------------------------------------------------------------------------
(* Properties. *)

Accepts(r) == verdict[r] = "none" /\ verdict'[r] = "valid"

\* A revoked key is accepted no longer than the cache entry of a validation that was
\* in flight when it was revoked: whatever died or failed between the transaction and
\* the delete, and whatever validation refilled the cache after it.
RevocationTakesEffect ==
    [][\A r \in Calls :
        Accepts(r) /\ IsRevoked(carries[r])
            => clock < revoked[carries[r]] + Patience + CacheTTL]_authVars

\* An expired key is accepted no longer than it takes a validation in flight to fill the
\* cache and the shortest entry to expire.
ExpiryTakesEffect ==
    [][\A r \in Calls :
        Accepts(r) => clock < row[carries[r]].expires + Patience + MinTTL]_authVars
=============================================================================
