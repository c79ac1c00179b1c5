-------------------------------- MODULE Gateway --------------------------------
(***************************************************************************)
(* The gateway in front of the auth service: every request passes the      *)
(* rate-limit guard, then the auth guard, which asks the auth service, then *)
(* is signed and forwarded.  A request is one call of AuthKeys; the guards  *)
(* are steps of one thread between which other requests run.  The services *)
(* behind the gateway are their routes and their check of its signature.    *)
(***************************************************************************)
EXTENDS AuthKeys, InternalAuth

CONSTANTS
    Routes,         \* the requests offered
    Ahead,          \* how far the clock of each service is ahead of the gateway's
    Window,         \* the limiter's window (60 seconds)
    MaxRequests,    \* what it lets through in one (120)
    PruneAt,        \* buckets at which it prunes (10000)
    MaxArrivals,    \* bound on requests
    MaxRestarts     \* bound on restarts of the gateway

\* A client is what bucketKey tells apart: the credential, or for requests without one
\* the address, of which there is one here.
Clients == Keys \union {NoKey}

\* What is proxied: a path as it is written, the path its dot segments lead to if it has
\* any, what follows, whether the method is GET, and the body.  "auth" stands for
\* auth/keys; "/*" for whatever follows a slash.
Paths == {"auth", "payments", "balance", "transactions", "webhooks"}
Route == [path: Paths, dots: Paths \union {"none"}, rest: {"", "/", "/*"},
          get: BOOLEAN, body: {"none", "{..}"}]
Services == {"auth", "payments", "ledger", "webhooks"}

ASSUME GatewayAssumption ==
    /\ Routes \subseteq Route
    /\ Ahead \in [Services -> Int]
    /\ \A s \in Services : -MaxClockSkew < Ahead[s] /\ Ahead[s] + Patience < MaxClockSkew
    /\ Window \in Nat \ {0} /\ MaxRequests \in Nat \ {0} /\ PruneAt \in Nat
    /\ MaxArrivals \in Nat /\ MaxRestarts \in Nat

VARIABLES
    buckets,    \* the limiter's map: what was let through until when
    route,      \* what each request asks for
    phase,      \* where each request stands
    sentAt,     \* when it was signed and sent on
    passes,     \* what the limiter let through since the last restart, for each client
    arrivals,   \* requests so far
    restarts    \* restarts so far

limits == <<buckets, passes>>
requests == <<route, phase, sentAt>>
counts == <<arrivals, restarts>>
gatewayVars == <<authVars, limits, requests, counts>>

NoBucket == [count |-> 0, resetAt |-> 0]
Bucket == {NoBucket} \union [count: 1..MaxRequests, resetAt: Window..Horizon + Window]
Passage == [at: 0..Horizon, nth: 1..MaxRequests, since: 0..Horizon]
NoRoute == [path |-> "none"]

GatewayTypeOK ==
    /\ TypeOK
    /\ buckets \in [Clients -> Bucket]
    /\ route \in [Calls -> Routes \union {NoRoute}]
    /\ phase \in [Calls -> {"free", "validating", "forwarding", "sent"}]
    /\ sentAt \in [Calls -> 0..Horizon]
    /\ \A r \in Calls : phase[r] = "sent" => clock <= sentAt[r] + Patience
    /\ passes \in [Clients -> Seq(Passage)]
    /\ arrivals \in 0..MaxArrivals
    /\ restarts \in 0..MaxRestarts

GatewayInit ==
    /\ Init
    /\ buckets = [c \in Clients |-> NoBucket]
    /\ route = [r \in Calls |-> NoRoute]
    /\ phase = [r \in Calls |-> "free"]
    /\ sentAt = [r \in Calls |-> 0]
    /\ passes = [c \in Clients |-> <<>>]
    /\ arrivals = 0
    /\ restarts = 0

-----------------------------------------------------------------------------
(* RateLimitGuard. *)

Live(b) == clock < b.resetAt
Size(bs) == Cardinality({c \in Clients : bs[c] # NoBucket})

\* Variant: pruning keeps only the buckets that have just begun.
PruneAll(bs) ==
    IF Size(bs) < PruneAt THEN bs
    ELSE [c \in Clients |-> IF bs[c].resetAt = clock + Window THEN bs[c] ELSE NoBucket]

\* The buckets that are over are dropped once there are many.
Prune(bs) ==
    IF Size(bs) < PruneAt THEN bs
    ELSE [c \in Clients |-> IF Live(bs[c]) THEN bs[c] ELSE NoBucket]

\* currentBucket: the map with the client's bucket in it, made anew when the old one is
\* over.
WithCurrent(c) ==
    IF Live(buckets[c]) THEN buckets
    ELSE Prune([buckets EXCEPT ![c] = [count |-> 0, resetAt |-> clock + Window]])

\* Variant: the comparison is off by one.
LimitedLate(c) == Live(buckets[c]) /\ buckets[c].count > MaxRequests

Limited(c) == Live(buckets[c]) /\ buckets[c].count >= MaxRequests

\* Each passage is noted with its number in its bucket and the time that bucket began.
LetThrough(c) ==
    LET bucket == WithCurrent(c)[c]
    IN  /\ ~Limited(c)
        /\ buckets' = [WithCurrent(c) EXCEPT ![c].count = @ + 1]
        /\ passes' = [passes EXCEPT ![c] = Append(@,
                         [at |-> clock, nth |-> bucket.count + 1,
                          since |-> bucket.resetAt - Window])]

\* A request comes in: both guards, up to the call of the auth service, in one go.  A
\* request that is limited (429) or has no key (401) is over at once.
Request(r, c, rt) ==
    /\ phase[r] = "free"
    /\ arrivals < MaxArrivals
    /\ arrivals' = arrivals + 1
    /\ \/ Limited(c) /\ UNCHANGED <<limits, requests, validations>>
       \/ c = NoKey /\ LetThrough(c) /\ UNCHANGED <<requests, validations>>
       \/ /\ c # NoKey /\ LetThrough(c)
          /\ route' = [route EXCEPT ![r] = rt]
          /\ phase' = [phase EXCEPT ![r] = "validating"]
          /\ Validate(r, c)
          /\ UNCHANGED sentAt
    /\ UNCHANGED <<clock, tables, cached, revocations, crashes, restarts>>

-----------------------------------------------------------------------------
(* AuthGuard, from the auth service's answer on. *)

\* The service, and the part of the API, a path belongs to.
Part(path) == IF path \in {"balance", "transactions"} THEN "ledger" ELSE path

ReadScope == [auth |-> {}, payments |-> {"payments:read"}, ledger |-> {"ledger:read"},
              webhooks |-> {"webhooks:read"}]
WriteScope == [auth |-> {"auth:write"}, payments |-> {"payments:write"},
               ledger |-> {"ledger:write"}, webhooks |-> {"webhooks:write"}]

\* Variant: the method is not looked at.
RequiredScopesOfPath(rt) == ReadScope[Part(rt.path)] \union WriteScope[Part(rt.path)]

\* A balance is only ever read and a transaction only written, whatever the method.
RequiredScopes(rt) ==
    LET reads == rt.path = "balance" \/ (rt.get /\ rt.path # "transactions")
    IN  WriteScope[Part(rt.path)] \union IF reads THEN ReadScope[Part(rt.path)] ELSE {}

HasAnyScope(scopes, required) == scopes \intersect ({"full", "admin"} \union required) # {}

\* The client has its answer.
Close(r) ==
    /\ phase' = [phase EXCEPT ![r] = "free"]
    /\ route' = [route EXCEPT ![r] = NoRoute]
    /\ sentAt' = [sentAt EXCEPT ![r] = 0]
    /\ Forget(r)

\* The auth service's answer: 503, 401 and 403 end the request.
Authorize(r) ==
    /\ phase[r] = "validating" /\ stage[r] = "done"
    /\ IF verdict[r] = "valid" /\ HasAnyScope(ScopeOf(carries[r]), RequiredScopes(route[r]))
       THEN phase' = [phase EXCEPT ![r] = "forwarding"] /\ UNCHANGED <<route, sentAt, validations>>
       ELSE Close(r)
    /\ UNCHANGED <<clock, tables, cached, revocations, crashes, limits, counts>>

-----------------------------------------------------------------------------
(* ProxyController and ProxyService. *)

\* Variant: the path goes on as it came.
TargetAsItCame(rt) == rt.rest

\* downstreamPath and withTrailingSlash, below the root of the service's routes.
Target(rt) ==
    IF rt.rest = "" /\ rt.dots = "none" /\ rt.path \in {"payments", "balance", "webhooks"}
    THEN "/" ELSE rt.rest

\* withQuery parses the URL of the target, which resolves dot segments: the guard and the
\* router saw the path as it is written, the service gets the one it leads to.
Served(rt) == IF rt.dots = "none" THEN rt.path ELSE rt.dots

\* The call that carries a request on, signed as it is sent.
Onward(rt) == [get |-> rt.get, target |-> <<Served(rt), Target(rt)>>, body |-> rt.body]

\* The call that asks the auth service.
Validation == [get |-> FALSE, target |-> "internal/validate", body |-> "{..}"]

\* The request is signed and sent.
Forward(r) ==
    /\ phase[r] = "forwarding"
    /\ phase' = [phase EXCEPT ![r] = "sent"]
    /\ sentAt' = [sentAt EXCEPT ![r] = clock]
    /\ UNCHANGED <<route, authVars, limits, counts>>

\* The service behind answers, or does not in time (503).
Answered(r) ==
    /\ phase[r] = "sent"
    /\ Close(r)
    /\ UNCHANGED <<clock, tables, cached, revocations, crashes, limits, counts>>

\* Nobody waits longer than the gateway does.
InTime == \A r \in Calls : phase[r] = "sent" => clock' <= sentAt[r] + Patience

\* The gateway dies and is restarted: its buckets are gone, its calls are cancelled.
Restart ==
    /\ restarts < MaxRestarts
    /\ restarts' = restarts + 1
    /\ buckets' = [c \in Clients |-> NoBucket]
    /\ passes' = [c \in Clients |-> <<>>]
    /\ phase' = [r \in Calls |-> "free"]
    /\ route' = [r \in Calls |-> NoRoute]
    /\ sentAt' = [r \in Calls |-> 0]
    /\ CallersDie
    /\ UNCHANGED arrivals

GatewayNext ==
    \/ AuthStep /\ InTime /\ UNCHANGED <<limits, requests, counts>>
    \/ \E r \in Calls, c \in Clients, rt \in Routes : Request(r, c, rt)
    \/ \E r \in Calls : Authorize(r) \/ Forward(r) \/ Answered(r)
    \/ Restart

GatewaySpec == GatewayInit /\ [][GatewayNext]_gatewayVars

-----------------------------------------------------------------------------
(* Properties. *)

\* Between restarts a client gets at most 2 * MaxRequests - 1 requests past the limiter
\* in any window, wherever it begins: windows are counted from a client's first request,
\* and pruning never forgets one that still counts.
RateLimited ==
    \A c \in Clients : \A i, j \in DOMAIN passes[c] :
        j = i + 2 * MaxRequests - 1 => passes[c][j].at >= passes[c][i].at + Window

\* What was asked for when the key was created: no scope at all stands for every one.
Requested(k, scopes) ==
    \/ row[k].form.items = <<>>
    \/ ToSet(row[k].form.items) \intersect scopes # {}

\* A request that changes something.
Changes(rt) == rt.path = "transactions" \/ (~rt.get /\ rt.path # "balance")

\* The gateway lets a validated request go on exactly when its key was created for it,
\* through the auth service's normal form and its cache: what changes something needs
\* the write scope of its part, what reads the read or the write scope, and "full" and
\* "admin" are always enough.  This is about requests served under the path they are
\* written with; one whose dot segments lead to another path of the same service is
\* let on by the scopes of the path written.
RoutesFollowTheKey ==
    [][\A r \in Calls :
        (/\ phase[r] = "validating" /\ phase'[r] # "validating"
         /\ verdict[r] = "valid" /\ UNCHANGED restarts
         /\ Served(route[r]) = route[r].path)
        => LET part == Part(route[r].path)
               allowed ==
                   \/ Requested(carries[r], {"full", "admin"} \union WriteScope[part])
                   \/ ~Changes(route[r]) /\ Requested(carries[r], ReadScope[part])
           IN  phase'[r] = "forwarding" <=> allowed]_gatewayVars

\* What the routers behind the gateway know; on another path they answer with a
\* redirection, which the gateway does not follow, or with 404.
Known == {<<p, "/*">> : p \in Paths} \union {<<p, "/">> : p \in Paths \ {"transactions"}}

\* What the API offers: everything below its routes, and the routes themselves but
\* that of the keys, which is only known with a slash at its end.  Dot segments may be
\* used within a service, to what lies below one of its routes.
Offered(rt) ==
    /\ Part(Served(rt)) = Part(rt.path)
    /\ \/ rt.rest = "/*"
       \/ rt.rest = "/" /\ Served(rt) # "transactions"
       \/ rt.rest = "" /\ rt.dots = "none" /\ rt.path \in {"payments", "balance", "webhooks"}

\* Whether the service a request goes to, which is that of the path as it is written,
\* serves it now.
Heard(rt, at) ==
    LET signed == SignInternalRequest(Onward(rt), at) IN
    /\ Part(Served(rt)) = Part(rt.path)
    /\ Onward(rt).target \in Known
    /\ IF rt.path = "webhooks"
       THEN CanActivate(Onward(rt), signed, clock + Ahead["webhooks"])
       ELSE RequireInternalAuth(Onward(rt), signed, clock + Ahead[Part(rt.path)])

\* No call of the gateway is turned away for its signature or its path while the
\* gateway still waits, though it was signed by another clock and up to Patience
\* seconds ago.  A POST to the webhook service needs a body for that.
CallsAreHeard ==
    \A r \in Calls :
        /\ InFlight(r) => RequireInternalAuth(Validation,
               SignInternalRequest(Validation, began[r]), clock + Ahead["auth"])
        /\ (/\ phase[r] = "sent" /\ Offered(route[r])
            /\ route[r].path = "webhooks" /\ ~route[r].get => route[r].body # "none")
           => Heard(route[r], sentAt[r])
=============================================================================
