------------------------------ MODULE InternalAuth ------------------------------
(***************************************************************************)
(* The signature on every call between two services: the gateway signs the *)
(* method, the path, a timestamp and a hash of the body, and the service   *)
(* computes the same from what it receives.  Signer and verifiers are      *)
(* written separately, in TypeScript and in Go.                            *)
(*                                                                         *)
(* A call is a record [get, target, body]; body is "none" or what is sent. *)
(* The shared secret and the identifiers that are signed and sent as they  *)
(* are stand for nothing here: a hash is its input, a signature what it     *)
(* signs.                                                                  *)
(***************************************************************************)
EXTENDS Integers

CONSTANT MaxClockSkew   \* seconds a timestamp may be off (300)

ASSUME InternalAuthAssumption == MaxClockSkew \in Nat

HashBody(body) == IF body = "none" THEN "" ELSE body

CanonicalInternalRequest(call, at, hash) == <<call.get, call.target, at, hash>>

SignInternalRequest(call, at) ==
    [at |-> at, hash |-> HashBody(call.body),
     signature |-> CanonicalInternalRequest(call, at, HashBody(call.body))]

ValidSignature(call, hash, signed) ==
    signed.hash = hash /\ signed.signature = CanonicalInternalRequest(call, signed.at, hash)

-----------------------------------------------------------------------------
(* The guard of the webhook service. *)

IsFreshTimestamp(at, now) == now - at <= MaxClockSkew /\ at - now <= MaxClockSkew

\* A POST without a body comes with a content length of zero, which Express parses
\* as {}.
BodySha256(call) == IF call.body = "none" /\ ~call.get THEN "{}" ELSE HashBody(call.body)

CanActivate(call, signed, now) ==
    IsFreshTimestamp(signed.at, now) /\ ValidSignature(call, BodySha256(call), signed)

-----------------------------------------------------------------------------
(* The middleware of the Go services.  Its clock has fractions of a second: at the *)
(* upper end it admits a timestamp this refuses, which is the safe side.          *)

ValidTimestamp(at, now) == at > now - MaxClockSkew /\ at < now + MaxClockSkew

RequireInternalAuth(call, signed, now) ==
    ValidTimestamp(signed.at, now) /\ ValidSignature(call, HashBody(call.body), signed)
=============================================================================
