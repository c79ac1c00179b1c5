-------------------------- MODULE PaymentRefinement --------------------------
(* The payment service implements PaymentPromise. *)
EXTENDS Payment

\* The request that created the key's payment, and the one that asked the bank.
Creators(k) == {r \in Requests : KeyOf[r] = k /\ Created(r)}
Askers(k) == {r \in Requests : KeyOf[r] = k /\ Asked(r)}
One(S) == CHOOSE r \in S : TRUE

PaymentOfKey ==
    [k \in Keys |-> IF Creators(k) = {} THEN "none" ELSE row[One(Creators(k))]]

BankOfKey ==
    [k \in Keys |-> IF Askers(k) = {} THEN "unasked" ELSE bank[One(Askers(k))]]

AnnouncedOfKey ==
    [k \in Keys |-> {EventType(log[i].status) :
                        i \in {j \in 1..Len(log) : KeyOf[log[j].pay] = k}}]

Promise == INSTANCE PaymentPromise WITH
    payment <- PaymentOfKey, bank <- BankOfKey, announced <- AnnouncedOfKey

\* Seen per key, every behaviour of the service is one the promise allows: one
\* payment, one question to the bank, one outcome, announcements of that outcome.
KeepsPromise == Promise!Spec

\* And with the scheduler and the broker it assumes, every outcome is announced.
KeepsPromiseInTime == Promise!FairSpec
=============================================================================
