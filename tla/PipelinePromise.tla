---------------------------- MODULE PipelinePromise ----------------------------
(***************************************************************************)
(* What payment service and ledger promise together about a merchant's     *)
(* money: it follows the bank.  A payment completes only after the bank    *)
(* approved it, is announced only once it has completed, each announcement *)
(* under an id of its own, and each announcement moves the balance once.   *)
(* The one way around the bank is the ledger's endpoint: what a caller     *)
(* composes is taken at its word, and moves the balance once as well.  How *)
(* often a payment is announced is not promised.                           *)
(***************************************************************************)
EXTENDS Naturals

CONSTANTS
    Payments,
    Ids,        \* what the producer numbers its announcements with
    CallerIds   \* what callers of the ledger's endpoint number their events with

VARIABLES
    approved,   \* the payments the bank approved
    completed,  \* the payments on record as completed
    announced,  \* the announcements of success, each with its id
    booked,     \* the announcements entered in the ledger
    accepted,   \* the callers' own events entered in the ledger
    balance     \* the pending balance

vars == <<approved, completed, announced, booked, accepted, balance>>

Init ==
    /\ approved = {}
    /\ completed = {}
    /\ announced = {}
    /\ booked = {}
    /\ accepted = {}
    /\ balance = 0

Approve(p) ==
    /\ p \notin approved
    /\ approved' = approved \union {p}
    /\ UNCHANGED <<completed, announced, booked, accepted, balance>>

Complete(p) ==
    /\ p \in approved \ completed
    /\ completed' = completed \union {p}
    /\ UNCHANGED <<approved, announced, booked, accepted, balance>>

Announce(p, i) ==
    /\ p \in completed
    /\ \A a \in announced : a.id # i
    /\ announced' = announced \union {[id |-> i, pay |-> p]}
    /\ UNCHANGED <<approved, completed, booked, accepted, balance>>

Book(a) ==
    /\ a \in announced \ booked
    /\ booked' = booked \union {a}
    /\ balance' = balance + 1
    /\ UNCHANGED <<approved, completed, announced, accepted>>

Accept(i) ==
    /\ i \notin accepted
    /\ accepted' = accepted \union {i}
    /\ balance' = balance + 1
    /\ UNCHANGED <<approved, completed, announced, booked>>

Next ==
    \/ \E p \in Payments : Approve(p) \/ Complete(p) \/ \E i \in Ids : Announce(p, i)
    \/ \E a \in announced : Book(a)
    \/ \E i \in CallerIds : Accept(i)

Spec == Init /\ [][Next]_vars
=============================================================================
