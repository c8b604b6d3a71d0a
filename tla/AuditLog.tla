------------------------------ MODULE AuditLog ------------------------------
(***************************************************************************)
(* What the audit outbox promises ("queue stable event IDs transactionally *)
(* and flush idempotently", docs/IMPLEMENTATION_STATUS.md): the events of  *)
(* committed mutations are delivered to the log one after the other, in    *)
(* the order of their commits, and none of an uncommitted mutation is.     *)
(***************************************************************************)
EXTENDS Naturals

VARIABLES accepted,  \* events 1 .. accepted belong to committed mutations
          delivered  \* the events that are in the log

Init == accepted = 0 /\ delivered = {}

Accept == accepted' \in Nat /\ accepted' > accepted /\ UNCHANGED delivered

Deliver(n) ==
    /\ n \in 1..accepted \ delivered
    /\ 1..(n - 1) \subseteq delivered
    /\ delivered' = delivered \union {n}
    /\ UNCHANGED accepted

Next == Accept \/ \E n \in 1..accepted : Deliver(n)

Spec == Init /\ [][Next]_<<accepted, delivered>>
=============================================================================
