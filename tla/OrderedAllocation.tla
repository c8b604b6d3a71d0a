-------------------------- MODULE OrderedAllocation --------------------------
(***************************************************************************)
(* The loop of allocate_ordered_outgoing (app/services/allocation.py): the *)
(* transfers that leave an address are walked in chain order, and each is  *)
(* given its share of the attributed money that sits there.                *)
(*                                                                         *)
(* The code first sums the transfers, so the loop runs with a fixed total  *)
(* and reveals one transfer per iteration.  The model keeps the part of    *)
(* the total that is still to be walked (pending) and lets the next        *)
(* transfer be any amount up to it: every list of transfers with that sum  *)
(* is a behaviour, and no list has to be carried.                          *)
(***************************************************************************)
EXTENDS Allocation

CONSTANTS MaxTotal,      \* bound on the sum of the transfers of an address
          MaxAttributed  \* bound on the attributed amount that sits there

ASSUME BoundsAssumption == MaxTotal \in Nat /\ MaxAttributed \in Nat

VARIABLES total,      \* outgoing_total_base
          seed,       \* the attributed_base the call starts with
          pending,    \* sum of the transfers the loop has not reached
          pos,        \* balance_base, remaining_attributed_base, residual_numerator
          paid,       \* sum of the outgoing_attributed_base of the steps so far
          status      \* "walking", "done" or "raised" (AllocationError)

vars == <<total, seed, pending, pos, paid, status>>

-----------------------------------------------------------------------------
\* mutant: the denominator is the observed total, however small
InitialBalanceIsTotal(s, t) == t

\* mutant: the denominator adds the two amounts
InitialBalanceIsSum(s, t) == s + t

(* initial_balance_base = max(attributed_base, outgoing_total_base).       *)
InitialBalance(s, t) == IF s >= t THEN s ELSE t

Init ==
    /\ total \in 0..MaxTotal
    /\ seed \in 0..MaxAttributed
    /\ pending = total
    /\ pos = [balance |-> InitialBalance(seed, total), attributed |-> seed, residual |-> 0]
    /\ paid = 0
    /\ status = "walking"

(* balance_before <= 0 or attributed_before <= 0: nothing is allocated and *)
(* the running balance is left as it is.                                   *)
NothingToAllocate == pos.balance <= 0 \/ pos.attributed <= 0

SkipTransfer(outgoing) ==
    /\ NothingToAllocate
    /\ pending' = pending - outgoing
    /\ UNCHANGED <<total, seed, pos, paid, status>>

AllocateTransfer(outgoing) ==
    /\ ~NothingToAllocate
    /\ ConsistentEvidence(pos, outgoing)
    /\ ~CreatesValue(pos, outgoing)
    /\ pending' = pending - outgoing
    /\ pos' = AllocateProportional(pos, outgoing)
    /\ paid' = paid + Share(pos, outgoing)
    /\ UNCHANGED <<total, seed, status>>

RejectTransfer(outgoing) ==
    /\ ~NothingToAllocate
    /\ ConsistentEvidence(pos, outgoing) => CreatesValue(pos, outgoing)
    /\ status' = "raised"
    /\ UNCHANGED <<total, seed, pending, pos, paid>>

Transfer(outgoing) ==
    /\ status = "walking"
    /\ \/ SkipTransfer(outgoing)
       \/ AllocateTransfer(outgoing)
       \/ RejectTransfer(outgoing)

Finish ==
    /\ status = "walking" /\ pending = 0
    /\ status' = "done"
    /\ UNCHANGED <<total, seed, pending, pos, paid>>

Next == Finish \/ \E outgoing \in 0..pending : Transfer(outgoing)

Spec == Init /\ [][Next]_vars

-----------------------------------------------------------------------------
(* The running amounts never become negative, whatever is walked: nothing  *)
(* is overspent.                                                           *)
TypeOK ==
    /\ total \in Nat /\ seed \in Nat /\ pending \in Nat /\ paid \in Nat
    /\ pos \in Position
    /\ status \in {"walking", "done", "raised"}

(* Attributed money is neither created nor lost: what the steps handed out *)
(* and what still sits at the address always add up to the amount the call *)
(* started with (allocation.py: outgoing_attributed_base and               *)
(* remaining_attributed_base of every step).                               *)
ValueConserved == paid + pos.attributed = seed

(* The denominator max(attributed, total) is large enough: before every    *)
(* transfer the attributed share is within the spendable balance and so is *)
(* every transfer still to come, so the "inconsistent evidence" errors of  *)
(* allocate_proportional never come from this loop.                        *)
BalanceCoversTheRest == pos.attributed <= pos.balance /\ pending <= pos.balance

(* When the address spent at least the attributed amount, a completed walk *)
(* leaves nothing stationary there, whatever the rounding did on the way.  *)
FullSpendLeavesNothing ==
    status = "done" /\ total >= seed => pos.attributed = 0

(* What makes the previous property inductive: while attributed money is   *)
(* left, an address that spent it all has no balance beyond the transfers  *)
(* still to come.                                                          *)
BalanceIsPending ==
    total >= seed => pos.attributed = 0 \/ pos.balance = pending

DoneMeansWalked == status = "done" => pending = 0

IInv ==
    /\ TypeOK
    /\ ValueConserved
    /\ BalanceCoversTheRest
    /\ BalanceIsPending
    /\ DoneMeansWalked

(* The guard "Allocation would create attributed value." is an internal    *)
(* check: for transfers that were observed, ordered and summed as here it  *)
(* is never hit.                                                           *)
NeverCreatesValue == status # "raised"
=============================================================================
