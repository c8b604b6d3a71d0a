----------------------- MODULE OrderedAllocationProofs -----------------------
(***************************************************************************)
(* Proofs about the walk of OrderedAllocation, for every list of transfers *)
(* and every attributed amount.                                            *)
(***************************************************************************)
EXTENDS OrderedAllocation, CommonLemmas

-----------------------------------------------------------------------------
LEMMA InitInvariant == Init => IInv
  BY BoundsAssumption
  DEF Init, IInv, TypeOK, Position, InitialBalance, ValueConserved,
      BalanceCoversTheRest, BalanceIsPending, DoneMeansWalked

LEMMA StepInvariant == IInv /\ [Next]_vars => IInv'
  <1> USE DEF IInv, TypeOK, ValueConserved, BalanceCoversTheRest,
              BalanceIsPending, DoneMeansWalked
  <1> SUFFICES ASSUME IInv, [Next]_vars
               PROVE  IInv'
    OBVIOUS
  <1>1. CASE Finish
    BY <1>1 DEF Finish, Position
  <1>2. ASSUME NEW o \in 0..pending, Transfer(o)
        PROVE  IInv'
    <2>1. o \in Nat /\ o <= pending /\ status = "walking"
      BY <1>2 DEF Transfer
    <2>2. CASE SkipTransfer(o)
      BY <2>1, <2>2 DEF SkipTransfer, NothingToAllocate, Position
    <2>3. CASE AllocateTransfer(o)
      <3>1. /\ Share(pos, o) \in Nat
            /\ pos' \in Position
            /\ pos'.attributed + Share(pos, o) = pos.attributed
            /\ pos'.balance = pos.balance - o
            /\ pos'.attributed <= pos.balance - o
        BY <2>1, <2>3, AllocationStep DEF AllocateTransfer
      <3>2. /\ pending' = pending - o
            /\ paid' = paid + Share(pos, o)
            /\ UNCHANGED <<total, seed, status>>
        BY <2>3 DEF AllocateTransfer
      <3>3. pos.attributed # 0
        BY <2>3 DEF AllocateTransfer, NothingToAllocate, Position
      <3>4. QED
        BY <2>1, <3>1, <3>2, <3>3 DEF Position
    <2>4. CASE RejectTransfer(o)
      BY <2>1, <2>4 DEF RejectTransfer
    <2>5. QED
      BY <1>2, <2>2, <2>3, <2>4 DEF Transfer
  <1>3. CASE UNCHANGED vars
    BY <1>3 DEF vars
  <1>4. QED
    BY <1>1, <1>2, <1>3 DEF Next

LEMMA Invariant == Spec => []IInv
  BY InitInvariant, StepInvariant, PTL DEF Spec

(* The walk keeps its variables in their types: in particular no share and *)
(* no remainder is ever negative.                                          *)
THEOREM TypeCorrect == Spec => []TypeOK
  <1>1. IInv => TypeOK
    BY DEF IInv
  <1>2. QED
    BY <1>1, Invariant, PTL

(* However the transfers are ordered and rounded, attributed money is      *)
(* neither created nor lost by allocate_ordered_outgoing.                  *)
THEOREM Conservation == Spec => []ValueConserved
  <1>1. IInv => ValueConserved
    BY DEF IInv
  <1>2. QED
    BY <1>1, Invariant, PTL

(* The "inconsistent evidence" errors of allocate_proportional cannot come *)
(* from the loop: its denominator covers whatever is still to come.        *)
THEOREM BalanceSuffices == Spec => []BalanceCoversTheRest
  <1>1. IInv => BalanceCoversTheRest
    BY DEF IInv
  <1>2. QED
    BY <1>1, Invariant, PTL

(* An address that spent at least the attributed amount keeps none of it.  *)
THEOREM NothingStaysBehind == Spec => []FullSpendLeavesNothing
  <1>1. IInv => FullSpendLeavesNothing
    BY DEF IInv, TypeOK, Position, BalanceCoversTheRest, BalanceIsPending,
           DoneMeansWalked, FullSpendLeavesNothing
  <1>2. QED
    BY <1>1, Invariant, PTL
=============================================================================
