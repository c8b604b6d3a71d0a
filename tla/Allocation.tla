----------------------------- MODULE Allocation -----------------------------
(***************************************************************************)
(* The integer arithmetic of allocate_proportional                         *)
(* (app/services/allocation.py): how much of one outgoing transfer is      *)
(* attributed to the traced money.                                         *)
(*                                                                         *)
(* Amounts are integer base units.  Python's // and % on the non-negative  *)
(* operands that reach them are \div and % of Integers.                    *)
(***************************************************************************)
EXTENDS Integers

(* Where attributed money stands while an address's transfers are walked.  *)
Position == [balance: Nat, attributed: Nat, residual: Nat]

-----------------------------------------------------------------------------
(* allocate_proportional refuses evidence that is not consistent ...       *)
ConsistentEvidence(pos, outgoing) ==
    /\ pos.balance > 0
    /\ pos.attributed <= pos.balance
    /\ outgoing <= pos.balance

Numerator(pos, outgoing) == outgoing * pos.attributed + pos.residual

(* The share of a transfer that is attributed.  Spending the whole balance *)
(* takes everything that is left; otherwise it is the proportional part,   *)
(* the previous remainder carried in.                                      *)
Share(pos, outgoing) ==
    IF outgoing = pos.balance THEN pos.attributed
                              ELSE Numerator(pos, outgoing) \div pos.balance

(* ... and a share that would create value (the check comes after the      *)
(* early return for a whole-balance transfer, where it cannot fail).       *)
\* mutant: the check is dropped
NeverRefused(pos, outgoing) == FALSE

CreatesValue(pos, outgoing) == Share(pos, outgoing) > pos.attributed

\* mutant: the carried remainder is paid out but not deducted
DeductWithoutCarry(pos, outgoing) ==
    [balance    |-> pos.balance - outgoing,
     attributed |-> pos.attributed
                        - (outgoing * pos.attributed) \div pos.balance,
     residual   |-> Numerator(pos, outgoing) % pos.balance]

AllocateProportional(pos, outgoing) ==
    [balance    |-> pos.balance - outgoing,
     attributed |-> pos.attributed - Share(pos, outgoing),
     residual   |-> IF outgoing = pos.balance
                    THEN 0
                    ELSE Numerator(pos, outgoing) % pos.balance]
=============================================================================
