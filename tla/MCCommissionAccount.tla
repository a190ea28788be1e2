-------------------------- MODULE MCCommissionAccount --------------------------
(***************************************************************************)
(* Instances of CommissionAccount for TLC: an order charged and reversed,  *)
(* the debt paid out of a settlement and by hand, with a limit of zero and *)
(* one within the debts.                                                   *)
(***************************************************************************)
EXTENDS CommissionAccount, TLC

CONSTANTS order, reversal, settlement

MkCall(type, delta, ref) == [type |-> type, delta |-> delta, ref |-> ref]

AllCalls == {MkCall("ACCRUAL", 2, order), MkCall("ADJUSTMENT", -2, reversal),
             MkCall("PAYMENT", -2, settlement), MkCall("PAYMENT", -1, NoRef)}

\* TRUE once two handlers have been in flight together.
VARIABLE overlapped
Watch ==
  overlapped' = (overlapped \/ \E g, h \in Handlers :
                   g # h /\ task'[g] # Free /\ task'[h] # Free)

MCInit == overlapped = FALSE /\ AccountInit
MCNext == AccountNext /\ Watch
MCSpec == MCInit /\ [][MCNext]_<<accountVars, overlapped>>

Symmetry == Permutations(Handlers)

\* Handlers that never overlap leave a block that follows the debt: above the limit in
\* force the partner is blocked, a blocked partner owes, and, "only clearing the balance
\* to zero releases you", no step lifts the block of a partner who still owes. (Written
\* after the commit and by id alone, the block of overlapping handlers does not follow the
\* debt.) This is the latch of recomputeAndPersistBlockState (513-514), which every entry
\* and every agreed limit goes through. Three other comments of the file say otherwise and
\* are not what it does: that a payment unblocks at or below the limit (199-200), that a
\* lowered limit blocks on the next accrual only (452-455), that a raised one releases (495).
OverLimitIsBlocked == AllFree /\ account.balance > account.limit => account.blocked
BlockFollowsDebt ==
  [][~overlapped' =>
       /\ OverLimitIsBlocked' /\ ClearedIsReleased'
       /\ account.blocked /\ ~account'.blocked => account'.balance <= 0
  ]_<<accountVars, overlapped>>
===============================================================================
