---------------------------- MODULE MCWalletLedger ----------------------------
(***************************************************************************)
(* An instance of WalletLedger for TLC that plays one of two scenes:       *)
(*  - HoldCalls: one wallet, a top-up, a hold ended in every way and also  *)
(*    with a wrong amount, a second hold whose money must stay untouched,  *)
(*    a debit that competes with the holds, all retried at will.           *)
(*  - TransferCalls: two topped-up wallets sending to each other.          *)
(***************************************************************************)
EXTENDS WalletLedger

CONSTANTS w1, w2, topup, purchase, booking, booking2, send1, send2

MkCall(op, w, to, ref, amount) ==
  [op |-> op, wallet |-> w, to |-> to, ref |-> ref, amount |-> amount]
Single(op, w, ref, amount) == MkCall(op, w, w, ref, amount)

HoldCalls ==
  {Single("credit", w1, topup, 2), Single("debit", w1, purchase, 1),
   Single("hold", w1, booking, 1), Single("hold", w1, booking2, 1),
   Single("hold_release", w1, booking, 1), Single("hold_release", w1, booking, 2),
   Single("hold_commit", w1, booking, 1)}

TransferCalls ==
  {Single("credit", w1, topup, 2), Single("credit", w2, topup, 1),
   MkCall("transfer", w1, w2, send1, 1), MkCall("transfer", w2, w1, send2, 1),
   MkCall("transfer", w1, w2, send2, 2)}

AllCalls == HoldCalls \union TransferCalls

VARIABLE scene

InScene(k) == k \in IF scene = "holds" THEN HoldCalls ELSE TransferCalls

MCInit == Init /\ scene \in {"holds", "transfers"}
MCNext ==
  /\ Next
  /\ \A c \in Conns : pc'[c] # "idle" => InScene(call'[c])
  /\ UNCHANGED scene
MCSpec == MCInit /\ [][MCNext]_<<vars, scene>> /\ Fairness
===============================================================================
