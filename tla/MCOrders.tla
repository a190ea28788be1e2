------------------------------- MODULE MCOrders -------------------------------
(***************************************************************************)
(* OrderFulfilment for TLC, in two stages of one run:                      *)
(*   - "payment": from the cart to CONFIRMED; two orders when handlers run *)
(*     one at a time, one order when they overlap;                         *)
(*   - "fulfilment": one order, paid without incident (Entering), then     *)
(*     everything that can happen to it from CONFIRMED on.                 *)
(* Overlap says whether handlers overlap; only then they die half-way, and *)
(* in the second stage nobody then raises a dispute or pays at the gateway.*)
(***************************************************************************)
EXTENDS OrderFulfilment, TLC

CONSTANT Overlap

VARIABLE stage

mcVars == <<vars, stage>>

MCInit == Init /\ stage \in {"payment", "fulfilment"}

Busy == {w \in Workers : job[w] # Idle}
Quiet == Busy = {} /\ events = {}
Created == {o \in Orders : order[o] # NoOrder \/ \E w \in Workers : job[w] = At(o, "create")}
Doing(pcs) == \E w \in Workers : job[w].pc \in pcs

\* One handler at a time: it and the events it emits come to an end before the next.
OneAtATime ==
  /\ \A v, w \in Busy' : v = w
  /\ \A d, e \in events' : d = e /\ Busy' = {}
  /\ delivery' # delivery /\ job' = job => Quiet  \* a call of the rider
  /\ crashes' = 0

Entering ==
  \/ \A o \in Orders : order[o].status \in {"NONE", "PENDING"}
  \/ Doing({"deduct", "checkout"})
Smooth ==
  /\ \A o \in Orders : order'[o].hold # "late" /\ order'[o].status # "CANCELLED"
  /\ \A o \in Orders : txn'[o] # "FAILED" /\ Cardinality(received'[o]) <= 1
  /\ ~Doing({"failed", "release"})'

Scene ==
  /\ ~Overlap => OneAtATime
  /\ \/ stage = "payment" /\ fulfilVars' = fulfilVars /\ (Overlap => Cardinality(Created') <= 1)
     \/ /\ stage = "fulfilment" /\ Cardinality(Created') <= 1
        /\ Overlap => ~Doing({"dispute", "initiate"})'
        /\ Entering => OneAtATime /\ Smooth
        /\ ~Entering => UNCHANGED txn /\ ~Doing({"ask", "failed"})'
                          /\ \A o \in Orders : received'[o] \ received[o] \subseteq {"merchant", "cash"}

MCNext == Next /\ Scene /\ UNCHANGED stage
MCSpec == MCInit /\ [][MCNext]_mcVars
Alike == Permutations(Workers)

InScene(A) == A /\ Scene /\ UNCHANGED stage
MCLiveSpec ==
  /\ MCSpec
  /\ WF_mcVars(InScene(\E w \in Workers : Step(w))) /\ WF_mcVars(InScene(Handled))
  /\ SF_mcVars(InScene(Cleanup))

\* While handlers do not overlap, the cart is locked for as long as the one order it was
\* last made into is unpaid, and checked out if that order was confirmed
\* (checkout, cancelCustomerOrder, runCleanup, finalizeOrderConfirmation).
CartFollowsOrder == ~Overlap /\ Quiet =>
  LET Pending == {o \in Orders : order[o].status = "PENDING"}
  IN  /\ Cardinality(Pending) = IF cart = "LOCKED" THEN 1 ELSE 0
      /\ cart = "CHECKED_OUT" =>
           \E o \in Orders : /\ order[o].status \notin {"NONE", "PENDING"}
                             /\ order[o].pay # "FAILED"

\* While handlers do not overlap, an open exception belongs to an order that is still
\* CONFIRMED, and an order with a recovery case was cancelled and stays so, or refunded
\* (transition, cancelForRecovery, recoverAutomatically).
CaseFollowsOrder == ~Overlap /\ Quiet =>
  \A o \in Orders :
    /\ order[o].exception = "OPEN" => order[o].status = "CONFIRMED"
    /\ case[o].status # "NONE" => order[o].status \in {"CANCELLED", "REFUNDED"}
    /\ case[o].outcome = "REVERSAL_CONFIRMED" => order[o].pay = "REFUNDED"

\* While handlers do not overlap, an order nobody paid in time comes to an end and
\* unlocks its cart (runCleanup).
UnpaidEnds == \A o \in Orders :
  order[o].status = "PENDING" /\ order[o].hold = "late"
    ~> order[o].status # "PENDING" /\ cart # "LOCKED"
===============================================================================
