---------------------------- MODULE MCRidePayments ----------------------------
(***************************************************************************)
(* Instances of RidePayments for TLC, in two scenes: "serial", where a     *)
(* handler ends or dies before the next begins, and overlapping, where     *)
(* handlers interleave at every statement. One may die in either.          *)
(***************************************************************************)
EXTENDS RidePayments, TLC

VARIABLE serial

Busy == {w \in Workers : job[w] # Idle}

MCInit == Init /\ serial \in BOOLEAN
InScene ==
  IF serial THEN \A v, w \in Busy : v = w
  ELSE Cardinality({t \in Txns : txn[t] # "NONE"}) <= 1
MCNext == UNCHANGED serial /\ Next /\ InScene'
MCSpec == MCInit /\ [][MCNext]_<<vars, serial>>

Alike == Permutations(Workers) \union Permutations(Txns)

\* While handlers do not overlap, the method of a paid ride is one it was paid by, even if
\* handlers died on the way; and while none died either, the driver is not both paid and
\* charged for a ride that was not refunded (requirePayableRide, requireCashConfirmableRide).
SettledByMethod == serial /\ Busy = {} =>
  /\ ride.pay = "PAID" => (IF ride.method = "CASH" THEN "commission" ELSE "earning") \in posted
  /\ crashes = 0 /\ {"commission", "earning"} \subseteq posted =>
       posted \intersect {"refund", "reversal"} # {}
===============================================================================
