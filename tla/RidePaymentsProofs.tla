-------------------------- MODULE RidePaymentsProofs --------------------------
(***************************************************************************)
(* Whatever the number of handlers and of gateway transactions, and        *)
(* wherever handlers die: the status of a ride tells what became of its    *)
(* money, fares are paid by the customer, and refunds by the driver first. *)
(* While handlers do not overlap, a paid ride also bears a method it was   *)
(* paid by, and while none dies either, it is settled by that one alone.   *)
(***************************************************************************)
EXTENDS MCRidePayments, TLAPS

\* What the ways of being paid leave behind.
DueHad(method) ==
  IF method = "CASH" THEN "commission" \in posted /\ (ride.coupon => "funding" \in posted)
  ELSE {"capture", "earning"} \subseteq posted
Funded == "fare" \in posted \/ charged # {}
Had == posted \intersect {"earningIn", "liability"} # {}

\* A handler knows what was posted before it: its way through the postings is its proof.
Knows(j) ==
  /\ j.pc = "claim" => j.txn \in charged
  /\ j.pc \in {"capture", "earningOut", "earning"} => Funded /\ j.method # "CASH"
  /\ j.pc \in {"earningOut", "earning"} => "capture" \in posted
  /\ j.pc \in {"commission", "fundingOut", "funding"} => j.method = "CASH"
  /\ j.pc \in {"fundingOut", "funding"} => "commission" \in posted
  /\ j.pc = "paid" => DueHad(j.method)
  /\ j.pc = "fare" => j.method # "CASH"
  /\ j.pc \in {"earningBack", "earningIn"} => j.method # "CASH"
  /\ j.pc \in {"fundingBack", "fundingIn"} => j.method = "CASH"
  /\ j.pc \in {"refundOut", "refund"} => Had
  /\ j.pc = "refunded" => posted \intersect {"refund", "reversal"} # {}

IInv ==
  /\ TypeOK
  /\ \A w \in Workers : Knows(job[w])
  /\ StatusIsMoney
  /\ FareIsFunded
  /\ RefundIsRecovered

-------------------------------------------------------------------------------
LEMMA InitIInv == Init => IInv
  BY RidePaymentsConfig DEF Init, IInv, TypeOK, Ride, Methods, Job, Idle, Knows, StatusIsMoney,
     FareIsFunded, RefundIsRecovered

\* The postings and the charges only grow: what a handler knows, it still knows when
\* others have taken a step.
LEMMA KnowledgeStays ==
  ASSUME posted \subseteq posted', charged \subseteq charged', ride'.coupon = ride.coupon,
         NEW v \in Workers, job'[v] = job[v], Knows(job[v])
  PROVE  Knows(job[v])'
  BY DEF Knows, DueHad, Funded, Had

\* A step that leaves the postings and the row alone disturbs no claim about them.
LEMMA ClaimsStay ==
  ASSUME IInv, UNCHANGED <<ride, posted>>, charged \subseteq charged'
  PROVE  StatusIsMoney' /\ FareIsFunded' /\ RefundIsRecovered'
  BY DEF IInv, StatusIsMoney, FareIsFunded, RefundIsRecovered

\* One worker takes a step: it is enough that it knows what it must and the claims hold.
LEMMA OneWorker ==
  ASSUME IInv, TypeOK', posted \subseteq posted', charged \subseteq charged',
         ride'.coupon = ride.coupon,
         NEW w \in Workers, \A v \in Workers \ {w} : job'[v] = job[v], Knows(job[w])',
         StatusIsMoney', FareIsFunded', RefundIsRecovered'
  PROVE  IInv'
<1>1. ASSUME NEW v \in Workers PROVE Knows(job[v])'
  <2>1. CASE v = w  BY <2>1
  <2>2. CASE v # w
    <3>1. job'[v] = job[v] /\ Knows(job[v])  BY <2>2 DEF IInv
    <3>. QED  BY <3>1, KnowledgeStays
  <2>. QED  BY <2>1, <2>2
<1>. QED  BY <1>1 DEF IInv

-------------------------------------------------------------------------------
\* Types, and that postings are never taken back.
Grow ==
  /\ TypeOK'
  /\ posted \subseteq posted' /\ charged \subseteq charged'
  /\ ride'.coupon = ride.coupon

Way == Postings \union {"paid", "recheck", "refunded", "close"}

\* A handler on its way through the postings carries a method, and keeps it.
LEMMA OnItsWay ==
  ASSUME TypeOK, NEW w \in Workers, job[w].pc \in Way
  PROVE  /\ job[w] \in [pc : Way, method : Methods]
         /\ \A pc \in Way : [job[w] EXCEPT !.pc = pc] \in [pc : Way, method : Methods]
<1>1. job[w] \in Job  BY DEF TypeOK
<1>2. job[w] \in [pc : Way, method : Methods]  BY <1>1 DEF Job, Idle, Way, Postings
<1>. QED  BY <1>2

LEMMA WayTypes ==
  ASSUME TypeOK, NEW w \in Workers, NEW pc \in Way, job[w].pc \in Way, Goto(w, pc)
  PROVE  job' \in [Workers -> Job]
<1>1. [job[w] EXCEPT !.pc = pc] \in Job  BY OnItsWay DEF Job, Way
<1>. QED  BY <1>1 DEF Goto, Become, TypeOK

LEMMA PostTypes ==
  ASSUME TypeOK, NEW w \in Workers, NEW pc \in Way, job[w].pc \in Postings, Post(w, pc)
  PROVE  Grow
<1>1. job' \in [Workers -> Job]  BY WayTypes DEF Way, Post
<1>. QED  BY <1>1 DEF Grow, TypeOK, Post

LEMMA StepTypes == ASSUME TypeOK, Next PROVE Grow
<1>1. ASSUME NEW w \in Workers, Request(w) PROVE Grow
  <2>1. ASSUME NEW j \in Job, Become(w, j), UNCHANGED <<ride, txn, charged, posted, crashes>>
        PROVE  Grow
    BY <2>1 DEF Grow, TypeOK, Become
  <2>2. At("fare", "WALLET") \in Job /\ At("commission", "CASH") \in Job
        /\ [pc |-> "cash"] \in Job /\ [pc |-> "open"] \in Job
        /\ \A t \in Txns : [pc |-> "ask", txn |-> t] \in Job
        /\ \A m \in Methods, pc \in {"earningBack", "fundingBack", "reversal"} : At(pc, m) \in Job
    BY DEF At, Job, Postings, Methods
  <2>3. CASE PayWithWallet(w) \/ ConfirmCash(w) \/ SelectCash(w) \/ InitiateGateway(w)
    BY <2>1, <2>2, <2>3 DEF PayWithWallet, ConfirmCash, SelectCash, InitiateGateway
  <2>4. CASE RefundRide(w)
    <3>1. ride.method \in Methods  BY <2>4 DEF RefundRide, TypeOK, Ride
    <3>2. PICK pc \in {"earningBack", "fundingBack", "reversal"} : Become(w, At(pc, ride.method))
      BY <2>4, <3>1 DEF RefundRide, Taken, Recovered, Methods
    <3>3. At(pc, ride.method) \in Job  BY <3>1 DEF At, Job, Postings
    <3>. QED  BY <2>4, <3>2, <3>3 DEF RefundRide, Grow, TypeOK, Become
  <2>5. ASSUME NEW t \in Txns, Verify(w, t) PROVE Grow
    BY <2>1, <2>2, <2>5 DEF Verify
  <2>. QED  BY <1>1, <2>3, <2>4, <2>5 DEF Request
<1>2. ASSUME NEW w \in Workers, Crash(w) PROVE Grow
  BY <1>2, RidePaymentsConfig DEF Crash, Grow, TypeOK, Become, Job
<1>3. ASSUME NEW t \in Txns, CustomerPays(t) PROVE Grow
  BY <1>3 DEF CustomerPays, Grow, TypeOK
<1>4. ASSUME NEW w \in Workers, Step(w) PROVE Grow
  <2>. USE DEF Way, Postings
  <2>1. CASE DebitFare(w)
    BY <2>1, PostTypes DEF DebitFare, Grow, TypeOK, Become, Job, Ride
  <2>2. CASE MarkFailed(w)
    BY <2>2 DEF MarkFailed, Grow, TypeOK, Become, Job, Ride, Methods, Idle
  <2>3. CASE ChooseMethod(w)
    BY <2>3 DEF ChooseMethod, Grow, TypeOK, Become, Job, Ride, Methods, Idle
  <2>4. CASE MarkPaid(w)
    BY <2>4, OnItsWay DEF MarkPaid, Grow, TypeOK, Become, Job, Ride, Idle
  <2>5. CASE Ask(w)
    BY <2>5 DEF Ask, Grow, TypeOK, Goto, Become, Job, Idle
  <2>6. CASE RejectTransaction(w)
    BY <2>6 DEF RejectTransaction, Grow, TypeOK, Become, Job, Idle
  <2>7. CASE ClaimTransaction(w)
    BY <2>7 DEF ClaimTransaction, Grow, TypeOK, Become, At, Job, Idle, Methods
  <2>8. CASE OpenTransaction(w)
    BY <2>8 DEF OpenTransaction, Grow, TypeOK, Become, Job, Idle
  <2>9. CASE CloseTransactions(w)
    BY <2>9 DEF CloseTransactions, Grow, TypeOK, Become, Job
  <2>10. CASE Capture(w)
    BY <2>10, PostTypes DEF Capture, Recovered
  <2>11. CASE PayoutDriver(w)
    BY <2>11, PostTypes DEF PayoutDriver, Recovered
  <2>12. CASE AccrueCommission(w)
    BY <2>12, PostTypes DEF AccrueCommission, Recovered
  <2>13. CASE FundPromotion(w)
    BY <2>13, PostTypes DEF FundPromotion, Recovered
  <2>14. CASE RecordLiability(w)
    BY <2>14, PostTypes DEF RecordLiability, Recovered
  <2>15. CASE ReturnToPlatform(w)
    BY <2>15, PostTypes DEF ReturnToPlatform, Recovered
  <2>16. CASE RefundCustomer(w)
    BY <2>16, PostTypes DEF RefundCustomer, Recovered
  <2>17. CASE ReverseAccrual(w)
    BY <2>17, PostTypes DEF ReverseAccrual, Recovered
  <2>18. CASE TakeBack(w)
    BY <2>18, PostTypes, WayTypes DEF TakeBack, Taking, Returned, Grow, TypeOK
  <2>19. CASE Recheck(w)
    BY <2>19, WayTypes DEF Recheck, Returned, Grow, TypeOK
  <2>20. CASE ClaimRefund(w)
    BY <2>20, WayTypes DEF ClaimRefund, Become, Grow, TypeOK, Ride, Job
  <2>. QED
    BY <1>4, <2>1, <2>2, <2>3, <2>4, <2>5, <2>6, <2>7, <2>8, <2>9, <2>10, <2>11, <2>12, <2>13,
       <2>14, <2>15, <2>16, <2>17, <2>18, <2>19, <2>20 DEF Step
<1>. QED  BY <1>1, <1>2, <1>3, <1>4 DEF Next

-------------------------------------------------------------------------------
\* Only the handler that takes the step changes what it is about.
LEMMA Alone ==
  ASSUME TypeOK, NEW w \in Workers, Request(w) \/ Step(w) \/ Crash(w)
  PROVE  \A v \in Workers \ {w} : job'[v] = job[v]
<1>1. CASE Request(w)
  BY <1>1 DEF Request, PayWithWallet, SelectCash, InitiateGateway, ConfirmCash, RefundRide,
     Verify, Become, TypeOK
<1>2. CASE Crash(w)  BY <1>2 DEF Crash, Become, TypeOK
<1>3. CASE Step(w)
  BY <1>3 DEF Step, DebitFare, MarkFailed, OpenTransaction, ChooseMethod, Ask, RejectTransaction,
     ClaimTransaction, Capture, PayoutDriver, AccrueCommission, FundPromotion, MarkPaid, TakeBack,
     Recheck, RecordLiability, ReturnToPlatform, RefundCustomer, ReverseAccrual, ClaimRefund,
     CloseTransactions, Post, Goto, Become, TypeOK
<1>. QED  BY <1>1, <1>2, <1>3

LEMMA Unhurt == ASSUME NEW w \in Workers, Step(w) PROVE crashes' = crashes
BY DEF Step, DebitFare, MarkFailed, OpenTransaction, ChooseMethod, Ask, RejectTransaction,
       ClaimTransaction, Capture, PayoutDriver, AccrueCommission, FundPromotion, MarkPaid,
       TakeBack, Recheck, RecordLiability, ReturnToPlatform, RefundCustomer, ReverseAccrual,
       ClaimRefund, CloseTransactions, Post

\* A request makes no posting, and the handler it starts needs to know nothing yet.
LEMMA RequestKeeps == ASSUME IInv, Grow, NEW w \in Workers, Request(w) PROVE IInv'
<1>1. UNCHANGED <<ride, txn, charged, posted>>
  BY DEF Request, PayWithWallet, SelectCash, InitiateGateway, ConfirmCash, RefundRide, Verify
<1>2. job'[w].pc \in {"fare", "cash", "open", "commission", "earningBack", "fundingBack",
                     "reversal", "ask"}
      /\ (job'[w].pc \in {"fare", "earningBack"} => job'[w].method # "CASH")
      /\ (job'[w].pc \in {"commission", "fundingBack"} => job'[w].method = "CASH")
  BY DEF Request, PayWithWallet, SelectCash, InitiateGateway, ConfirmCash, RefundRide, Verify,
     Become, At, Taken, Recovered, IInv, TypeOK
<1>3. Knows(job[w])'  BY <1>2 DEF Knows
<1>. QED  BY <1>1, <1>3, Alone, ClaimsStay, OneWorker DEF Grow, IInv

\* A posting that is no one's proof of payment yet leaves the claims standing.
LEMMA PostKeeps ==
  ASSUME IInv, Grow, NEW w \in Workers, NEW pc \in Way, job[w].pc \in Postings, Post(w, pc),
         Step(w),
         Knows(job[w])',
         job[w].pc \in {"capture", "earningOut", "earning"} => Funded,
         job[w].pc \in {"refundOut", "refund"} => Had
  PROVE  IInv'
<1>1. UNCHANGED <<ride, charged>> /\ posted' = posted \union {job[w].pc}  BY DEF Post
<1>2. StatusIsMoney'  BY <1>1 DEF StatusIsMoney, IInv
<1>3. FareIsFunded'  BY <1>1 DEF FareIsFunded, Funded, IInv
<1>4. RefundIsRecovered'  BY <1>1 DEF RefundIsRecovered, Had, IInv
<1>. QED  BY <1>1, <1>2, <1>3, <1>4, Alone, OneWorker DEF Grow, IInv

LEMMA StepKeeps == ASSUME IInv, Grow, NEW w \in Workers, Step(w) PROVE IInv'
<1>. DEFINE j == job[w]
<1>1. Knows(j) /\ TypeOK /\ j \in Job  BY DEF IInv, TypeOK
<1>2. ASSUME NEW pc \in Way, j.pc \in Way, Goto(w, pc)
      PROVE  job'[w].pc = pc /\ job'[w].method = j.method
  BY <1>2, OnItsWay, <1>1 DEF Goto, Become, TypeOK
<1>3. CASE DebitFare(w)
  <2>1. CASE Post(w, "capture")
    <3>1. job'[w].pc = "capture" /\ job'[w].method = j.method
      BY <1>2, <2>1, <1>3 DEF DebitFare, Post, Way, Postings
    <3>2. Knows(job[w])'
      BY <1>1, <2>1, <3>1, <1>3 DEF DebitFare, Post, Knows, DueHad, Funded, Had, Way, Postings
    <3>. QED  BY <1>1, <2>1, <3>2, PostKeeps, <1>3 DEF DebitFare, Way, Postings
  <2>2. CASE Become(w, [pc |-> "failed"]) /\ UNCHANGED <<ride, txn, charged, posted, crashes>>
    <3>1. Knows(job[w])'  BY <1>1, <2>2 DEF Become, Knows, TypeOK
    <3>. QED  BY <2>2, <3>1, Alone, ClaimsStay, OneWorker DEF Grow, IInv
  <2>. QED  BY <2>1, <2>2, <1>3 DEF DebitFare
<1>4. CASE MarkFailed(w) \/ ChooseMethod(w)
  <2>1. Knows(job[w])'  BY <1>1, <1>4 DEF MarkFailed, ChooseMethod, Become, Idle, Knows, TypeOK
  <2>2. UNCHANGED <<charged, posted>> /\ ride'.pay \in {"FAILED", ride.pay}
    BY <1>1, <1>4 DEF MarkFailed, ChooseMethod, TypeOK, Ride
  <2>3. StatusIsMoney' /\ FareIsFunded' /\ RefundIsRecovered'
    BY <2>2 DEF IInv, StatusIsMoney, FareIsFunded, RefundIsRecovered, Grow
  <2>. QED  BY <2>1, <2>2, <2>3, Alone, OneWorker DEF Grow, IInv
<1>5. CASE OpenTransaction(w)
  <2>1. UNCHANGED <<ride, posted>>  BY <1>5 DEF OpenTransaction
  <2>2. Knows(job[w])'  BY <1>1, <1>5 DEF OpenTransaction, Become, Idle, Knows, TypeOK
  <2>. QED  BY <2>1, <2>2, Alone, ClaimsStay, OneWorker DEF Grow, IInv
<1>6. CASE Ask(w)
  <2>1. UNCHANGED <<ride, posted>>  BY <1>6 DEF Ask
  <2>2. Knows(job[w])'  BY <1>1, <1>6 DEF Ask, Goto, Become, Knows, TypeOK, Job, Idle
  <2>. QED  BY <2>1, <2>2, Alone, ClaimsStay, OneWorker DEF Grow, IInv
<1>7. CASE RejectTransaction(w)
  <2>1. UNCHANGED <<ride, posted>>  BY <1>7 DEF RejectTransaction
  <2>2. Knows(job[w])'  BY <1>1, <1>7 DEF RejectTransaction, Become, Knows, TypeOK
  <2>. QED  BY <2>1, <2>2, Alone, ClaimsStay, OneWorker DEF Grow, IInv
<1>8. CASE ClaimTransaction(w)
  <2>1. UNCHANGED <<ride, posted>>  BY <1>8 DEF ClaimTransaction
  <2>2. Knows(job[w])'  BY <1>1, <1>8 DEF ClaimTransaction, Become, At, Idle, Knows, Funded, TypeOK
  <2>. QED  BY <2>1, <2>2, Alone, ClaimsStay, OneWorker DEF Grow, IInv
<1>9. CASE CloseTransactions(w)
  <2>1. UNCHANGED <<ride, posted>>  BY <1>9 DEF CloseTransactions
  <2>2. Knows(job[w])'  BY <1>1, <1>9 DEF CloseTransactions, Become, Idle, Knows, TypeOK
  <2>. QED  BY <2>1, <2>2, Alone, ClaimsStay, OneWorker DEF Grow, IInv
<1>10. CASE Capture(w)
  <2>1. PICK pc \in Way : Post(w, pc) /\ j.pc = "capture" /\ pc = "earningOut"
    BY <1>10 DEF Capture, Way, Postings
  <2>2. j.pc \in Postings  BY <2>1 DEF Postings
  <2>3. job'[w].pc = pc /\ job'[w].method = j.method  BY <1>2, <2>1, <2>2 DEF Post, Way
  <2>4. ride' = ride /\ charged' = charged /\ posted' = posted \union {j.pc}  BY <2>1 DEF Post
  <2>5. Knows(job[w])'
    BY <1>1, <2>1, <2>3, <2>4 DEF Knows, DueHad, Funded, Had
  <2>. QED  BY <1>1, <2>1, <2>2, <2>5, PostKeeps DEF Knows
<1>11. CASE PayoutDriver(w)
  <2>1. PICK pc \in Way :
          Post(w, pc) /\ <<j.pc, pc>> \in {<<"earningOut", "earning">>, <<"earning", "paid">>}
    BY <1>11 DEF PayoutDriver, Way, Postings
  <2>2. j.pc \in Postings  BY <2>1 DEF Postings
  <2>3. job'[w].pc = pc /\ job'[w].method = j.method  BY <1>2, <2>1, <2>2 DEF Post, Way
  <2>4. ride' = ride /\ charged' = charged /\ posted' = posted \union {j.pc}  BY <2>1 DEF Post
  <2>5. Knows(job[w])'
    BY <1>1, <2>1, <2>3, <2>4 DEF Knows, DueHad, Funded, Had
  <2>. QED  BY <1>1, <2>1, <2>2, <2>5, PostKeeps DEF Knows
<1>12. CASE AccrueCommission(w)
  <2>1. PICK pc \in Way :
          Post(w, pc) /\ j.pc = "commission" /\ pc = IF ride.coupon THEN "fundingOut" ELSE "paid"
    BY <1>12 DEF AccrueCommission, Way, Postings
  <2>2. j.pc \in Postings  BY <2>1 DEF Postings
  <2>3. job'[w].pc = pc /\ job'[w].method = j.method  BY <1>2, <2>1, <2>2 DEF Post, Way
  <2>4. ride' = ride /\ charged' = charged /\ posted' = posted \union {j.pc}  BY <2>1 DEF Post
  <2>5. Knows(job[w])'
    BY <1>1, <2>1, <2>3, <2>4 DEF Knows, DueHad, Funded, Had
  <2>. QED  BY <1>1, <2>1, <2>2, <2>5, PostKeeps DEF Knows
<1>13. CASE FundPromotion(w)
  <2>1. PICK pc \in Way :
          Post(w, pc) /\ <<j.pc, pc>> \in {<<"fundingOut", "funding">>, <<"funding", "paid">>}
    BY <1>13 DEF FundPromotion, Way, Postings
  <2>2. j.pc \in Postings  BY <2>1 DEF Postings
  <2>3. job'[w].pc = pc /\ job'[w].method = j.method  BY <1>2, <2>1, <2>2 DEF Post, Way
  <2>4. ride' = ride /\ charged' = charged /\ posted' = posted \union {j.pc}  BY <2>1 DEF Post
  <2>5. Knows(job[w])'
    BY <1>1, <2>1, <2>3, <2>4 DEF Knows, DueHad, Funded, Had
  <2>. QED  BY <1>1, <2>1, <2>2, <2>5, PostKeeps DEF Knows
<1>14. CASE MarkPaid(w)
  <2>1. Knows(job[w])'  BY <1>1, <1>14 DEF MarkPaid, Become, Idle, Knows, TypeOK
  <2>2. UNCHANGED <<charged, posted>>  BY <1>14 DEF MarkPaid
  <2>3. StatusIsMoney'
    <3>1. CASE ride.pay = "PAID"  BY <2>2, <3>1, <1>14 DEF MarkPaid, IInv, StatusIsMoney
    <3>2. CASE ride.pay # "PAID"
      <4>1. ride'.pay = "PAID" /\ DueHad(j.method)
        BY <1>1, <3>2, <1>14 DEF MarkPaid, Knows, TypeOK, Ride
      <4>. QED  BY <2>2, <4>1 DEF StatusIsMoney, DueHad, Grow
    <3>. QED  BY <3>1, <3>2
  <2>4. FareIsFunded' /\ RefundIsRecovered'
    BY <2>2 DEF IInv, FareIsFunded, RefundIsRecovered
  <2>. QED  BY <2>1, <2>2, <2>3, <2>4, Alone, OneWorker DEF Grow, IInv
<1>15. CASE TakeBack(w)
  <2>1. CASE Post(w, Returned(j.method))
    <3>1. job'[w].pc = Returned(j.method) /\ job'[w].method = j.method /\ Returned(j.method) \in Way
      BY <1>2, <2>1, <1>15 DEF TakeBack, Taking, Returned, Post, Way, Postings
    <3>2. Knows(job[w])'
      BY <1>1, <2>1, <3>1, <1>15 DEF TakeBack, Taking, Returned, Knows
    <3>. QED  BY <1>1, <2>1, <3>1, <3>2, PostKeeps, <1>15 DEF TakeBack, Taking, Postings
  <2>2. CASE Goto(w, "recheck") /\ UNCHANGED <<ride, txn, charged, posted, crashes>>
    <3>1. Knows(job[w])'
      BY <1>1, <1>2, <2>2, <1>15 DEF TakeBack, Taking, Knows, Way, Postings
    <3>. QED  BY <2>2, <3>1, Alone, ClaimsStay, OneWorker DEF Grow, IInv
  <2>. QED  BY <2>1, <2>2, <1>15 DEF TakeBack
<1>16. CASE Recheck(w)
  <2>1. UNCHANGED <<ride, posted>>  BY <1>16 DEF Recheck
  <2>2. PICK pc \in Way : Goto(w, pc) /\ pc \in {Returned(j.method), "liability"}
    BY <1>16 DEF Recheck, Returned, Way, Postings
  <2>3. Knows(job[w])'
    BY <1>1, <1>2, <2>2, <1>16 DEF Recheck, Returned, Knows, Way, Postings
  <2>. QED  BY <2>1, <2>3, Alone, ClaimsStay, OneWorker DEF Grow, IInv
<1>17. CASE RecordLiability(w)
  <2>1. PICK pc \in Way : Post(w, pc) /\ j.pc = "liability" /\ pc \in {"reversal", "refundOut"}
    BY <1>17 DEF RecordLiability, Way, Postings, Recovered
  <2>2. j.pc \in Postings  BY <2>1 DEF Postings
  <2>3. job'[w].pc = pc /\ job'[w].method = j.method  BY <1>2, <2>1, <2>2 DEF Post, Way
  <2>4. ride' = ride /\ charged' = charged /\ posted' = posted \union {j.pc}  BY <2>1 DEF Post
  <2>5. Knows(job[w])'
    BY <1>1, <2>1, <2>3, <2>4 DEF Knows, DueHad, Funded, Had
  <2>. QED  BY <1>1, <2>1, <2>2, <2>5, PostKeeps DEF Knows
<1>18. CASE ReturnToPlatform(w)
  <2>1. PICK pc \in Way :
          Post(w, pc) /\ j.pc \in {"earningIn", "fundingIn"} /\ pc = Recovered(j.method)
    BY <1>18 DEF ReturnToPlatform, Way, Postings, Recovered
  <2>2. j.pc \in Postings  BY <2>1 DEF Postings
  <2>3. job'[w].pc = pc /\ job'[w].method = j.method  BY <1>2, <2>1, <2>2 DEF Post, Way
  <2>4. ride' = ride /\ charged' = charged /\ posted' = posted \union {j.pc}  BY <2>1 DEF Post
  <2>5. Knows(job[w])'
    BY <1>1, <2>1, <2>3, <2>4 DEF Knows, DueHad, Funded, Had, Recovered
  <2>. QED  BY <1>1, <2>1, <2>2, <2>5, PostKeeps DEF Knows
<1>19. CASE RefundCustomer(w)
  <2>1. PICK pc \in Way :
          Post(w, pc) /\ <<j.pc, pc>> \in {<<"refundOut", "refund">>, <<"refund", "refunded">>}
    BY <1>19 DEF RefundCustomer, Way, Postings
  <2>2. j.pc \in Postings  BY <2>1 DEF Postings
  <2>3. job'[w].pc = pc /\ job'[w].method = j.method  BY <1>2, <2>1, <2>2 DEF Post, Way
  <2>4. ride' = ride /\ charged' = charged /\ posted' = posted \union {j.pc}  BY <2>1 DEF Post
  <2>5. Knows(job[w])'
    BY <1>1, <2>1, <2>3, <2>4 DEF Knows, DueHad, Funded, Had
  <2>. QED  BY <1>1, <2>1, <2>2, <2>5, PostKeeps DEF Knows
<1>20. CASE ReverseAccrual(w)
  <2>1. PICK pc \in Way : Post(w, pc) /\ j.pc = "reversal" /\ pc = "refunded"
    BY <1>20 DEF ReverseAccrual, Way, Postings
  <2>2. j.pc \in Postings  BY <2>1 DEF Postings
  <2>3. job'[w].pc = pc /\ job'[w].method = j.method  BY <1>2, <2>1, <2>2 DEF Post, Way
  <2>4. ride' = ride /\ charged' = charged /\ posted' = posted \union {j.pc}  BY <2>1 DEF Post
  <2>5. Knows(job[w])'
    BY <1>1, <2>1, <2>3, <2>4 DEF Knows, DueHad, Funded, Had
  <2>. QED  BY <1>1, <2>1, <2>2, <2>5, PostKeeps DEF Knows
<1>21. CASE ClaimRefund(w)
  <2>1. Knows(job[w])'
    BY <1>1, <1>2, <1>21 DEF ClaimRefund, Become, Idle, Knows, TypeOK, Way, Postings
  <2>2. UNCHANGED <<charged, posted>>  BY <1>21 DEF ClaimRefund
  <2>3. StatusIsMoney'
    BY <1>1, <2>2, <1>21 DEF ClaimRefund, Knows, IInv, StatusIsMoney, TypeOK, Ride
  <2>4. FareIsFunded' /\ RefundIsRecovered'
    BY <2>2 DEF IInv, FareIsFunded, RefundIsRecovered
  <2>. QED  BY <2>1, <2>2, <2>3, <2>4, Alone, OneWorker DEF Grow, IInv
<1>. QED
  BY <1>3, <1>4, <1>5, <1>6, <1>7, <1>8, <1>9, <1>10, <1>11, <1>12, <1>13, <1>14, <1>15,
     <1>16, <1>17, <1>18, <1>19, <1>20, <1>21 DEF Step

LEMMA NextKeeps == ASSUME IInv, [Next]_vars PROVE IInv'
<1>1. CASE Next
  <2>1. Grow  BY <1>1, StepTypes DEF IInv
  <2>2. ASSUME NEW w \in Workers, Crash(w) PROVE IInv'
    <3>1. UNCHANGED <<ride, posted>> /\ Knows(job[w])'
      BY <2>2 DEF Crash, Become, Idle, Knows, IInv, TypeOK
    <3>. QED  BY <2>1, <2>2, <3>1, Alone, ClaimsStay, OneWorker DEF Grow, IInv
  <2>3. ASSUME NEW t \in Txns, CustomerPays(t) PROVE IInv'
    <3>1. UNCHANGED <<ride, posted, job>> /\ charged \subseteq charged'
      BY <2>3 DEF CustomerPays
    <3>2. \A w \in Workers : Knows(job[w])'  BY <2>1, <3>1, KnowledgeStays DEF IInv
    <3>. QED  BY <2>1, <3>1, <3>2, ClaimsStay DEF Grow, IInv
  <2>. QED  BY <1>1, <2>1, <2>2, <2>3, RequestKeeps, StepKeeps DEF Next
<1>2. CASE UNCHANGED vars
  BY <1>2 DEF vars, IInv, TypeOK, Knows, DueHad, Funded, Had, StatusIsMoney, FareIsFunded,
     RefundIsRecovered
<1>. QED  BY <1>1, <1>2

\* The inductive invariant holds in every reachable state.
THEOREM RidePaymentInvariant == Spec => []IInv
  BY InitIInv, NextKeeps, PTL DEF Spec

\* The row, the transactions, the postings and the handlers always have their types.
THEOREM RidePaymentTypes == Spec => []TypeOK
<1>1. IInv => TypeOK  BY DEF IInv
<1>. QED  BY <1>1, RidePaymentInvariant, PTL

\* A PAID ride has brought the driver his due, a REFUNDED one has given it back, with any
\* number of handlers at once and wherever they die (markPaid and refundRide write last).
THEOREM StatusTellsMoney == Spec => []StatusIsMoney
<1>1. IInv => StatusIsMoney  BY DEF IInv
<1>. QED  BY <1>1, RidePaymentInvariant, PTL

\* No fare is captured or paid out that the customer did not pay, and no customer is
\* refunded before the driver's share came back or became a debt (payWithWallet debits
\* first, verifyPayment asks the gateway first, refundWalletCapturedRide claws back first).
THEOREM MoneyIsAlwaysCovered == Spec => []MoneyIsCovered
<1>1. IInv => MoneyIsCovered  BY DEF IInv, MoneyIsCovered
<1>. QED  BY <1>1, RidePaymentInvariant, PTL

-------------------------------------------------------------------------------
\* Serial handlers. Before a handler that pays has made the posting that settles the
\* ride, the ride is not PAID and nobody settled it, unless it was refunded since.
Refunded == posted \intersect {"refund", "reversal"} # {}
Untouched == posted \intersect {"commission", "earning"} = {} \/ Refunded

Paying == {"cash", "open", "choose", "failed", "ask", "claim", "reject",
           "fare", "capture", "earningOut", "earning", "commission"}
Closing == {"fundingOut", "funding", "paid"}

SerialKnows(j) ==
  /\ j.pc \in Paying \union Closing => ride.pay # "PAID"
  /\ j.pc \in Paying /\ crashes = 0 => Untouched
  /\ j.pc = "close" => Refunded

Settled ==
  /\ ride.pay = "PAID" => (IF ride.method = "CASH" THEN "commission" ELSE "earning") \in posted
  /\ crashes = 0 /\ {"commission", "earning"} \subseteq posted => Refunded

SerialIInv ==
  /\ \A v, w \in Busy : v = w
  /\ Settled
  /\ \A w \in Workers : SerialKnows(job[w])
  /\ Busy = {} /\ ride.pay # "PAID" /\ crashes = 0 => Untouched

MCIInv == IInv /\ (serial => SerialIInv)

\* The handler that takes a step is the only one in progress.
LEMMA SerialAlone ==
  ASSUME TypeOK, SerialIInv, NEW w \in Workers, job[w] # Idle \/ job'[w] # Idle,
         \A v \in Workers \ {w} : job'[v] = job[v], \A u, v \in Busy' : u = v,
         Settled', SerialKnows(job[w])',
         job'[w] = Idle /\ ride'.pay # "PAID" /\ crashes' = 0 => Untouched'
  PROVE  SerialIInv'
<1>1. \A v \in Workers \ {w} : job'[v] = Idle
  BY DEF SerialIInv, Busy
<1>2. \A v \in Workers : SerialKnows(job[v])'
  BY <1>1 DEF SerialKnows, Idle, Paying, Closing
<1>3. Busy' = {} => job'[w] = Idle
  BY DEF Busy
<1>. QED  BY <1>2, <1>3 DEF SerialIInv

\* A request finds every handler at rest.
LEMMA SerialRequest ==
  ASSUME IInv, SerialIInv, NEW w \in Workers, Request(w), \A u, v \in Busy' : u = v
  PROVE  SerialIInv'
<1>1. UNCHANGED <<ride, posted, crashes>> /\ job[w] = Idle
  BY DEF Request, PayWithWallet, SelectCash, InitiateGateway, ConfirmCash, RefundRide, Verify
<1>2. /\ job'[w].pc \in Paying \union Taking \union {"reversal"}
      /\ job'[w].pc \in Paying => ride.pay # "PAID"
  BY DEF Request, PayWithWallet, SelectCash, InitiateGateway, ConfirmCash, RefundRide, Verify,
     Payable, Become, At, Taken, Taking, Recovered, Paying, IInv, TypeOK
<1>3. job'[w] # Idle /\ job'[w].pc \notin Closing \union {"close"}
  BY <1>2 DEF Idle, Paying, Closing, Taking
<1>4. \A v \in Workers \ {w} : job'[v] = job[v]
  BY Alone DEF IInv
<1>5. Busy = {}
  BY <1>1, <1>3, <1>4 DEF Busy
<1>6. SerialKnows(job[w])'
  BY <1>1, <1>2, <1>3, <1>5 DEF SerialIInv, SerialKnows, Untouched, Refunded
<1>7. Settled'
  BY <1>1 DEF SerialIInv, Settled, Refunded
<1>. QED  BY <1>3, <1>4, <1>6, <1>7, SerialAlone DEF IInv

\* What a step does to the row and the postings, by where its handler stands.
LEMMA PayingSerial ==
  ASSUME IInv, SerialIInv, NEW w \in Workers, Step(w), \A u, v \in Busy' : u = v,
         job[w].pc \in Paying, ride'.pay \in {ride.pay, "FAILED"},
         posted \subseteq posted', posted' \subseteq posted \union {"fare", "capture", "earningOut"},
         job'[w].pc \in Paying \union {"idle"},
         crashes' = crashes
  PROVE  SerialIInv'
<1>1. ride'.pay # "PAID" /\ (crashes = 0 => Untouched')
  BY DEF SerialIInv, SerialKnows, Untouched, Refunded
<1>2. Settled'
  BY <1>1 DEF SerialIInv, Settled, Refunded
<1>3. SerialKnows(job[w])'
  BY <1>1 DEF SerialKnows, Paying, Closing
<1>4. job[w] # Idle
  BY DEF Idle, Paying
<1>. QED  BY <1>1, <1>2, <1>3, <1>4, Alone, SerialAlone DEF IInv

LEMMA ClosingSerial ==
  ASSUME IInv, SerialIInv, NEW w \in Workers, Step(w), \A u, v \in Busy' : u = v,
         job[w].pc \in {"earning", "commission", "fundingOut", "funding"}, ride' = ride,
         posted' = posted \union {job[w].pc}, job'[w].pc \in Closing,
         crashes' = crashes
  PROVE  SerialIInv'
<1>1. ride.pay # "PAID"
  BY DEF SerialIInv, SerialKnows, Paying, Closing
<1>2. Settled'
  <2>1. CASE job[w].pc \in {"earning", "commission"}
    <3>1. crashes = 0 => Untouched
      BY <2>1 DEF SerialIInv, SerialKnows, Paying
    <3>. QED  BY <1>1, <2>1, <3>1 DEF Settled, Untouched, Refunded
  <2>2. CASE job[w].pc \in {"fundingOut", "funding"}
    BY <1>1, <2>2 DEF SerialIInv, Settled, Refunded
  <2>. QED  BY <2>1, <2>2
<1>3. SerialKnows(job[w])' /\ job[w] # Idle /\ job'[w] # Idle
  BY <1>1 DEF SerialKnows, Paying, Closing, Idle
<1>. QED  BY <1>2, <1>3, Alone, SerialAlone DEF IInv

LEMMA RefundingSerial ==
  ASSUME IInv, SerialIInv, NEW w \in Workers, Step(w), \A u, v \in Busy' : u = v,
         ride' = ride, posted \subseteq posted',
         posted' \intersect {"commission", "earning"} = posted \intersect {"commission", "earning"},
         job'[w].pc \in Way \ (Paying \union Closing \union {"close"}),
         crashes' = crashes
  PROVE  SerialIInv'
<1>1. Settled'
  BY DEF SerialIInv, Settled, Refunded
<1>2. SerialKnows(job[w])' /\ job'[w] # Idle
  BY DEF SerialKnows, Idle, Way, Postings
<1>. QED  BY <1>1, <1>2, Alone, SerialAlone DEF IInv

LEMMA SerialStep ==
  ASSUME IInv, SerialIInv, NEW w \in Workers, Step(w), \A u, v \in Busy' : u = v
  PROVE  SerialIInv'
<1>. DEFINE j == job[w]
<1>1. Knows(j) /\ SerialKnows(j) /\ TypeOK /\ j \in Job /\ posted \in SUBSET Postings
  BY DEF IInv, SerialIInv, TypeOK
<1>c. crashes' = crashes
  BY Unhurt DEF IInv
<1>2. ASSUME NEW pc \in Way, j.pc \in Way, Goto(w, pc)
      PROVE  job'[w].pc = pc /\ job'[w].method = j.method
  BY <1>2, OnItsWay, <1>1 DEF Goto, Become, TypeOK
<1>3. ASSUME NEW pc \in Way, j.pc \in Postings, Post(w, pc)
      PROVE  /\ job'[w].pc = pc /\ ride' = ride /\ posted' = posted \union {j.pc}
  <2>1. j.pc \in Way  BY <1>3 DEF Way
  <2>. QED  BY <1>2, <1>3, <2>1 DEF Post
<1>4. CASE DebitFare(w) \/ Capture(w)
  <2>1. CASE \E pc \in {"capture", "earningOut"} : Post(w, pc)
    <3>1. PICK pc \in {"capture", "earningOut"} : Post(w, pc)  BY <2>1
    <3>2. j.pc \in {"fare", "capture"}  BY <1>4 DEF DebitFare, Capture
    <3>3. pc \in Way /\ j.pc \in Postings /\ pc \in Paying /\ j.pc \in Paying
      BY <3>2 DEF Way, Postings, Paying
    <3>4. job'[w].pc = pc /\ ride' = ride /\ posted' = posted \union {j.pc}
      BY <1>3, <3>1, <3>3
    <3>. QED  BY <3>2, <3>3, <3>4, <1>c, PayingSerial
  <2>2. CASE Become(w, [pc |-> "failed"]) /\ UNCHANGED <<ride, txn, charged, posted, crashes>>
    <3>1. job'[w].pc = "failed" /\ j.pc \in {"fare", "capture"}
      BY <1>1, <1>4, <2>2 DEF Become, TypeOK, DebitFare, Capture
    <3>2. j.pc \in Paying /\ job'[w].pc \in Paying  BY <3>1 DEF Paying
    <3>. QED  BY <2>2, <3>2, <1>c, PayingSerial
  <2>. QED  BY <1>4, <2>1, <2>2 DEF DebitFare, Capture
<1>5. CASE MarkFailed(w) \/ ChooseMethod(w) \/ OpenTransaction(w) \/ RejectTransaction(w)
  <2>1. /\ j.pc \in {"failed", "cash", "choose", "open", "reject"} /\ posted' = posted
        /\ ride'.pay \in {ride.pay, "FAILED"}
    BY <1>1, <1>5
       DEF MarkFailed, ChooseMethod, OpenTransaction, RejectTransaction, TypeOK, Ride
  <2>2. job'[w].pc \in {"idle", "choose", "failed"}
    BY <1>1, <1>5
       DEF MarkFailed, ChooseMethod, OpenTransaction, RejectTransaction, TypeOK, Become, Idle
  <2>3. j.pc \in Paying /\ job'[w].pc \in Paying \union {"idle"}
    BY <2>1, <2>2 DEF Paying
  <2>. QED  BY <2>1, <2>3, <1>c, PayingSerial
<1>6. CASE Ask(w) \/ ClaimTransaction(w)
  <2>1. j.pc \in {"ask", "claim"} /\ posted' = posted /\ ride' = ride
    BY <1>6 DEF Ask, ClaimTransaction
  <2>2. job'[w].pc \in {"claim", "reject", "idle", "capture"}
    BY <1>1, <1>6, <2>1 DEF Ask, ClaimTransaction, TypeOK, Goto, Become, Idle, At, Job
  <2>3. j.pc \in Paying /\ job'[w].pc \in Paying \union {"idle"}
    BY <2>1, <2>2 DEF Paying
  <2>. QED  BY <2>1, <2>3, <1>c, PayingSerial
<1>7. CASE PayoutDriver(w)
  <2>1. CASE j.pc = "earningOut" /\ Post(w, "earning")
    <3>1. "earning" \in Way /\ j.pc \in Postings /\ {"earning", j.pc} \subseteq Paying
      BY <2>1 DEF Way, Postings, Paying
    <3>2. job'[w].pc = "earning" /\ ride' = ride /\ posted' = posted \union {j.pc}
      BY <1>3, <2>1, <3>1
    <3>. QED  BY <2>1, <3>1, <3>2, <1>c, PayingSerial
  <2>2. CASE j.pc = "earning" /\ Post(w, "paid")
    <3>1. "paid" \in Way /\ j.pc \in Postings /\ "paid" \in Closing
      BY <2>2 DEF Way, Postings, Closing
    <3>2. job'[w].pc = "paid" /\ ride' = ride /\ posted' = posted \union {j.pc}
      BY <1>3, <2>2, <3>1
    <3>. QED  BY <2>2, <3>1, <3>2, <1>c, ClosingSerial
  <2>. QED  BY <1>7, <2>1, <2>2 DEF PayoutDriver
<1>8. CASE AccrueCommission(w) \/ FundPromotion(w)
  <2>1. PICK pc \in {"fundingOut", "funding", "paid"} :
          Post(w, pc) /\ j.pc \in {"commission", "fundingOut", "funding"}
    BY <1>8 DEF AccrueCommission, FundPromotion
  <2>2. pc \in Way /\ j.pc \in Postings /\ pc \in Closing
    BY <2>1 DEF Way, Postings, Closing
  <2>3. job'[w].pc = pc /\ ride' = ride /\ posted' = posted \union {j.pc}
    BY <1>3, <2>1, <2>2
  <2>. QED  BY <2>1, <2>2, <2>3, <1>c, ClosingSerial
<1>9. CASE MarkPaid(w)
  <2>1. j.pc = "paid" /\ posted' = posted /\ job'[w] = Idle
    BY <1>1, <1>9 DEF MarkPaid, Become, TypeOK
  <2>2. ride.pay # "PAID" /\ DueHad(j.method)
    BY <1>1, <2>1 DEF SerialKnows, Knows, Closing
  <2>3. ride'.pay = "PAID" /\ ride'.method = j.method
    BY <1>1, <1>9, <2>2 DEF MarkPaid, TypeOK, Ride
  <2>4. Settled'
    BY <1>c, <2>1, <2>2, <2>3 DEF SerialIInv, Settled, Refunded, DueHad
  <2>5. SerialKnows(job[w])' /\ j # Idle
    BY <2>1 DEF SerialKnows, Idle, Paying, Closing
  <2>. QED  BY <2>3, <2>4, <2>5, <1>c, Alone, SerialAlone DEF IInv
<1>10. CASE RecordLiability(w) \/ ReturnToPlatform(w) \/ RefundCustomer(w) \/ ReverseAccrual(w)
  <2>1. PICK pc \in {"reversal", "refundOut", "refund", "refunded"} :
          /\ Post(w, pc)
          /\ j.pc \in {"liability", "earningIn", "fundingIn", "refundOut", "refund", "reversal"}
    BY <1>10 DEF RecordLiability, ReturnToPlatform, RefundCustomer, ReverseAccrual, Recovered
  <2>2. pc \in Way \ (Paying \union Closing \union {"close"}) /\ j.pc \in Postings
    BY <2>1 DEF Way, Postings, Paying, Closing
  <2>3. job'[w].pc = pc /\ ride' = ride /\ posted' = posted \union {j.pc}
    BY <1>3, <2>1, <2>2
  <2>. QED  BY <2>1, <2>2, <2>3, <1>c, RefundingSerial
<1>11. CASE TakeBack(w)
  <2>1. CASE Post(w, Returned(j.method))
    <3>1. PICK pc \in {"earningIn", "fundingIn"} : Post(w, pc) /\ j.pc \in Taking
      BY <1>11, <2>1 DEF TakeBack, Returned
    <3>2. pc \in Way \ (Paying \union Closing \union {"close"}) /\ j.pc \in Postings
      BY <3>1 DEF Way, Postings, Paying, Closing, Taking
    <3>3. job'[w].pc = pc /\ ride' = ride /\ posted' = posted \union {j.pc}
      BY <1>3, <3>1, <3>2
    <3>. QED  BY <3>1, <3>2, <3>3, <1>c, RefundingSerial DEF Taking
  <2>2. CASE Goto(w, "recheck") /\ UNCHANGED <<ride, txn, charged, posted, crashes>>
    <3>1. j.pc \in Way /\ "recheck" \in Way \ (Paying \union Closing \union {"close"})
      BY <1>11 DEF TakeBack, Taking, Way, Postings, Paying, Closing
    <3>2. job'[w].pc = "recheck"
      BY <1>2, <2>2, <3>1
    <3>. QED  BY <2>2, <3>1, <3>2, <1>c, RefundingSerial
  <2>. QED  BY <1>11, <2>1, <2>2 DEF TakeBack
<1>12. CASE Recheck(w)
  <2>1. PICK pc \in {"earningIn", "fundingIn", "liability"} : Goto(w, pc)
    BY <1>12 DEF Recheck, Returned
  <2>2. j.pc \in Way /\ pc \in Way \ (Paying \union Closing \union {"close"})
    BY <1>12 DEF Recheck, Way, Postings, Paying, Closing
  <2>3. job'[w].pc = pc
    BY <1>2, <2>1, <2>2
  <2>. QED  BY <1>12, <2>2, <2>3, <1>c, RefundingSerial DEF Recheck
<1>13. CASE ClaimRefund(w)
  <2>1. Refunded /\ posted' = posted /\ j.pc = "refunded"
    BY <1>1, <1>13 DEF ClaimRefund, Knows, Refunded
  <2>2. /\ job'[w].pc \in {"close", "idle"} /\ j # Idle
        /\ (ride'.pay = "REFUNDED" \/ ride' = ride)
    <3>1. CASE ride.pay = "PAID"
      <4>1. Goto(w, "close") /\ ride'.pay = "REFUNDED"
        BY <1>1, <1>13, <3>1 DEF ClaimRefund, TypeOK, Ride
      <4>2. j.pc \in Way /\ "close" \in Way
        BY <2>1 DEF Way
      <4>. QED  BY <1>2, <2>1, <4>1, <4>2 DEF Idle
    <3>2. CASE ride.pay # "PAID"
      BY <1>1, <1>13, <2>1, <3>2 DEF ClaimRefund, Become, TypeOK, Idle
    <3>. QED  BY <3>1, <3>2
  <2>3. Settled' /\ Untouched' /\ SerialKnows(job[w])'
    BY <1>c, <2>1, <2>2
       DEF SerialIInv, Settled, Untouched, Refunded, SerialKnows, Paying, Closing
  <2>. QED  BY <2>2, <2>3, <1>c, Alone, SerialAlone DEF IInv
<1>14. CASE CloseTransactions(w)
  <2>1. Refunded /\ UNCHANGED <<posted, ride>> /\ j.pc = "close" /\ job'[w] = Idle
    BY <1>1, <1>14 DEF CloseTransactions, SerialKnows, Become, TypeOK
  <2>2. Settled' /\ Untouched' /\ SerialKnows(job[w])' /\ j # Idle
    BY <1>c, <2>1
       DEF SerialIInv, Settled, Untouched, Refunded, SerialKnows, Paying, Closing, Idle
  <2>. QED  BY <2>2, <1>c, Alone, SerialAlone DEF IInv
<1>. QED
  BY <1>4, <1>5, <1>6, <1>7, <1>8, <1>9, <1>10, <1>11, <1>12, <1>13, <1>14 DEF Step

LEMMA MCStep == MCIInv /\ [MCNext]_<<vars, serial>> => MCIInv'
<1>. SUFFICES ASSUME MCIInv, [MCNext]_<<vars, serial>> PROVE MCIInv'
  OBVIOUS
<1>1. IInv /\ IInv'
  BY NextKeeps DEF MCIInv, MCNext
<1>2. ASSUME MCNext, serial' PROVE SerialIInv'
  <2>1. SerialIInv /\ Next /\ (\A u, v \in Busy' : u = v)
    BY <1>2 DEF MCIInv, MCNext, InScene
  <2>2. ASSUME NEW w \in Workers, Crash(w) PROVE SerialIInv'
    <3>1. UNCHANGED <<ride, posted>> /\ crashes' # 0 /\ job[w] # Idle /\ job'[w] = Idle
          /\ \A v \in Workers \ {w} : job'[v] = job[v]
      BY <1>1, <2>2, RidePaymentsConfig DEF Crash, Become, IInv, TypeOK
    <3>2. Settled' /\ SerialKnows(job[w])'
      BY <2>1, <3>1 DEF SerialIInv, Settled, SerialKnows, Paying, Closing, Idle
    <3>. QED  BY <1>1, <2>1, <3>1, <3>2, SerialAlone DEF IInv
  <2>3. ASSUME NEW t \in Txns, CustomerPays(t) PROVE SerialIInv'
    BY <2>1, <2>3 DEF CustomerPays, SerialIInv, SerialKnows, Settled, Untouched, Refunded, Busy
  <2>. QED  BY <1>1, <2>1, <2>2, <2>3, SerialRequest, SerialStep DEF Next
<1>3. ASSUME UNCHANGED <<vars, serial>>, serial' PROVE SerialIInv'
  BY <1>3 DEF vars, MCIInv, SerialIInv, SerialKnows, Settled, Untouched, Refunded, Busy
<1>. QED  BY <1>1, <1>2, <1>3 DEF MCIInv

\* While handlers do not overlap, a paid ride bears a method it was paid by, wherever
\* handlers die; and while none dies, the driver is not both paid and charged for a ride
\* that was not refunded.
THEOREM PaidByItsMethod == MCSpec => []SettledByMethod
<1>1. MCInit => MCIInv
  <2>. SUFFICES ASSUME MCInit PROVE MCIInv
    OBVIOUS
  <2>1. SerialIInv
    BY DEF MCInit, Init, SerialIInv, Busy, Settled, SerialKnows, Untouched, Refunded, Idle,
       Paying, Closing
  <2>. QED  BY <2>1, InitIInv DEF MCInit, MCIInv
<1>2. MCIInv => SettledByMethod
  BY DEF MCIInv, SerialIInv, Settled, SettledByMethod, Refunded
<1>. QED  BY <1>1, <1>2, MCStep, PTL DEF MCSpec

===============================================================================
