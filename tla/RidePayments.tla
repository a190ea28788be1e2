----------------------------- MODULE RidePayments -----------------------------
(***************************************************************************)
(* rides/ride-payment.service.ts: how a completed ride is paid, in cash,   *)
(* from the wallet or at the gateway, and how Operations refund it. One    *)
(* ride; of the money of other rides only this is seen, that a wallet      *)
(* covers a debit or does not.                                             *)
(*                                                                         *)
(* Money moves by postings to wallets and to the driver's commission       *)
(* account. Each bears the ride as its reference, so that it is made at    *)
(* most once however often it is asked for: "posted" is a set. A handler   *)
(* is job[w] of the worker w that runs it; where it is about to make a     *)
(* posting, its pc is the name of the posting. A handler that pays or      *)
(* refunds carries the method it works for. Commission and earning are     *)
(* taken to be above zero.                                                 *)
(***************************************************************************)
EXTENDS Integers, FiniteSets

CONSTANTS Txns,       \* the transactions the gateway may open for the ride
          Workers,
          MaxCrashes  \* bound: handlers that die half-way

ASSUME RidePaymentsConfig == MaxCrashes \in Nat

VARIABLES ride,       \* the row: paymentMethod, paymentStatus, whether a coupon was redeemed
          txn,        \* status of each ride_payment_transaction
          charged,    \* transactions the customer has paid at the gateway
          posted,     \* postings made for the ride
          job, crashes

vars == <<ride, txn, charged, posted, job, crashes>>

Methods == {"WALLET", "CASH", "GATEWAY"}  \* PAYSTACK and FLUTTERWAVE are one
Ride == [method : {"NONE"} \union Methods, pay : {"PENDING", "PAID", "FAILED", "REFUNDED"},
         coupon : BOOLEAN]

\* RIDE_WALLET_REFERENCE_TYPES and the references of the commission account. Money goes
\* from the first of a pair to the second.
Postings ==
  {"fare", "capture",             \* customer to platform
   "earningOut", "earning",       \* platform to driver
   "fundingOut", "funding",       \* platform to driver, for the coupon of a ride paid in cash
   "earningBack", "earningIn",    \* and back, when the ride is refunded
   "fundingBack", "fundingIn",
   "refundOut", "refund",         \* platform to customer
   "commission", "reversal",      \* what the driver owes, and no longer owes
   "liability"}                   \* what a driver's wallet could not give back

Idle == [pc |-> "idle"]
Job ==
  {Idle}
    \union [pc : {"cash", "open", "choose", "failed"}]
    \union [pc : {"ask", "claim", "reject"}, txn : Txns]
    \union [pc : Postings \union {"paid", "recheck", "refunded", "close"}, method : Methods]

Become(w, j) == job' = [job EXCEPT ![w] = j]
At(pc, method) == [pc |-> pc, method |-> method]
Goto(w, pc) == Become(w, [job[w] EXCEPT !.pc = pc])

\* A posting, or, if it was made before, nothing; then the handler goes on.
Post(w, next) ==
  /\ posted' = posted \union {job[w].pc}
  /\ Goto(w, next)
  /\ UNCHANGED <<ride, txn, charged, crashes>>

Init ==
  /\ ride \in [method : {"NONE"}, pay : {"PENDING"}, coupon : BOOLEAN]
  /\ txn = [t \in Txns |-> "NONE"]
  /\ charged = {} /\ posted = {}
  /\ job = [w \in Workers |-> Idle] /\ crashes = 0

-------------------------------------------------------------------------------
\* requirePayableRide: a ride that was refunded passes.
Payable == ride.pay # "PAID"

\* payWithWallet
PayWithWallet(w) ==
  /\ job[w] = Idle /\ Payable
  /\ Become(w, At("fare", "WALLET"))
  /\ UNCHANGED <<ride, txn, charged, posted, crashes>>

\* The wallet takes the fare, or throws: it does not cover it, or changed meanwhile.
DebitFare(w) ==
  /\ job[w].pc = "fare"
  /\ \/ Post(w, "capture")
     \/ Become(w, [pc |-> "failed"]) /\ UNCHANGED <<ride, txn, charged, posted, crashes>>

\* markFailed: by id, whatever became of the ride.
MarkFailed(w) ==
  /\ job[w].pc = "failed"
  /\ ride' = [ride EXCEPT !.pay = "FAILED"]
  /\ Become(w, Idle)
  /\ UNCHANGED <<txn, charged, posted, crashes>>

\* selectCash: the method is written by id, after the check.
SelectCash(w) ==
  /\ job[w] = Idle /\ Payable
  /\ Become(w, [pc |-> "cash"])
  /\ UNCHANGED <<ride, txn, charged, posted, crashes>>

\* initiateGatewayPayment, likewise; in between the gateway opens a transaction or refuses.
InitiateGateway(w) ==
  /\ job[w] = Idle /\ Payable
  /\ Become(w, [pc |-> "open"])
  /\ UNCHANGED <<ride, txn, charged, posted, crashes>>

OpenTransaction(w) ==
  /\ job[w].pc = "open"
  /\ \/ /\ \E t \in Txns : txn[t] = "NONE" /\ txn' = [txn EXCEPT ![t] = "PENDING"]
        /\ Become(w, [pc |-> "choose"])
     \/ Become(w, Idle) /\ UNCHANGED txn
  /\ UNCHANGED <<ride, charged, posted, crashes>>

ChooseMethod(w) ==
  /\ job[w].pc \in {"cash", "choose"}
  /\ ride' = [ride EXCEPT !.method = IF job[w].pc = "cash" THEN "CASH" ELSE "GATEWAY"]
  /\ Become(w, Idle)
  /\ UNCHANGED <<txn, charged, posted, crashes>>

CustomerPays(t) ==
  /\ txn[t] # "NONE" /\ t \notin charged
  /\ charged' = charged \union {t}
  /\ UNCHANGED <<ride, txn, posted, job, crashes>>

\* verifyPayment, called by the customer who comes back or by the webhook.
Verify(w, t) ==
  /\ job[w] = Idle /\ txn[t] # "NONE"
  /\ ride.pay # "PAID" /\ ride.method = "GATEWAY"
  /\ Become(w, [pc |-> "ask", txn |-> t])
  /\ UNCHANGED <<ride, txn, charged, posted, crashes>>

Ask(w) ==
  /\ job[w].pc = "ask"
  /\ Goto(w, IF job[w].txn \in charged THEN "claim" ELSE "reject")
  /\ UNCHANGED <<ride, txn, charged, posted, crashes>>

RejectTransaction(w) ==
  /\ job[w].pc = "reject"
  /\ txn' = [txn EXCEPT ![job[w].txn] = "FAILED"]
  /\ Become(w, [pc |-> "failed"])
  /\ UNCHANGED <<ride, charged, posted, crashes>>

\* The claim of the transaction: who finds it SUCCESS has lost.
ClaimTransaction(w) == LET t == job[w].txn IN
  /\ job[w].pc = "claim"
  /\ txn' = [txn EXCEPT ![t] = "SUCCESS"]
  /\ Become(w, IF txn[t] = "SUCCESS" THEN Idle ELSE At("capture", "GATEWAY"))
  /\ UNCHANGED <<ride, charged, posted, crashes>>

\* captureIntoPlatformWallet and payoutDriver
Capture(w) == job[w].pc = "capture" /\ Post(w, "earningOut")
SkipPayout(w) ==  \* mutant: the driver is not paid
  \/ job[w].pc = "earningOut" /\ Post(w, "paid")
  \/ job[w].pc = "earning" /\ Post(w, "paid")
PayoutDriver(w) ==
  \/ job[w].pc = "earningOut" /\ Post(w, "earning")
  \/ job[w].pc = "earning" /\ Post(w, "paid")

\* confirmCash, by the driver; fundDriverPromotion if there was a coupon.
ConfirmPaid(w) ==  \* mutant: of a ride that is paid as well
  /\ job[w] = Idle /\ ride.method \in {"CASH", "WALLET"}
  /\ Become(w, At("commission", "CASH"))
  /\ UNCHANGED <<ride, txn, charged, posted, crashes>>
ConfirmCash(w) ==
  /\ job[w] = Idle /\ ride.method = "CASH" /\ ride.pay # "PAID"
  /\ Become(w, At("commission", "CASH"))
  /\ UNCHANGED <<ride, txn, charged, posted, crashes>>

AccrueCommission(w) ==
  job[w].pc = "commission" /\ Post(w, IF ride.coupon THEN "fundingOut" ELSE "paid")
FundPromotion(w) ==
  \/ job[w].pc = "fundingOut" /\ Post(w, "funding")
  \/ job[w].pc = "funding" /\ Post(w, "paid")

\* markPaid: only a ride that is not PAID, but a refunded one again.
MarkPaid(w) ==
  /\ job[w].pc = "paid"
  /\ ride' = IF ride.pay = "PAID" THEN ride
             ELSE [ride EXCEPT !.pay = "PAID", !.method = job[w].method]
  /\ Become(w, Idle)
  /\ UNCHANGED <<txn, charged, posted, crashes>>

-------------------------------------------------------------------------------
Taking == {"earningBack", "fundingBack"}
Taken(method) == IF method = "CASH" THEN "fundingBack" ELSE "earningBack"
Returned(method) == IF method = "CASH" THEN "fundingIn" ELSE "earningIn"
Recovered(method) == IF method = "CASH" THEN "reversal" ELSE "refundOut"

\* refundRide, by the method the row has. First the driver gives back (of a ride in cash,
\* only what the coupon brought him), then the customer gets back, or the driver's debt
\* is lifted; last the ride is claimed.
RefundRide(w) == LET method == ride.method IN
  /\ job[w] = Idle /\ ride.pay = "PAID" /\ method # "NONE"
  /\ Become(w, At(IF method # "CASH" \/ ride.coupon THEN Taken(method) ELSE Recovered(method),
                  method))
  /\ UNCHANGED <<ride, txn, charged, posted, crashes>>

\* clawBackDriverEarning, clawBackPromotionFunding: the driver's wallet gives the money
\* back or does not cover it. Then, unless another refund took it meanwhile, the driver
\* owes it.
TakeBack(w) ==
  /\ job[w].pc \in Taking
  /\ \/ Post(w, Returned(job[w].method))
     \/ job[w].pc \notin posted /\ Goto(w, "recheck")
        /\ UNCHANGED <<ride, txn, charged, posted, crashes>>

Recheck(w) == LET method == job[w].method IN
  /\ job[w].pc = "recheck"
  /\ Goto(w, IF Taken(method) \in posted THEN Returned(method) ELSE "liability")
  /\ UNCHANGED <<ride, txn, charged, posted, crashes>>

ForgiveShortfall(w) ==  \* mutant: what the driver cannot give back is not recorded
  /\ job[w].pc = "liability"
  /\ Goto(w, Recovered(job[w].method))
  /\ UNCHANGED <<ride, txn, charged, posted, crashes>>
RecordLiability(w) == job[w].pc = "liability" /\ Post(w, Recovered(job[w].method))
ReturnToPlatform(w) ==
  job[w].pc \in {"earningIn", "fundingIn"} /\ Post(w, Recovered(job[w].method))

RefundCustomer(w) ==
  \/ job[w].pc = "refundOut" /\ Post(w, "refund")
  \/ job[w].pc = "refund" /\ Post(w, "refunded")
ReverseAccrual(w) == job[w].pc = "reversal" /\ Post(w, "refunded")

ClaimRefund(w) ==
  /\ job[w].pc = "refunded"
  /\ IF ride.pay = "PAID"
     THEN ride' = [ride EXCEPT !.pay = "REFUNDED"] /\ Goto(w, "close")
     ELSE ride' = ride /\ Become(w, Idle)
  /\ UNCHANGED <<txn, charged, posted, crashes>>

CloseTransactions(w) ==
  /\ job[w].pc = "close"
  /\ txn' = [t \in Txns |-> IF txn[t] = "SUCCESS" THEN "REFUNDED" ELSE txn[t]]
  /\ Become(w, Idle)
  /\ UNCHANGED <<ride, charged, posted, crashes>>

\* A statement throws, or the process that runs the handler ends.
Crash(w) ==
  /\ job[w] # Idle /\ crashes < MaxCrashes
  /\ crashes' = crashes + 1
  /\ Become(w, Idle)
  /\ UNCHANGED <<ride, txn, charged, posted>>

-------------------------------------------------------------------------------
Request(w) ==
  \/ PayWithWallet(w) \/ SelectCash(w) \/ InitiateGateway(w) \/ ConfirmCash(w) \/ RefundRide(w)
  \/ \E t \in Txns : Verify(w, t)

Step(w) ==
  \/ DebitFare(w) \/ MarkFailed(w) \/ OpenTransaction(w) \/ ChooseMethod(w)
  \/ Ask(w) \/ RejectTransaction(w) \/ ClaimTransaction(w)
  \/ Capture(w) \/ PayoutDriver(w) \/ AccrueCommission(w) \/ FundPromotion(w) \/ MarkPaid(w)
  \/ TakeBack(w) \/ Recheck(w) \/ RecordLiability(w) \/ ReturnToPlatform(w)
  \/ RefundCustomer(w) \/ ReverseAccrual(w) \/ ClaimRefund(w) \/ CloseTransactions(w)

Next ==
  \/ \E w \in Workers : Request(w) \/ Step(w) \/ Crash(w)
  \/ \E t \in Txns : CustomerPays(t)

Spec == Init /\ [][Next]_vars

-------------------------------------------------------------------------------
TypeOK ==
  /\ ride \in Ride
  /\ txn \in [Txns -> {"NONE", "PENDING", "FAILED", "SUCCESS", "REFUNDED"}]
  /\ charged \in SUBSET Txns /\ posted \in SUBSET Postings
  /\ job \in [Workers -> Job]
  /\ crashes \in 0..MaxCrashes

\* The status of the ride is written last: a ride is PAID when the driver has his due,
\* in whatever way he came by it, and REFUNDED when the customer has the money back or
\* the driver no longer owes the commission (markPaid, refundRide).
StatusIsMoney ==
  /\ ride.pay = "PAID" => \/ {"capture", "earning"} \subseteq posted
                          \/ "commission" \in posted /\ (ride.coupon => "funding" \in posted)
  /\ ride.pay = "REFUNDED" => posted \intersect {"refund", "reversal"} # {}

\* A fare is counted as received, and paid out to the driver, only if the customer paid it.
FareIsFunded ==
  posted \intersect {"capture", "earningOut", "earning"} # {} =>
    "fare" \in posted \/ charged # {}

\* The customer is refunded only after the driver's share came back or was recorded as
\* owed (refundWalletCapturedRide: "it must recover the driver's share before").
RefundIsRecovered ==
  posted \intersect {"refundOut", "refund"} # {} =>
    posted \intersect {"earningIn", "liability"} # {}

\* The platform pays nobody from a ride before somebody else paid for it, whatever
\* handlers run at once and wherever they stop (payWithWallet, verifyPayment, refundRide).
MoneyIsCovered == FareIsFunded /\ RefundIsRecovered
===============================================================================
