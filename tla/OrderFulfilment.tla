---------------------------- MODULE OrderFulfilment ----------------------------
(***************************************************************************)
(* What becomes of a confirmed order: the merchant's actions, the rider's, *)
(* disputes and auto-completion, the recovery of orders nobody advances,   *)
(* refunds, and the merchant's settlement.                                 *)
(*                                                                         *)
(* All orders are for delivery. Domain events are dispatched in the        *)
(* process that emits them: events holds those whose handler has not begun.*)
(* A posting (refunded, deducted, paidOut, takenBack) is made once per     *)
(* order, by the reference of its ledger entry, however often it is asked  *)
(* for. Every order is worth something to its merchant.                    *)
(***************************************************************************)
EXTENDS OrderPayments

CONSTANT Activated  \* RECOVERY_ACTIVATION_AT is set; the code ships without it

ASSUME FulfilmentConfig == Activated \in BOOLEAN

VARIABLES delivery,    \* status of the delivery job
          dispute,     \* status of the order's dispute
          case,        \* the recovery case
          settlement,  \* status of the order_settlement row
          refunded,    \* orders whose customer's wallet was credited back
          told,        \* history: how often a customer was told of his refund
          deducted,    \* the share of the merchant's credit that went into his commission debt
          paidOut,     \* orders whose merchant was credited, or charged the commission
          takenBack,   \* orders for which that was reversed
          events

rider == <<delivery, dispute>>
merchant == <<deducted, paidOut, takenBack>>
ledgers == <<refunded, told, merchant>>
fulfilVars == <<rider, case, settlement, ledgers, events>>
vars == <<paymentVars, fulfilVars>>

\* What the actions of a part leave alone.
ExceptOrder == UNCHANGED <<cart, txn, received, crashes>>
ExceptJob == UNCHANGED <<order, cart, txn, received, crashes>>

Case == [status : {"NONE", "PENDING", "AWAITING_FINANCIAL_RETRY", "AWAITING_INVESTIGATION",
                   "CLOSED"},
         outcome : {"OPEN", "REVERSAL_FAILED", "REVERSAL_CONFIRMED"}]
Shares == {"NONE", "PART", "ALL"}
Event == [name : {"READY", "CASH_CONFIRMED", "COMPLETED", "REFUNDED"}, id : Orders]

Actor == {"OPERATOR", "AUTOMATIC"}
FulfilJob ==
  PaymentJob
    \union [pc : {"dispute", "disputed", "resolve", "resolved", "complete", "raise",
                  "adminRefund", "markRefunded", "dispatch", "accrue", "payDebt", "credit",
                  "settled", "settleFailed", "reversed"}, id : Orders]
    \union [pc : {"insertRow", "takeBack"}, id : Orders, method : Methods]
    \union [pc : {"advance"}, id : Orders, to : {"PREPARING", "READY"}]
    \union [pc : {"markPaid"}, id : Orders, status : Statuses, again : BOOLEAN]
    \union [pc : {"refund"}, id : Orders, tell : BOOLEAN]
    \union [pc : {"callOff"}, id : Orders, paid : BOOLEAN, tell : BOOLEAN]
    \union [pc : {"claim", "cancelCase", "caseStatus"}, id : Orders, by : Actor,
            pay : Pays, method : Methods]
    \union [pc : {"readReversal", "reverse"}, id : Orders]
    \union [pc : {"reverseMark", "closeCase"}, id : Orders, applied : BOOLEAN]

Emit(name, o) == events' = events \union {[name |-> name, id |-> o]}

Init ==
  /\ PaymentsInit
  /\ delivery = [o \in Orders |-> "NONE"] /\ dispute = [o \in Orders |-> "NONE"]
  /\ case = [o \in Orders |-> [status |-> "NONE", outcome |-> "OPEN"]]
  /\ settlement = [o \in Orders |-> "NONE"]
  /\ refunded = {} /\ told = [o \in Orders |-> 0]
  /\ deducted = [o \in Orders |-> "NONE"] /\ paidOut = {} /\ takenBack = {} /\ events = {}

-------------------------------------------------------------------------------
\* acceptOrder, markReady, delayOrder: each reads the order in one status and writes one.
Advance(w, o, from, to) ==
  /\ job[w] = Idle /\ order[o].status = from
  /\ Become(w, [pc |-> "advance", id |-> o, to |-> to])
  /\ ExceptJob /\ UNCHANGED fulfilVars

AdvanceWrite(w) == LET j == job[w] IN
  /\ j.pc = "advance"
  /\ Transition(j.id, [order[j.id] EXCEPT !.status = j.to])
  /\ \/ j.to = "READY" /\ Emit("READY", j.id)
     \/ j.to # "READY" /\ UNCHANGED events
  /\ Become(w, Idle)
  /\ ExceptOrder /\ UNCHANGED <<rider, case, settlement, ledgers>>

\* rejectOrder (which tells of its refund) and cancelOrder.
CallOff(w, o, from, tell) ==
  /\ job[w] = Idle /\ order[o].status \in from
  /\ Become(w, IF order[o].pay = "PAID" THEN [pc |-> "refund", id |-> o, tell |-> tell]
               ELSE [pc |-> "callOff", id |-> o, paid |-> FALSE, tell |-> FALSE])
  /\ ExceptJob /\ UNCHANGED fulfilVars

Refund(w) == LET j == job[w] IN
  /\ j.pc = "refund"
  /\ refunded' = refunded \union {j.id}
  /\ Become(w, [pc |-> "callOff", id |-> j.id, paid |-> TRUE,
                tell |-> j.tell /\ j.id \notin refunded])
  /\ ExceptJob /\ UNCHANGED <<rider, case, settlement, told, merchant, events>>

CallOffWriteRefunded(w) == LET j == job[w] IN  \* mutant: an object is always truthy
  /\ j.pc = "callOff"
  /\ Transition(j.id, [order[j.id] EXCEPT !.status = "CANCELLED", !.pay = "REFUNDED"])
  /\ told' = [told EXCEPT ![j.id] = @ + IF j.tell THEN 1 ELSE 0]
  /\ Become(w, Idle)
  /\ ExceptOrder
  /\ UNCHANGED <<rider, case, settlement, refunded, merchant, events>>

CallOffWrite(w) == LET j == job[w] IN
  /\ j.pc = "callOff"
  /\ Transition(j.id, [order[j.id] EXCEPT !.status = "CANCELLED",
                                          !.pay = IF j.paid THEN "REFUNDED" ELSE @])
  /\ told' = [told EXCEPT ![j.id] = @ + IF j.tell THEN 1 ELSE 0]
  /\ Become(w, Idle)
  /\ ExceptOrder
  /\ UNCHANGED <<rider, case, settlement, refunded, merchant, events>>

\* confirmPaymentReceived: the merchant's word. An order that was ready is offered to
\* the dispatch again.
ConfirmReceived(w, o) ==
  /\ job[w] = Idle
  /\ order[o].method = "MERCHANT_DIRECT" /\ order[o].pay # "PAID"
  /\ Become(w, [pc |-> "markPaid", id |-> o, status |-> order[o].status,
                again |-> order[o].status = "READY"])
  /\ received' = [received EXCEPT ![o] = @ \union {"merchant"}]
  /\ UNCHANGED <<order, cart, txn, crashes>> /\ UNCHANGED fulfilVars

\* The payment, with the status that was read.
PaidWrite(w) == LET j == job[w] IN
  /\ j.pc = "markPaid"
  /\ Transition(j.id, [order[j.id] EXCEPT !.status = j.status, !.pay = "PAID"])
  /\ \/ j.again /\ Emit("READY", j.id)
     \/ ~j.again /\ UNCHANGED events
  /\ Become(w, Idle)
  /\ ExceptOrder /\ UNCHANGED <<rider, case, settlement, ledgers>>

-------------------------------------------------------------------------------
\* The subscriber of ORDER_READY: createDeliveryJob. A courier is found at once.
Dispatch(w, o) ==
  /\ job[w] = Idle /\ [name |-> "READY", id |-> o] \in events
  /\ events' = events \ {[name |-> "READY", id |-> o]}
  /\ Become(w, IF /\ order[o].status = "READY" /\ delivery[o] = "NONE"
                  /\ order[o].method = "CASH" \/ order[o].pay = "PAID"
               THEN At(o, "dispatch") ELSE Idle)
  /\ ExceptJob /\ UNCHANGED <<rider, case, settlement, ledgers>>

CreateDelivery(w) == LET o == job[w].id IN
  /\ job[w].pc = "dispatch"
  /\ delivery' = [delivery EXCEPT ![o] = "ASSIGNED"]
  /\ Become(w, Idle)
  /\ ExceptJob /\ UNCHANGED <<dispute, case, settlement, ledgers, events>>

\* acceptJob to deliver: one step per call; they look at the delivery job only.
RiderCall(o, from, to, status) ==
  /\ delivery[o] = from
  /\ delivery' = [delivery EXCEPT ![o] = to]
  /\ Transition(o, [order[o] EXCEPT !.status = status])
  /\ ExceptOrder /\ UNCHANGED <<job, dispute, case, settlement, ledgers, events>>
RiderAccepts(o) == RiderCall(o, "ASSIGNED", "ACCEPTED", "WITH_RIDER")
RiderDelivers(o) == RiderCall(o, "ACCEPTED", "DELIVERED", "DELIVERED")

RiderConfirmsCash(o) ==
  /\ delivery[o] = "DELIVERED" /\ order[o].method = "CASH" /\ "cash" \notin received[o]
  /\ received' = [received EXCEPT ![o] = @ \union {"cash"}]
  /\ Emit("CASH_CONFIRMED", o)
  /\ UNCHANGED <<order, cart, txn, crashes, job, rider, case, settlement, ledgers>>

\* markCashPaymentReceived, in the subscriber of DELIVERY_CASH_CONFIRMED.
MarkCashReceived(w, o) ==
  /\ job[w] = Idle /\ [name |-> "CASH_CONFIRMED", id |-> o] \in events
  /\ events' = events \ {[name |-> "CASH_CONFIRMED", id |-> o]}
  /\ Become(w, IF order[o].pay = "PAID" THEN Idle
               ELSE [pc |-> "markPaid", id |-> o, status |-> order[o].status,
                     again |-> FALSE])
  /\ ExceptJob /\ UNCHANGED <<rider, case, settlement, ledgers>>

\* raiseDispute and resolveDispute: the row of the dispute, then the order.
RaiseDispute(w, o) ==
  /\ job[w] = Idle
  /\ order[o].status = "DELIVERED" /\ dispute[o] # "OPEN"
  /\ Become(w, At(o, "dispute"))
  /\ ExceptJob /\ UNCHANGED fulfilVars

ResolveDispute(w, o) ==
  /\ job[w] = Idle /\ dispute[o] = "OPEN"
  /\ Become(w, At(o, "resolve"))
  /\ ExceptJob /\ UNCHANGED fulfilVars

DisputeRow(w) == LET o == job[w].id IN
  /\ \/ /\ job[w].pc = "dispute"
        /\ dispute' = [dispute EXCEPT ![o] = "OPEN"] /\ Become(w, At(o, "disputed"))
     \/ /\ job[w].pc = "resolve"
        /\ dispute' = [dispute EXCEPT ![o] = "RESOLVED"] /\ Become(w, At(o, "resolved"))
  /\ ExceptJob /\ UNCHANGED <<delivery, case, settlement, ledgers, events>>

DisputeOrder(w) == LET o == job[w].id IN
  /\ \/ job[w].pc = "disputed" /\ Transition(o, [order[o] EXCEPT !.status = "DISPUTED"])
     \/ job[w].pc = "resolved" /\ Transition(o, [order[o] EXCEPT !.status = "COMPLETED"])
  /\ Become(w, Idle)
  /\ ExceptOrder /\ UNCHANGED fulfilVars

\* The completion sweep, one order of its list at a time.
BeginCompletion(w, o) ==
  /\ job[w] = Idle /\ order[o].status = "DELIVERED"
  /\ \A v \in Workers : job[v].pc # "complete"
  /\ Become(w, At(o, "complete"))
  /\ ExceptJob /\ UNCHANGED fulfilVars

Complete(w) == LET o == job[w].id IN
  /\ job[w].pc = "complete"
  /\ Transition(o, [order[o] EXCEPT !.status = "COMPLETED"])
  /\ Emit("COMPLETED", o)
  /\ Become(w, Idle)
  /\ ExceptOrder /\ UNCHANGED <<rider, case, settlement, ledgers>>

-------------------------------------------------------------------------------
\* refundOrder, by an administrator: the wallet, the order, the event.
AdminRefund(w, o) ==
  /\ job[w] = Idle
  /\ order[o].status # "REFUNDED" /\ order[o].pay = "PAID"
  /\ Become(w, At(o, "adminRefund"))
  /\ ExceptJob /\ UNCHANGED fulfilVars

AdminCredit(w) == LET o == job[w].id IN
  /\ job[w].pc = "adminRefund"
  /\ refunded' = refunded \union {o}
  /\ Become(w, At(o, "markRefunded"))
  /\ ExceptJob /\ UNCHANGED <<rider, case, settlement, told, merchant, events>>

AdminMark(w) == LET o == job[w].id IN
  /\ job[w].pc = "markRefunded"
  /\ Transition(o, [order[o] EXCEPT !.status = "REFUNDED", !.pay = "REFUNDED"])
  /\ Emit("REFUNDED", o)
  /\ Become(w, Idle)
  /\ ExceptOrder /\ UNCHANGED <<rider, case, settlement, ledgers>>

-------------------------------------------------------------------------------
\* The exception sweep: an order nobody advanced; one exception per order, ever.
BeginRaise(w, o) ==
  /\ job[w] = Idle
  /\ order[o].status = "CONFIRMED" /\ order[o].exception = "NONE"
  /\ Become(w, At(o, "raise"))
  /\ ExceptJob /\ UNCHANGED fulfilVars

Raise(w) == LET o == job[w].id IN
  /\ job[w].pc = "raise"
  /\ order' = [order EXCEPT ![o].exception = IF @ = "NONE" THEN "OPEN" ELSE @]
  /\ Become(w, Idle)
  /\ ExceptOrder /\ UNCHANGED fulfilVars

\* cancelForRecovery and recoverAutomatically. The sweep, which does nothing before it is
\* activated, takes a batch of orders without a case; any one of them may be next.
Stalled(o) == order[o].status = "CONFIRMED" /\ order[o].exception = "OPEN"
Recover(w, o, by) ==
  /\ job[w] = Idle /\ Stalled(o)
  /\ by = "AUTOMATIC" => Activated /\ case[o].status = "NONE"
  /\ Become(w, [pc |-> "claim", id |-> o, by |-> by, pay |-> order[o].pay,
                method |-> order[o].method])
  /\ ExceptJob /\ UNCHANGED fulfilVars

\* openCase: one case per order. The automatic run abandons a case it did not open.
Claim(w) == LET j == job[w] IN
  /\ j.pc = "claim"
  /\ \/ /\ case[j.id].status = "NONE"
        /\ case' = [case EXCEPT ![j.id].status = "PENDING"]
        /\ Become(w, [j EXCEPT !.pc = "cancelCase"])
     \/ /\ case[j.id].status # "NONE"
        /\ Become(w, IF j.by = "OPERATOR" THEN [j EXCEPT !.pc = "cancelCase"] ELSE Idle)
        /\ UNCHANGED case
  /\ ExceptJob /\ UNCHANGED <<rider, settlement, ledgers, events>>

CancelForRecovery(w) == LET j == job[w] IN
  /\ j.pc = "cancelCase"
  /\ Transition(j.id, [order[j.id] EXCEPT !.status = "CANCELLED"])
  /\ Become(w, [j EXCEPT !.pc = "caseStatus"])
  /\ ExceptOrder /\ UNCHANGED fulfilVars

\* statusAfterCancellation, of the outcome and the investigation the payment calls for.
StatusAfterCancellation(method, pay) ==
  IF method = "MERCHANT_DIRECT" \/ (method = "GATEWAY" /\ pay = "PAID")
  THEN "AWAITING_INVESTIGATION"
  ELSE IF method = "WALLET" /\ pay = "PAID" THEN "AWAITING_FINANCIAL_RETRY" ELSE "CLOSED"

CaseStatus(w) == LET j == job[w] IN
  /\ j.pc = "caseStatus"
  /\ case' = [case EXCEPT ![j.id].status = StatusAfterCancellation(j.method, j.pay)]
  /\ Become(w, IF j.by = "AUTOMATIC" /\ j.method = "WALLET" /\ j.pay = "PAID"
               THEN At(j.id, "readReversal") ELSE Idle)
  /\ ExceptJob /\ UNCHANGED <<rider, settlement, ledgers, events>>

\* reverseWalletForRecovery, which the automatic run calls too.
Reversible(o) ==
  /\ order[o].status = "CANCELLED" /\ case[o].status # "NONE"
  /\ order[o].method = "WALLET" /\ order[o].pay \in {"PAID", "REFUNDED"}

ReverseByOperator(w, o) ==
  /\ job[w] = Idle /\ Reversible(o)
  /\ Become(w, At(o, "reverse"))
  /\ ExceptJob /\ UNCHANGED fulfilVars

ReadReversal(w) == LET o == job[w].id IN
  /\ job[w].pc = "readReversal"
  /\ Become(w, IF Reversible(o) THEN At(o, "reverse") ELSE Idle)
  /\ ExceptJob /\ UNCHANGED fulfilVars

\* The credit is made, or was made before, or fails and parks the case.
Reverse(w) == LET o == job[w].id IN
  /\ job[w].pc = "reverse"
  /\ \/ /\ refunded' = refunded \union {o}
        /\ Become(w, [pc |-> "reverseMark", id |-> o, applied |-> o \notin refunded])
        /\ UNCHANGED case
     \/ /\ case' = [case EXCEPT ![o] = [status |-> "AWAITING_FINANCIAL_RETRY",
                                        outcome |-> "REVERSAL_FAILED"]]
        /\ Become(w, Idle)
        /\ UNCHANGED refunded
  /\ ExceptJob /\ UNCHANGED <<rider, settlement, told, merchant, events>>

\* markOrderRefunded leaves the status alone.
ReverseMark(w) == LET j == job[w] IN
  /\ j.pc = "reverseMark"
  /\ order' = [order EXCEPT ![j.id].pay = "REFUNDED"]
  /\ Become(w, [j EXCEPT !.pc = "closeCase"])
  /\ ExceptOrder /\ UNCHANGED fulfilVars

CloseCase(w) == LET j == job[w] IN
  /\ j.pc = "closeCase"
  /\ case' = [case EXCEPT ![j.id] = [status |-> "CLOSED", outcome |-> "REVERSAL_CONFIRMED"]]
  /\ told' = [told EXCEPT ![j.id] = @ + IF j.applied THEN 1 ELSE 0]
  /\ Become(w, Idle)
  /\ ExceptJob /\ UNCHANGED <<rider, settlement, refunded, merchant, events>>

-------------------------------------------------------------------------------
\* settleOrder, in the subscriber of ORDER_COMPLETED.
Settleable(o) ==
  /\ order[o].status = "COMPLETED"
  /\ order[o].method = "MERCHANT_DIRECT" \/ order[o].pay = "PAID"

Settling(o, pc) == [pc |-> pc, id |-> o, method |-> order[o].method]
BeginSettlement(w, o) ==
  /\ job[w] = Idle /\ [name |-> "COMPLETED", id |-> o] \in events
  /\ events' = events \ {[name |-> "COMPLETED", id |-> o]}
  /\ Become(w, IF Settleable(o) THEN Settling(o, "insertRow") ELSE Idle)
  /\ ExceptJob /\ UNCHANGED <<rider, case, settlement, ledgers>>

SetSettlement(o, s) == settlement' = [settlement EXCEPT ![o] = s]

\* The row, and what its method calls for: the commission of an offline sale accrues; the
\* credit of an online one first pays off the merchant's commission debt.
PayOutOf(method) ==
  CASE method \in Offline -> "accrue" [] method = "NONE" -> "credit" [] OTHER -> "payDebt"
InsertRow(w) == LET j == job[w] IN
  /\ j.pc = "insertRow"
  /\ \/ /\ settlement[j.id] = "NONE"
        /\ SetSettlement(j.id, "PENDING") /\ Become(w, At(j.id, PayOutOf(j.method)))
     \/ settlement[j.id] # "NONE" /\ UNCHANGED settlement /\ Become(w, Idle)
  /\ ExceptJob /\ UNCHANGED <<rider, case, ledgers, events>>

\* applyAutomaticDeduction: nothing is owed, or a part or all of the credit goes into the
\* debt; when all of it does, no credit follows. Its retries are over when it throws.
PayDebt(w) == LET o == job[w].id IN
  /\ job[w].pc = "payDebt"
  /\ \/ \E share \in IF deducted[o] = "NONE" THEN Shares ELSE {deducted[o]} :
          /\ deducted' = [deducted EXCEPT ![o] = share]
          /\ Become(w, At(o, IF share = "ALL" THEN "settled" ELSE "credit"))
     \/ Become(w, At(o, "settleFailed")) /\ UNCHANGED deducted
  /\ ExceptJob
  /\ UNCHANGED <<rider, case, settlement, refunded, told, paidOut, takenBack, events>>

\* A credit of the wallet, or an accrual of the commission; either may throw.
PayOut(w) == LET o == job[w].id IN
  /\ job[w].pc \in {"accrue", "credit"}
  /\ \/ paidOut' = paidOut \union {o} /\ Become(w, At(o, "settled"))
     \/ Become(w, At(o, "settleFailed")) /\ UNCHANGED paidOut
  /\ ExceptJob
  /\ UNCHANGED <<rider, case, settlement, refunded, told, deducted, takenBack, events>>

\* The row is closed. What throws after a posting, before the row says COMPLETED or after,
\* makes the settlement FAILED although it was paid.
CloseSettlement(w) == LET o == job[w].id IN
  /\ \/ job[w].pc = "settled" /\ SetSettlement(o, "COMPLETED") /\ Become(w, Idle)
     \/ /\ job[w].pc = "settled" /\ Become(w, At(o, "settleFailed"))
        /\ UNCHANGED settlement \/ SetSettlement(o, "COMPLETED")
     \/ job[w].pc = "settleFailed" /\ SetSettlement(o, "FAILED") /\ Become(w, Idle)
     \/ job[w].pc = "reversed" /\ SetSettlement(o, "REVERSED") /\ Become(w, Idle)
  /\ ExceptJob /\ UNCHANGED <<rider, case, ledgers, events>>

\* reverseSettlement, in the subscriber of ORDER_REFUNDED.
ReversalDueAlways(o) == TRUE  \* mutant: the status is not looked at
ReversalDue(o) == settlement[o] = "COMPLETED"
BeginReversal(w, o) ==
  /\ job[w] = Idle /\ [name |-> "REFUNDED", id |-> o] \in events
  /\ events' = events \ {[name |-> "REFUNDED", id |-> o]}
  /\ Become(w, IF ReversalDue(o) THEN Settling(o, "takeBack") ELSE Idle)
  /\ ExceptJob /\ UNCHANGED <<rider, case, settlement, ledgers>>

\* Of an online sale only the credit is taken back: what was deducted stays deducted, and
\* when that was all, the wallet refuses to debit nothing. The merchant's wallet may not
\* hold the amount any more either. When it throws the event is lost.
TakeBack(w) == LET j == job[w] IN
  /\ j.pc = "takeBack"
  /\ \/ /\ j.method \in Offline \/ deducted[j.id] # "ALL"
        /\ takenBack' = takenBack \union {j.id} /\ Become(w, At(j.id, "reversed"))
     \/ Become(w, Idle) /\ UNCHANGED takenBack
  /\ ExceptJob
  /\ UNCHANGED <<rider, case, settlement, refunded, told, deducted, paidOut, events>>

\* The process ends: every handler, and the events nobody took up.
Restart ==
  /\ events # {} /\ crashes < MaxCrashes
  /\ crashes' = crashes + 1
  /\ events' = {} /\ job' = [w \in Workers |-> Idle]
  /\ UNCHANGED <<order, cart, txn, received, rider, case, settlement, ledgers>>

-------------------------------------------------------------------------------
FulfilStep(w) ==
  \/ AdvanceWrite(w) \/ Refund(w) \/ CallOffWrite(w) \/ PaidWrite(w) \/ CreateDelivery(w)
  \/ DisputeRow(w) \/ DisputeOrder(w) \/ Complete(w) \/ AdminCredit(w) \/ AdminMark(w)
  \/ Raise(w) \/ Claim(w) \/ CancelForRecovery(w) \/ CaseStatus(w)
  \/ ReadReversal(w) \/ Reverse(w) \/ ReverseMark(w) \/ CloseCase(w)
  \/ InsertRow(w) \/ PayDebt(w) \/ PayOut(w) \/ CloseSettlement(w) \/ TakeBack(w)

FulfilRequest(w, o) ==
  \/ Advance(w, o, "CONFIRMED", "PREPARING") \/ Advance(w, o, "PREPARING", "READY")
  \/ Advance(w, o, "PREPARING", "PREPARING")
  \/ CallOff(w, o, {"CONFIRMED"}, TRUE)
  \/ CallOff(w, o, {"CONFIRMED", "PREPARING", "READY"}, FALSE)
  \/ ConfirmReceived(w, o) \/ RaiseDispute(w, o) \/ ResolveDispute(w, o)
  \/ AdminRefund(w, o) \/ Recover(w, o, "OPERATOR") \/ ReverseByOperator(w, o)

HandleEvent(w, o) ==
  \/ Dispatch(w, o) \/ MarkCashReceived(w, o) \/ BeginSettlement(w, o) \/ BeginReversal(w, o)

OrderSweep(w, o) ==
  \/ BeginCompletion(w, o) \/ BeginRaise(w, o) \/ Recover(w, o, "AUTOMATIC")

Next ==
  \/ PaymentNext /\ UNCHANGED fulfilVars
  \/ \E w \in Workers :
       \/ \E o \in Orders : FulfilRequest(w, o) \/ HandleEvent(w, o) \/ OrderSweep(w, o)
       \/ FulfilStep(w)
  \/ \E o \in Orders : RiderAccepts(o) \/ RiderDelivers(o) \/ RiderConfirmsCash(o)
  \/ Restart

Spec == Init /\ [][Next]_vars

Step(w) == (PaymentStep(w) /\ UNCHANGED fulfilVars) \/ FulfilStep(w)

\* Handlers and dispatched events run to their end; the cleanup ticks again and again,
\* whatever requests come between.
Cleanup == \E w \in Workers : BeginCleanup(w) /\ UNCHANGED fulfilVars
Handled == \E w \in Workers, o \in Orders : HandleEvent(w, o)

-------------------------------------------------------------------------------
TypeOK ==
  /\ order \in [Orders -> Order]
  /\ cart \in {"ACTIVE", "LOCKED", "CHECKED_OUT"}
  /\ txn \in [Orders -> {"NONE", "PENDING", "SUCCESS", "FAILED"}]
  /\ received \in [Orders -> SUBSET {"wallet", "gateway", "merchant", "cash"}]
  /\ job \in [Workers -> FulfilJob] /\ crashes \in 0..MaxCrashes
  /\ delivery \in [Orders -> {"NONE", "ASSIGNED", "ACCEPTED", "DELIVERED"}]
  /\ dispute \in [Orders -> {"NONE", "OPEN", "RESOLVED"}]
  /\ case \in [Orders -> Case]
  /\ settlement \in [Orders -> {"NONE", "PENDING", "COMPLETED", "FAILED", "REVERSED"}]
  /\ refunded \in SUBSET Orders /\ told \in [Orders -> Nat]
  /\ deducted \in [Orders -> Shares]
  /\ paidOut \in SUBSET Orders /\ takenBack \in SUBSET Orders
  /\ events \in SUBSET Event

\* An order counts as paid, and is refunded, only if somebody took its money: the wallet,
\* the gateway as it says itself, the rider, or the merchant by his own word
\* (completeSuccessfulPayment, refundOrder, refundIfPaid).
MoneyIsReceived == \A o \in Orders :
  order[o].pay = "PAID" \/ o \in refunded => received[o] # {}

\* A refund that the order's payment state, the recovery case or a message to the
\* customer speaks of is in his wallet's ledger, and he is told of it once
\* (reverseWalletForRecovery, rejectOrder, refundOrder).
RefundIsPosted == \A o \in Orders :
  /\ \/ order[o].pay = "REFUNDED" \/ case[o].outcome = "REVERSAL_CONFIRMED" \/ told[o] > 0
     => o \in refunded
  /\ told[o] <= 1

\* Behind a settlement that is completed stands a credit or an accrual, or a deduction that
\* left nothing to credit; it is taken back only then, and for an order whose customer has
\* his money back, and no row says REVERSED before that (settleOrder, reverseSettlement).
Settled(o) == o \in paidOut \/ deducted[o] = "ALL"
SettlementIsPosted == \A o \in Orders :
  /\ settlement[o] \in {"COMPLETED", "REVERSED"} => Settled(o)
  /\ settlement[o] = "REVERSED" => o \in takenBack
  /\ o \in takenBack => Settled(o) /\ o \in refunded
===============================================================================
