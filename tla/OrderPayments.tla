----------------------------- MODULE OrderPayments -----------------------------
(***************************************************************************)
(* From a cart to a confirmed order: orders/checkout.service.ts, the       *)
(* reservations and their cleanup, and payments/payment.service.ts.        *)
(*                                                                         *)
(* All orders here come from one cart. A handler is job[w] of the worker w *)
(* that runs it: it reads the order first and writes it, by id alone and   *)
(* whatever became of it meanwhile, steps later. A reservation is "held",  *)
(* "late" once its 30 minutes are over, or "gone". The gateway opens one   *)
(* transaction per order (bound).                                          *)
(***************************************************************************)
EXTENDS Integers, FiniteSets

CONSTANTS Orders, Workers,
          MaxCrashes  \* bound: handlers that die half-way

ASSUME PaymentsConfig == MaxCrashes \in Nat

VARIABLES order,     \* the order rows, each with its reservation and its exception
          cart,      \* status of the cart
          txn,       \* status of the order's payment_transaction
          received,  \* history: where the money of an order came in
          job, crashes

paymentVars == <<order, cart, txn, received, job, crashes>>

\* DRIVER_ASSIGNED, PICKED_UP and IN_TRANSIT are one status, "WITH_RIDER".
Statuses == {"NONE", "PENDING", "CONFIRMED", "PREPARING", "READY", "WITH_RIDER", "DELIVERED",
             "DISPUTED", "COMPLETED", "CANCELLED", "REFUNDED"}
Offline == {"CASH", "MERCHANT_DIRECT"}
Methods == {"NONE", "WALLET", "GATEWAY"} \union Offline
Pays == {"PENDING", "PAID", "FAILED", "REFUNDED"}

Order == [status : Statuses, pay : Pays, method : Methods, hold : {"held", "late", "gone"},
          exception : {"NONE", "OPEN", "RESOLVED"}]
NoOrder == [status |-> "NONE", pay |-> "PENDING", method |-> "NONE", hold |-> "gone",
            exception |-> "NONE"]

Idle == [pc |-> "idle"]
CleanupJob == [pc : {"cleanup"}, todo : SUBSET Orders]
PaymentJob ==
  {Idle} \union CleanupJob
    \union [pc : {"create", "reserve", "lock", "debit", "initiate", "choose", "paid", "failed",
                  "deduct", "checkout", "release", "cancel"}, id : Orders]
    \union [pc : {"ask"}, id : Orders, payable : BOOLEAN]
    \union [pc : {"finalize"}, id : Orders, method : Methods, pay : Pays]
    \union [pc : {"cart", "unlock"}, then : {Idle} \union CleanupJob]

Become(w, j) == job' = [job EXCEPT ![w] = j]
At(o, pc) == [pc |-> pc, id |-> o]

\* OrdersRepository.transition: an update by id; an order it leaves in another status
\* than CONFIRMED has its open exception resolved (a statement of its own in the code).
TransitionOnly(o, new) == order' = [order EXCEPT ![o] = new]  \* mutant: nothing resolved
Transition(o, new) ==
  order' = [order EXCEPT ![o] =
              [new EXCEPT !.exception =
                 IF new.status # "CONFIRMED" /\ @ = "OPEN" THEN "RESOLVED" ELSE @]]
Hold(o, hold) == order' = [order EXCEPT ![o].hold = hold]

PaymentsInit ==
  /\ order = [o \in Orders |-> NoOrder]
  /\ cart = "ACTIVE"
  /\ txn = [o \in Orders |-> "NONE"]
  /\ received = [o \in Orders |-> {}]
  /\ job = [w \in Workers |-> Idle] /\ crashes = 0

-------------------------------------------------------------------------------
\* checkout: an order, its reservations, the lock of the cart. A cart that is locked
\* already hands its pending order back and changes nothing.
CheckoutOfLocked(w, o) ==  \* mutant: the status of the cart is not looked at
  /\ job[w] = Idle
  /\ order[o] = NoOrder /\ \A v \in Workers : job[v] # At(o, "create")
  /\ Become(w, At(o, "create"))
  /\ UNCHANGED <<order, cart, txn, received, crashes>>

Checkout(w, o) ==
  /\ job[w] = Idle /\ cart = "ACTIVE"
  /\ order[o] = NoOrder /\ \A v \in Workers : job[v] # At(o, "create")
  /\ Become(w, At(o, "create"))
  /\ UNCHANGED <<order, cart, txn, received, crashes>>

CreateOrder(w) == LET o == job[w].id IN
  /\ job[w].pc = "create"
  /\ Transition(o, [NoOrder EXCEPT !.status = "PENDING"])
  /\ Become(w, At(o, "reserve"))
  /\ UNCHANGED <<cart, txn, received, crashes>>

Reserve(w) == LET o == job[w].id IN
  /\ job[w].pc = "reserve"
  /\ Hold(o, "held")
  /\ Become(w, At(o, "lock"))
  /\ UNCHANGED <<cart, txn, received, crashes>>

LockCart(w) ==
  /\ job[w].pc = "lock"
  /\ cart' = "LOCKED"
  /\ Become(w, Idle)
  /\ UNCHANGED <<order, txn, received, crashes>>

\* RESERVATION_TTL_MS goes by.
HoldEnds(o) ==
  /\ order[o].hold = "held"
  /\ Hold(o, "late")
  /\ UNCHANGED <<cart, txn, received, job, crashes>>

-------------------------------------------------------------------------------
\* assertOrderStillPayable
Payable(o) ==
  /\ order[o].status = "PENDING" /\ order[o].pay # "PAID"
  /\ order[o].hold = "held"

Finalizing(o, method, pay) == [pc |-> "finalize", id |-> o, method |-> method, pay |-> pay]

PayWithWallet(w, o) ==
  /\ job[w] = Idle /\ Payable(o)
  /\ Become(w, At(o, "debit"))
  /\ UNCHANGED <<order, cart, txn, received, crashes>>

\* The wallet refuses, or debits once per order however often it is asked.
Debit(w) == LET o == job[w].id IN
  /\ job[w].pc = "debit"
  /\ \/ /\ received' = [received EXCEPT ![o] = @ \union {"wallet"}]
        /\ Become(w, Finalizing(o, "WALLET", "PAID"))
     \/ Become(w, Idle) /\ UNCHANGED received
  /\ UNCHANGED <<order, cart, txn, crashes>>

\* selectCashOnDelivery, selectMerchantDirect
SelectOffline(w, o, method) ==
  /\ job[w] = Idle /\ Payable(o)
  /\ Become(w, Finalizing(o, method, "PENDING"))
  /\ UNCHANGED <<order, cart, txn, received, crashes>>

InitiateGateway(w, o) ==
  /\ job[w] = Idle /\ Payable(o)
  /\ txn[o] = "NONE" /\ \A v \in Workers : job[v] # At(o, "initiate")
  /\ Become(w, At(o, "initiate"))
  /\ UNCHANGED <<order, cart, txn, received, crashes>>

OpenTransaction(w) == LET o == job[w].id IN
  /\ job[w].pc = "initiate"
  /\ txn' = [txn EXCEPT ![o] = "PENDING"]
  /\ Become(w, At(o, "choose"))
  /\ UNCHANGED <<order, cart, received, crashes>>

\* The method, together with the status the order had when it was read.
ChooseGateway(w) == LET o == job[w].id IN
  /\ job[w].pc = "choose"
  /\ Transition(o, [order[o] EXCEPT !.status = "PENDING", !.method = "GATEWAY"])
  /\ Become(w, Idle)
  /\ UNCHANGED <<cart, txn, received, crashes>>

CustomerPays(o) ==
  /\ txn[o] # "NONE" /\ "gateway" \notin received[o]
  /\ received' = [received EXCEPT ![o] = @ \union {"gateway"}]
  /\ UNCHANGED <<order, cart, txn, job, crashes>>

\* verifyPayment and the webhook that announces a success: both read the transaction
\* and the order, then ask the gateway.
Verify(w, o) ==
  /\ job[w] = Idle
  /\ txn[o] \in {"PENDING", "FAILED"}
  /\ Become(w, [pc |-> "ask", id |-> o, payable |-> Payable(o)])
  /\ UNCHANGED <<order, cart, txn, received, crashes>>

VerifiedAlways(o) == TRUE  \* mutant: the word of the webhook
Verified(o) == "gateway" \in received[o]
Ask(w) == LET o == job[w].id IN
  /\ job[w].pc = "ask"
  /\ Become(w, IF ~Verified(o) THEN At(o, "failed")
               ELSE IF job[w].payable THEN At(o, "paid") ELSE Idle)
  /\ UNCHANGED <<order, cart, txn, received, crashes>>

\* The webhook of an attempt that failed; it may come late, and again.
FailureWebhook(w, o) ==
  /\ job[w] = Idle
  /\ txn[o] \in {"PENDING", "FAILED"}
  /\ Become(w, At(o, "failed"))
  /\ UNCHANGED <<order, cart, txn, received, crashes>>

MarkFailed(w) == LET o == job[w].id IN
  /\ job[w].pc = "failed"
  /\ txn' = [txn EXCEPT ![o] = "FAILED"]
  /\ Become(w, Idle)
  /\ UNCHANGED <<order, cart, received, crashes>>

MarkSuccess(w) == LET o == job[w].id IN
  /\ job[w].pc = "paid"
  /\ txn' = [txn EXCEPT ![o] = "SUCCESS"]
  /\ Become(w, Finalizing(o, "NONE", "PAID"))
  /\ UNCHANGED <<order, cart, received, crashes>>

\* finalizeOrderConfirmation; the gateway's method was written before.
Finalize(w) == LET j == job[w] IN
  /\ j.pc = "finalize"
  /\ Transition(j.id, [order[j.id] EXCEPT !.status = "CONFIRMED", !.pay = j.pay,
                         !.method = IF j.method = "NONE" THEN @ ELSE j.method])
  /\ Become(w, At(j.id, "deduct"))
  /\ UNCHANGED <<cart, txn, received, crashes>>

Deduct(w) == LET o == job[w].id IN
  /\ job[w].pc = "deduct"
  /\ Hold(o, "gone")
  /\ Become(w, At(o, "checkout"))
  /\ UNCHANGED <<cart, txn, received, crashes>>

CheckOut(w) ==
  /\ job[w].pc = "checkout"
  /\ cart' = "CHECKED_OUT"
  /\ Become(w, Idle)
  /\ UNCHANGED <<order, txn, received, crashes>>

-------------------------------------------------------------------------------
\* cancelCustomerOrder: release, cancel, unlock.
CancelByCustomer(w, o) ==
  /\ job[w] = Idle /\ order[o].status = "PENDING"
  /\ Become(w, At(o, "release"))
  /\ UNCHANGED <<order, cart, txn, received, crashes>>

Release(w) == LET o == job[w].id IN
  /\ job[w].pc = "release"
  /\ Hold(o, "gone")
  /\ Become(w, At(o, "cancel"))
  /\ UNCHANGED <<cart, txn, received, crashes>>

Unlocking(then) == [pc |-> "cart", then |-> then]

CancelWrite(w) == LET o == job[w].id IN
  /\ job[w].pc = "cancel"
  /\ Transition(o, [order[o] EXCEPT !.status = "CANCELLED"])
  /\ Become(w, Unlocking(Idle))
  /\ UNCHANGED <<cart, txn, received, crashes>>

\* The cart is read, and set to ACTIVE if it was LOCKED.
ReadCart(w) == LET j == job[w] IN
  /\ j.pc = "cart"
  /\ Become(w, IF cart = "LOCKED" THEN [j EXCEPT !.pc = "unlock"] ELSE j.then)
  /\ UNCHANGED <<order, cart, txn, received, crashes>>

Unlock(w) ==
  /\ job[w].pc = "unlock"
  /\ cart' = "ACTIVE"
  /\ Become(w, job[w].then)
  /\ UNCHANGED <<order, txn, received, crashes>>

\* runCleanup: the unpaid orders of late reservations are listed, then cancelled one by
\* one with their carts unlocked; in the end all late reservations are released.
ExpiredPaid(o) ==  \* mutant: only orders whose payment was begun
  order[o].status = "PENDING" /\ order[o].pay = "PENDING" /\ order[o].hold = "late"
    /\ order[o].method # "NONE"
Expired(o) == order[o].status = "PENDING" /\ order[o].pay = "PENDING" /\ order[o].hold = "late"
Cleaning(j) == j.pc = "cleanup" \/ (j.pc \in {"cart", "unlock"} /\ j.then # Idle)

BeginCleanup(w) ==
  /\ job[w] = Idle /\ \A v \in Workers : ~Cleaning(job[v])
  /\ \E o \in Orders : order[o].hold = "late"
  /\ Become(w, [pc |-> "cleanup", todo |-> {o \in Orders : Expired(o)}])
  /\ UNCHANGED <<order, cart, txn, received, crashes>>

ExpireOrder(w) == LET j == job[w] IN
  /\ j.pc = "cleanup"
  /\ \E o \in j.todo :
       /\ Transition(o, [order[o] EXCEPT !.status = "CANCELLED", !.pay = "FAILED"])
       /\ Become(w, Unlocking([j EXCEPT !.todo = @ \ {o}]))
  /\ UNCHANGED <<cart, txn, received, crashes>>

ReleaseExpired(w) ==
  /\ job[w].pc = "cleanup" /\ job[w].todo = {}
  /\ order' = [o \in Orders |-> [order[o] EXCEPT !.hold = IF @ = "late" THEN "gone" ELSE @]]
  /\ Become(w, Idle)
  /\ UNCHANGED <<cart, txn, received, crashes>>

\* A statement throws, or the process that runs the handler ends.
Crash(w) ==
  /\ job[w] # Idle /\ crashes < MaxCrashes
  /\ crashes' = crashes + 1
  /\ Become(w, Idle)
  /\ UNCHANGED <<order, cart, txn, received>>

-------------------------------------------------------------------------------
PaymentStep(w) ==
  \/ CreateOrder(w) \/ Reserve(w) \/ LockCart(w)
  \/ Debit(w) \/ OpenTransaction(w) \/ ChooseGateway(w) \/ Ask(w) \/ MarkFailed(w)
  \/ MarkSuccess(w) \/ Finalize(w) \/ Deduct(w) \/ CheckOut(w)
  \/ Release(w) \/ CancelWrite(w) \/ ReadCart(w) \/ Unlock(w)
  \/ ExpireOrder(w) \/ ReleaseExpired(w)

PaymentRequest(w, o) ==
  \/ Checkout(w, o) \/ PayWithWallet(w, o) \/ InitiateGateway(w, o)
  \/ \E method \in Offline : SelectOffline(w, o, method)
  \/ Verify(w, o) \/ FailureWebhook(w, o) \/ CancelByCustomer(w, o)

PaymentNext ==
  \/ \E w \in Workers :
       \/ \E o \in Orders : PaymentRequest(w, o)
       \/ BeginCleanup(w) \/ PaymentStep(w) \/ Crash(w)
  \/ \E o \in Orders : HoldEnds(o) \/ CustomerPays(o)
===============================================================================
