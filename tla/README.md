# DrippleX backend: TLA+ models and proofs

DrippleX is a marketplace, ride, delivery, booking and bill-payment platform
for Nigeria. Its core is `apps/backend`: a NestJS service over PostgreSQL
(Prisma) that moves people's money and assigns work to drivers, riders and
merchants. The applications (`apps/customer-web`, `driver-portal`, ...) and
`packages/` are clients of it. This directory models the parts of the backend in
which an error costs money or strands a person, and in which several handlers
act on the same rows.

Paths below are relative to `apps/backend/src` unless they say otherwise.

1. [The system](#1-the-system): inventory and interactions
2. [What is modelled](#2-what-is-modelled): modules, state, actions, abstractions
3. [What TLC checks](#3-what-tlc-checks): runs, bounds, fairness
4. [What is proved](#4-what-is-proved): theorems, assumptions, arguments
5. [Where code and comments disagree](#5-where-the-code-and-its-comments-disagree)
6. [Not modelled, and why](#6-not-modelled-and-why)
7. [Plan](#7-plan)

## 1. The system

Every operation runs in a *handler*: an HTTP request, a webhook, a subscriber
of the in-process event bus, or a tick of a `setInterval` sweep. Handlers share
nothing but the database. Between two awaits any other handler may run (in the
same Node process or another), the process may end, or a Prisma call may throw.
What keeps them apart is one of four devices, and each component uses its own mix:

- a guarded update (`updateMany` with the expected status or version in the
  WHERE clause, then a look at the count),
- a unique index (ledger references, one settlement per week),
- a database transaction, which locks the rows it updates,
- nothing: a read, an await, and an `update` by id.

The models are about which of these a component uses where, and whether that is
enough.

### Inventory

| Component | State | Operations | What is hard | What makes it correct |
|---|---|---|---|---|
| Wallet ledger (`wallet/wallet.service.ts`) | `Wallet` rows (available, pending, version), append-only `WalletLedgerEntry` | credit, debit, refund, settlement, cashback, withdrawal, hold, commitHold, releaseHold, transfer | concurrent transactions, retries under a reference, row locks and deadlocks, crashes | balance = ledger; a reference is posted once; a hold ends once; a transfer is whole |
| Ride dispatch and trip (`rides/`) | `Ride`, `RideOffer`, `DriverAvailability.activeRideCount` | request, dispatch, accept, decline, expire, renew, retry, arrive, start, complete, three cancellations | bare updates after reads, the sweep beside requests, double taps, crashes | one driver per ride, one ride per driver, the count is the truth, no search forgotten |
| Ride payment (`rides/ride-payment.service.ts`) | method and payment status of the ride, gateway transactions, postings in three wallets and the commission account | pay by wallet, cash or gateway, verify, confirm cash, refund | a chain of postings before one claim, three methods at once, crashes half-way | the status is the last word on the money; nobody is paid before somebody paid |
| Commission account (`commercial/commission-account.service.ts`) | debt, version, limits, `blocked`; ledger | accrue, recordPayment, reverseAccrual, recordLiability, setNegotiatedCreditLimit, default limit | version conflicts, the block written after the commit by id | debt = ledger; charged once; never overpaid; the block follows the debt |
| Payouts (`wallet/withdrawal.service.ts`, `wallet/payout/`) | `WithdrawalRequest`, wallet, commission debt, the bank | create, settle commission, send, webhook, fail and refund, operator's complete and fail | late, repeated and reordered notices; unknown outcomes; crash between status and refund | the bank sends what was debited; refunds are for what was not paid; no notice is lost |
| Bookings and rooms (`bookings/bookings.service.ts`, `room-inventory.service.ts`) | `RoomAvailability` per night, `Booking` | create, open nights, accept, reject, expire, pay, confirm, check in and out, no-show, release | races for the last room, payment after expiry, rooms released in a second transaction | no night sold twice; every ended booking gives its rooms back once; a code means money |
| Booking settlement (`bookings/booking-settlement.service.ts`) | one `BookingSettlement` per hotel and week | insert the week, claim its stays, credit the hotel, close | two runs, a desk that changes rows meanwhile, crash between claim and credit | a hotel is credited exactly the rows marked |
| Checkout and reservations (`orders/checkout.service.ts`, `orders/inventory/`, `orders/reservation-cleanup.service.ts`) | `Order`, `InventoryReservation`, cart | check out, reserve, lock, cancel, release, expire | the sweep's stale list against payments | cart and stock follow the order; what is unpaid ends |
| Order payments (`payments/`) | `PaymentTransaction`, order payment status | initiate, verify, webhook, wallet payment, cash, refund | webhook and client at once, payment after expiry, debit without confirmation | what counts as paid was paid, what counts as refunded was refunded |
| Order lifecycle and recovery (`orders/`) | `Order`, `OrderException`, recovery cases | accept, ready, delay, reject, cancel, dispute, complete; exception and recovery sweeps | bare transitions, sweeps beside people | an order nobody advances ends; a case belongs to an order that was called off |
| Merchant settlement (`orders/merchant-settlement.service.ts`) | `OrderSettlement` | row, posting, close; reversal | subscribers whose events may be lost, reversal beside settlement | settled means paid, reversed means taken back, for an order that was refunded |
| Delivery (`delivery/delivery.service.ts`, `delivery-dispatch-sweep.service.ts`) | `DeliveryJob`, rejections, couriers' counts | create, assign, accept, reject, carry, deliver, fail, return, cancel, reclaim, redispatch | writes by id after reads, the sweep against acceptance, double taps | a job in the hands of one courier; counts are the truth; a job that waits gets a courier |
| Rider settlement (`delivery/rider-settlement.service.ts`) | `settledAt` of the job | claim, then accrue or credit | two events, the courier's word about cash, crash after the claim | each delivery settled once, with one courier |
| Utility purchases (`utilities/`) | `UtilityPurchase`, the provider, the gateway | purchase by wallet or card, confirm, fulfil, reverse, resolve by hand, sweep | unknown outcome of the provider, four who take up one purchase, verdicts on what is in flight | bought once; refunded only with a ground; delivered or refunded |
| Loyalty points (`loyalty/`) | accounts, lots, ledger | earn, redeem, expire, reverse | expiry beside redemption | balance = open lots |
| Promotions (`promotions/`) | redemptions and caps | redeem, reverse | caps under concurrency (serializable transactions with a row lock) | caps hold |
| Fleets (`fleets/`) | fleet finances | cash drops, transfers | row locks | sums agree |
| Domain events (`events/domain-event-bus.ts`) | handlers in memory | emit | a crash loses what has not run | (no promise) |
| Referrals, wallet funding, inventory ingestion, catalogue, accounts, operations, notifications, infrastructure, applications | | | little concurrency of their own | see `PROJECT.json` |

### How they interact

```
rides ---- activeRideCount --> dispatch eligibility
ride completed --> ride payment --(fare, capture, earning, refund)--> wallet ledger
                        |  \--(commission, reversal, liability)--> commission account
                        \--(verify, webhook)-- gateway
cart --> checkout --> payments --(wallet | gateway | cash)--> order CONFIRMED
   order --ORDER_READY--> delivery job --> courier --> DELIVERED, COMPLETED
   order --ORDER_COMPLETED, ORDER_REFUNDED--> merchant settlement --> wallet / commission
   delivery --DELIVERED, CASH_CONFIRMED--> rider settlement --> wallet / commission
   order --(nobody advances it)--> exception --> recovery case --> refund
booking --(paid at the gateway)--> CONFIRMED --(weekly)--> booking settlement --> wallet
utility purchase --(debit | gateway)--> provider --> SUCCESSFUL | refund | operator
withdrawal --(debit, then recordPayment)--> wallet ledger, commission account
withdrawal --(event)--> payout fulfilment --> Paystack / Flutterwave --(webhook)--> back
commission account --(blocked)--> going online
```

Components trust the wallet to be idempotent under a reference: a caller that
crashed repeats its call. That is why the wallet comes first here, why it is
proved for every number of handlers, and why the models of its callers may take
a wallet posting as one step. The same holds of the commission account.

## 2. What is modelled

| Module | Is | Code |
|---|---|---|
| `WalletRules` | what a posting may do: kinds of entries, what they move, when they are admitted | `mutateHold`, `applyMutation`, `holdReferenceType` |
| `WalletBook` | abstract: what the wallet promises its callers; a posting happens at one instant | the public operations |
| `WalletLedger` | the transactions, statement by statement, with locks, conflicts, deadlocks, crashes | `wallet/wallet.service.ts` |
| `RideTrips` | abstract: booked, claimed by one idle driver, closed for good | `RideStatus` and what the handlers promise of it |
| `RideDispatch` | every handler of a ride, statement by statement | `ride-dispatch.service.ts`, `ride-trip.service.ts`, `rides.service.ts`, the sweep |
| `RidePayments` | how one completed ride is paid and refunded, posting by posting | `ride-payment.service.ts` |
| `CommissionAccount` | debt, its ledger and the block state | `commission-account.service.ts`, `commercial-credit-settings.service.ts` |
| `Payouts` | a request from creation to the bank and back | `withdrawal.service.ts`, `payout-fulfillment.service.ts`, providers and webhooks |
| `RoomNights` | abstract: what bookings promise of a night | the comments of `RoomAvailability` and `BookingStatus` |
| `Bookings` | the calendar, the stays, the expiry sweep | `bookings.service.ts`, `room-inventory.service.ts` |
| `BookingSettlement` | extends `Bookings` with the weekly settlement of a hotel | `booking-settlement.service.ts` |
| `OrderPayments` | from a cart to a confirmed, expired or cancelled order | `checkout.service.ts`, `reservation-cleanup.service.ts`, `payment.service.ts` |
| `OrderFulfilment` | extends `OrderPayments` with all that follows: merchant, rider, disputes, recovery, refunds, settlement | `merchant-orders.service.ts`, `order-recovery.service.ts`, `order-exception.service.ts`, `merchant-settlement.service.ts`, ... |
| `Deliveries` | who carries an order that is ready, and how he is paid | `delivery.service.ts`, the dispatch sweep, `rider-settlement.service.ts` |
| `Utilities` | a purchase from the money to the provider's answer or an operator's verdict | `utilities.service.ts`, its sweep, the providers |
| `MC*` | instances for TLC: scenes, and properties that need a fold or a history | |
| `*Proofs` | theorems and the inductive invariants | |

`WalletRules` is shared by `WalletBook` and `WalletLedger`, so the rules are
stated once and the refinement is about transactions. `WalletLedger`,
`MCRideDispatch` and `BookingSettlement` instantiate their abstract specification
with a refinement mapping. Definitions marked "mutant" are wrong on purpose: each
is a plausible bug, and swapping it in for the definition that follows must break
a property.

All modules of handlers look alike: `job[w]` (`act[h]` in `Deliveries`) is what the
handler run by worker `w` has read and where it is, `Idle` if none; an operation is
an action that reads and checks, followed by one action per statement that writes;
`Crash` or `Restart` ends a handler, or the process, between any two of them. Where
a module says "by id", the write happens whatever became of the row meanwhile,
since that is what the code does.

### WalletLedger

State: committed rows and ledgers; per connection the place in the transaction
(`pc`), the call, the half of a transfer (`leg`), the row that was read (`snap`)
and uncommitted rows (`draft`); row locks. One action per statement:

| Action | Code |
|---|---|
| `Start` | a caller calls; `transfer` mints its reference |
| `Read` | `getOrCreateWalletRecordInTx`: the upsert |
| `Replay`, `Accept`, `Refuse` | lookup of the reference, rules of holds, sufficient balance |
| `Write`, `Conflict` | `updateMany` with version and balance in its WHERE, then the entry under the unique index |
| `Commit` | the end of `$transaction` |
| `DeadlockVictim`, `Crash` | what PostgreSQL does to a cycle of waiting transactions, and to a lost connection |

The upsert has a non-empty update clause, so PostgreSQL locks the row already
when it is read. `UpsertLocks` says so; with `FALSE` only the version guard
protects the balance. All safety theorems hold with either value, so the code does
not depend on that side effect.

Left out: calls without a reference (nothing makes them idempotent), the
customer's limits, the report `reconcileWallet` (what it compares is the
invariant `Reconciles`), audit rows and events, which follow the commit.

### RideDispatch

State: the row of each ride, its offers, `activeRideCount`, the drivers a search
would find, and what each worker is doing. `dispatchRide` is
`Look, Choose, CreateOffer, EndDispatch`; `acceptOffer` and `declineOffer` are
`AnswerOffer` (the check of `requireLiveOffer`) and then the write; the six calls
that move a trip are `BeginTrip` and `EndTrip`; the sweep is `BeginSweep` to
`RetrySearch`.

Abstracted: which of several eligible drivers is nearest (any), clocks (an offer
has lapsed or not, a search window has closed or not), fares, notifications.
The offers of a ride and the candidates for it are read in one step. The sweep takes up
at most `Batch` of the stalled rides in a pass, as the code does (50, in no stated order):
any that many of them may be its list.

### RidePayments

State: the row of one completed ride (method, payment status, whether a coupon was
redeemed), its gateway transactions, who was charged at the gateway, and `posted`:
the postings made for the ride, in the wallets of customer, platform and driver and
in the driver's commission account. Every posting bears the ride as its reference,
so a set is enough. A handler that is about to post has the name of the posting as
its `pc`, and carries the method it works for; `Post` makes it, or finds it made.

| Action | Code |
|---|---|
| `PayWithWallet`, `DebitFare`, `Capture`, `PayoutDriver` | `payWithWallet`, `captureIntoPlatformWallet`, `payoutDriver` |
| `SelectCash`, `InitiateGateway`, `OpenTransaction`, `ChooseMethod` | `selectCash`, `initiateGatewayPayment` |
| `Verify`, `Ask`, `ClaimTransaction`, `RejectTransaction` | `verifyPayment` |
| `ConfirmCash`, `AccrueCommission`, `FundPromotion` | `confirmCash`, `fundDriverPromotion` |
| `MarkPaid`, `MarkFailed` | `markPaid` (under a guard), `markFailed` (by id) |
| `RefundRide`, `TakeBack`, `Recheck`, `RecordLiability`, `ReturnToPlatform`, `RefundCustomer`, `ReverseAccrual`, `ClaimRefund`, `CloseTransactions` | `refundRide` and what it calls |

Abstracted: whether a wallet covers a debit is a free choice (a claw-back is refused
only while it was not posted before); commission and earning are above zero, so
campaigns without commission and fleet drivers are left out; Paystack and
Flutterwave are one method. An error nobody catches is a `Crash`. Tips and amounts
are left out.

### CommissionAccount

State: the row, the ledger, the default limit and what each handler is doing. A
mutation is `Begin, Read, Check, Write` and, after the commit, `Recompute` and
`Persist`, the write of the block state by id. The guarded update locks the row
until the commit, so update, entry and commit are one step. The account exists
from the start. `MaxEntries` bounds how often calls without a reference (a
payment recorded by hand) may start; calls with a reference are repeated
without bound, and are posted once.

### Payouts

State: requests, balance, posted references, debt, recorded commission payments,
what the bank did (`transfer`), requests whose provider call threw (`unsure`),
webhooks heard, and the handlers. One step per statement from `Create` to
`Refund`; `BankDecides` is the bank; `Notify` is a webhook, which may come late,
again, and in any order with the answer of the call; `AdminComplete` and
`AdminFail` are the operator, whose two bare updates may be overtaken.

A statement that throws counts as a crash (`Fault`), and what becomes of it depends on
where: `initiate` catches what its provider call and the `succeed` or `fail` that follows
it throw, and goes on to `fail` (`Caught`, `Returns`; `inTry` marks a handler inside that
try block), also after a known SUCCESS; `create` catches what the debit throws, also after
it was posted, and marks the request FAILED (`Withdraw`, `Abandon`); everywhere else the
handler ends (`Crash`).

A wallet posting and a commission payment are single steps (see section 1). PIN,
limits and the destination are checked before the first step. A version conflict of
`recordPayment` is one of the errors `Crash` stands for. `operator` on a row is
`processedByUserId`. Left out: fleet transfers (`payout-reconciliation.service.ts`)
and the unused status CANCELLED.

### Bookings, BookingSettlement

State: `open` and `booked`, the two counts of `RoomAvailability` for each night; the
booking rows (status, nights, rooms, payment reference, codes issued, week of
payment, settlement); who was charged at the gateway; the week. `freed` is a history
variable: the bookings whose nights went back on sale.

Three transactions touch the calendar: `createBooking` (`Create, HoldNight,
CommitHold`), `openNights` (`OpenNights, OpenNight, CommitOpen`) and `releaseNights`
(`ReleaseNight, CommitRelease`). Each updates one night after another; the nights in
`done` are locked, and their new values unseen, until the commit. A statement that
would break the CHECK of `room_availability` aborts its transaction. Everything else
is a read with a check, and then a write: guarded (`AcceptWrite`, `Unwind`,
`Confirm`, the desk) or by id (`SaveReference`). The sweep reads a list and takes
one booking after another; its place is kept in `then`. Deadlines are a flag: `late`
when the window a booking is in has closed.

The settlement is `SettleWeek` (the sums), `InsertRow` (unique per week),
`ClaimStays`, `CreditHotel`, `CloseRow`. What is credited is named by the bookings it
was summed over.

Abstracted: rates and prices; one hotel, one room type; days within a week; the sweep
reads all overdue bookings, the code 100 of them (an ended one leaves the list, so the
rest follow). A gateway checkout has one reference per booking, as in the code.

### OrderPayments, OrderFulfilment

State: the orders, each with payment status, method, its reservation (`held`,
`late` when its 30 minutes are over, `gone`) and its exception; the cart they come
from; the gateway transaction of each; `received`, a history of where money came in;
delivery job, dispute, recovery case and settlement row of each order; the postings
`refunded`, `deducted`, `paidOut` and `takenBack`; how often a customer was `told` of his refund;
and `events`, the domain events nobody has begun to handle. `Restart` ends all
handlers and loses the events.

| Part | Actions | Code |
|---|---|---|
| checkout | `Checkout, CreateOrder, Reserve, LockCart` | `checkout` |
| payment | `PayWithWallet, Debit`, `SelectOffline`, `InitiateGateway, OpenTransaction, ChooseGateway`, `Verify, Ask, MarkSuccess, MarkFailed`, `FailureWebhook`, `Finalize, Deduct, CheckOut` | `payment.service.ts`, `finalizeOrderConfirmation` |
| undoing | `CancelByCustomer, Release, CancelWrite, ReadCart, Unlock`, `BeginCleanup, ExpireOrder, ReleaseExpired` | `cancelCustomerOrder`, `runCleanup` |
| merchant | `Advance`, `CallOff, Refund, CallOffWrite`, `ConfirmReceived, PaidWrite` | `acceptOrder, markReady, delayOrder, rejectOrder, cancelOrder, confirmPaymentReceived` |
| rider | `Dispatch, CreateDelivery`, `RiderAccepts, RiderDelivers, RiderConfirmsCash`, `MarkCashReceived` | the calls of `delivery.service.ts` as far as orders see them |
| disputes | `RaiseDispute, ResolveDispute, DisputeRow, DisputeOrder`, `BeginCompletion, Complete` | `raiseDispute, resolveDispute`, the completion sweep |
| recovery | `BeginRaise, Raise`, `Recover, Claim, CancelForRecovery, CaseStatus`, `ReverseByOperator, ReadReversal, Reverse, ReverseMark, CloseCase` | `order-exception`, `order-recovery` services and their sweeps |
| refunds | `AdminRefund, AdminCredit, AdminMark` | `refundOrder` |
| settlement | `BeginSettlement, InsertRow, PayDebt, PayOut, CloseSettlement`, `BeginReversal, TakeBack` | `settleOrder, reverseSettlement` |

Abstracted: all orders are for delivery; DRIVER_ASSIGNED, PICKED_UP and IN_TRANSIT are
one status; a transition and the resolution of the order's open exception are one
step; a courier is found at once (`Deliveries` has the detail); one gateway
transaction per order; whether a wallet covers a debit is a free choice. The
announcement of an exception, audit rows and the recognition of historical cases,
which has no caller, are left out.

The credit of an online sale first pays off the merchant's commission debt
(`applyAutomaticDeduction`): how much of it does is a free choice between none, a part and
all (`deducted`), and when all of it does no credit follows and the settlement is COMPLETED
without one. A reversal takes back the credit only. A dispute is two writes, its row and
its order. `Activated` says whether the recovery sweep runs: the code ships with
`RECOVERY_ACTIVATION_AT = null` (`orders/order.constants.ts:151`), and then the sweep returns
at once. The runs set it, for the sweep to be seen beside everything else; the theorems hold
with either value, and no liveness property counts on it.

### Deliveries

State: the jobs (status, courier, whether the assignment lapsed, whether cash was
confirmed, `settledAt`), their orders, couriers' counts and availability, recent
rejections, the events that wait for the settlement (`due`), the postings, and the
sweep: which of its two passes it is in and what is left of the list it read.

| Action | Code |
|---|---|
| `BeginCreate, Create` | `createDeliveryJob`, in the subscriber of ORDER_READY |
| `Seek` | `findNearestCourier`, in `tryAutoAssign` |
| `AssignByHand`, `Assign, Swap, Raise` | `assignRider, reassignRider`, `assignRiderToJob`: the row, then one count, then the other |
| `Call, Write, ReleaseCapacity, MoveOrder` | `acceptJob, pickUp, deliver, fail, returnJob, cancelJob` |
| `Reject, ClearRider, Release, Decline` | `rejectJob` |
| `Sweep, Reclaim, Redispatch` | `runSweep`, `reclaimStaleAssignments`, `redispatchUnassignedJobs` |
| `BeginConfirm, Confirm` | `confirmCash` |
| `BeginSettle, Claim, Pay` | `settleDelivery` |

A courier is a person in one of two roles, rider or driver (`riderId` and `courierType` of
the job): `person` says which couriers are one person, whom rejections and exclusions are
about, while each role has a count of its own. A driver has a count only once he has said
whether he is online (`onFile`): until then `incrementActiveJobCount` finds no row and
writes nothing. A job that goes from one role of a person to the other moves no count.
`uncounted` is a history of the couriers whom either happened to.

Abstracted: PICKED_UP, ON_THE_WAY and ARRIVED are one status, so are FAILED, RETURNED
and CANCELLED (`markOnTheWay` and `arrived` write CARRIED again, by id); any free courier may
be the nearest; fee and cash owed are above zero; an order that is ready and not paid in cash
is taken to be paid, which `createDeliveryJob` checks; Operations assign only a courier with
room (a bound, since the code does not look); the first pass takes all assignments that
lapsed, the code the oldest of them (each that it takes leaves the list); the cancellation
of an order is one step. The passengers of a driver, who count in the same number, are left
out. `Restart` ends every handler and loses the events.

### Utilities

State: the purchase rows; `taken` and `refunded`, the money; what became of each
purchase at the provider, who may deliver or refuse later than it answers; and three
histories: how often the provider was asked (`calls`), which purchases an operator
judged (`judged`), which of these were in flight then (`contested`), and for which the
provider answered FAILED (`denied`) before it had decided, or although it delivered (`early`).

`BuyFromWallet, Debit` and `BuyByCard, CustomerPays` bring the money; `Confirm` (the
customer or the webhook), `BeginSweep, SweepNext` and `Resolve` lead to `Verify` and
`Claim`; `Ask` and `Answer` are `fulfil`, with the three answers of a provider;
`Succeed`, `Refund` and `Reversed` write the end. After the claim every write is by id.
FAILED is what the Peyflex provider makes of every status word but SUCCESS, in the body of an
error too, so `Answer` may give it whatever the provider did or will do.

Abstracted: debit and refund are one posting each; fewer purchases are due than one
pass of the sweep takes (25); catalogues, prices, verification of meters, the float.

## 3. What TLC checks

| Run | Instance | Properties |
|---|---|---|
| `wallet` | two connections, no upsert lock, fairness; two scenes: one wallet with a top-up, a purchase, two holds, releases of the right and of a wrong amount and a commit; two wallets that send to each other. All calls repeatable, crashes anywhere | `BooksBalance`, `Reconciles`, `Answered`, `AnswerIsBooked`, `ImplementsBook` |
| `rides` | two drivers, one attempt; two scenes: two rides, handlers one after another, one crash; one ride, two handlers that interleave | `SerialCountIsTrips`, `SerialOneLiveOffer`, `ImplementsTrips`, `LoserTakesNothing` |
| `ride_retries` | two drivers, one worker, two attempts, `Batch` 1, fairness; one ride that does everything, with one crash; two rides that share the sweeps and a driver who accepts neither | `SerialDriverAccepted`, `SearchResumes` |
| `ride_reassigned` | one ride, two workers, two attempts | violation of `WinnerKeepsRide` |
| `ride_payments` | one ride with and without a coupon, one crash; two scenes: two gateway transactions, handlers one after another; one transaction, two handlers that interleave | `StatusIsMoney`, `MoneyIsCovered`, `SettledByMethod` |
| `commission` | two handlers, an order charged and reversed, a payment by reference and one without, limits 0 and 1, one crash | `BooksBalance`, `PaymentsCovered`, `BlockFollowsDebt` |
| `payout_overlap` | two requests, two handlers, amounts 1 and 2 of 3, debt 0 or 1, one crash | `SentIsFunded`, `RefundIsDue`, `StatusIsMoney`, `NoticeIsHeeded` |
| `bookings` | two handlers, fairness; three scenes: two guests, a hotel and the sweep over two nights; one guest with every call in every order and a crash; two paid stays, the desk and the weekly settlement | `CalendarIsStays`, `PinIsMoney`, `SettlementPaysItsRows`, `ImplementsRooms`, `OverdueEnds` |
| `orders_serial` | handlers and events one after another, fairness; two stages: two orders of one cart up to CONFIRMED; one paid order and everything after | `CartFollowsOrder`, `CaseFollowsOrder`, `UnpaidEnds` |
| `orders_overlap` | two handlers of one order, one crash; the same two stages | `MoneyIsReceived`, `RefundIsPosted`, `SettlementIsPosted` |
| `utilities` | two handlers, one crash, fairness; two scenes: one purchase and everything that can happen to it; two card purchases and the sweep | `BoughtOnce`, `RefundHasGround`, `OneVerdict`, `PaidMovesOn` |
| `deliveries` | a rider and a driver, the sweep, fairness; three scenes: two jobs with every call, one at a time, or one job while the driver, who is the rider in his other role, comes on file late; the sweep with a courier who comes, goes, ignores and declines, and a crash; one job whose creation, hand-over and settlement interleave | `SettledOnce`, `SerialCountIsJobs`, `SerialJobsFindCouriers` |

A *scene* is a choice the initial state makes and the MC module keeps: the runs of
one component share an instance, and each scene leaves out what another one covers.
The type invariants of all components are proved, so no run repeats them; the same
goes for `TransactionsInOrder`, `ReferencePostedOnce`, `HoldEndsOnce` and
`TransferPaired`, which TLC agreed with before they were proved.

### Bounds, and why they are enough

- *Two concurrent handlers.* Every hazard listed is a race of two: a write on a
  row another one changed since it was read. The proofs remove this bound, and the
  bounds on rows, for every safety property and every refinement.
- *Amounts 1 and 2 of a balance of 2 or 3*: two debits that each fit and together
  do not, and an amount that is not the one that was held.
- *Wallet calls*: every kind of mutation, a wrong amount, a second hold whose
  money must stay untouched; calls repeat without bound, so ledgers are bounded
  by idempotence alone.
- *Attempts 1 or 2 per ride* instead of `MAX_DISPATCH_ATTEMPTS`: reaching the
  limit, and being below it once, are the two cases. Two rides are needed for a
  driver to be offered or carry two; two drivers for a second choice.
- *One crash*: the promises about a crash are about what is left behind by one;
  repeats of a crashed call are part of the same run.
- *Limits 0 and 1* with debts of 1 and 2: below, at and above the limit, and a
  limit that is changed meanwhile.
- *Two nights, one room* (`LastNight`, `TotalRooms`): two stays can overlap in one
  night and not in the other, which is where a hold half-made, two transactions that
  lock in turn, and the last room show. *Two weeks*: one to pay in, one to settle it.
- *Two orders of one cart*: the second is made after the first was called off, with
  late handlers of the first still about. With overlap one order is enough, since
  handlers of different orders share the cart only.
- *One or two gateway transactions of a ride*: with handlers one after another the
  customer may pay two; with overlap two verifications of one are the race.
- *Two deliveries, `Capacity` 2, `Batch` 1*: a courier can be full, and the sweep's
  list can be full of a job it does not take.
- *Two rides, `Batch` 1*: one pass of the sweep of searches cannot take up both, so one must
  wait for a later pass while the other stalls again.

`CHECK_DEADLOCK FALSE` is set for payouts, bookings, orders, utilities and deliveries,
where a bounded supply of requests comes to its end. Symmetry is used over handlers,
drivers, rides, requests and transactions, and never with liveness.

### Fairness

- Wallet: a handler runs on until it answers (weak fairness of its steps).
  PostgreSQL queues those who wait for a row lock, so a wait that ends again and
  again is served (strong fairness of the statements that take a lock). Nobody
  has to call.
- Rides: a started handler goes on; the timer of the sweep fires again and again,
  whatever requests keep the workers busy (strong fairness, since a
  `setInterval` callback is not starved by requests); clocks advance, so offers
  lapse and search windows close. Nobody has to book, answer, drive or cancel.
- Bookings: a started handler goes on, a wait for the lock of a night is served, the
  expiry sweep ticks (strong fairness, as above). Nobody has to book, answer or pay,
  and no window has to close.
- Orders: started handlers and dispatched events run to their end; the cleanup ticks
  (strong fairness, as above). Nothing is assumed of the other sweeps, of which the one for
  recovery ships inert. The customer, the merchant, the rider and the operator need not act.
- Utilities: a started handler goes on, the sweep's grace goes by, the sweep ticks.
  The customer need not come back, no webhook need arrive, the provider need not answer.
- Deliveries, where the sweep runs: a started handler goes on, the sweep ticks. No courier need answer,
  come online or stay, and no assignment need lapse.

### What the safety properties say

The comment above each property in the modules says which promise of the code it
is. Those that need a word:

- *`Serial...` and the properties of `orders_serial`* are stated for handlers that do
  not overlap: every order of calls, in most of them with crashes at every statement,
  but no interleaving. The code writes by id there, and overlapping handlers do break
  them (section 5): a decline or an expiry that checked an offer before it was accepted
  rewrites the acceptance, so `SerialDriverAccepted` says nothing about that overlap.
  `BlockFollowsDebt` and `SettledByMethod` are of the same kind; the first watches for
  overlap (`overlapped`) instead of excluding it. What remains true of overlapping
  handlers is in the other properties of the same component:
  `LoserTakesNothing`, `MoneyIsReceived`, `RefundIsPosted`, `SettlementIsPosted`,
  `StatusIsMoney`, `MoneyIsCovered`, `SettledOnce`.
- *`SettledByMethod`*: its first half, the method of a paid ride, holds wherever handlers
  die. The second, that the driver is not both paid and charged, is also only for rides
  over which none died, since a payment by wallet that ends after the driver's earning lets
  the customer choose cash.
- *`BlockFollowsDebt`* is the latch of `recomputeAndPersistBlockState`. Three older comments
  of the file promise something else, which the code does not do (section 5).
- *Payouts.* The properties except rows an operator wrote: the operator's updates are
  bare, and no comment promises an order with the bank's notices. `RefundIsDue`
  excepts requests for which `initiate` caught an exception (`unsure`), of the provider's
  call or of what was done with its answer, since the code calls any exception a failure.
  `NoticeIsHeeded` and the second half of `StatusIsMoney` are about the time when nothing is
  in flight and nothing crashed or threw.
- *`SettlementIsPosted`* counts a deduction of the whole amount as the posting of a
  settlement; only what was credited or accrued can be taken back.
- *Utilities.* `OneVerdict` and `RefundHasGround` except the purchases an operator
  judged, as far as the operator's word is what counts; `contested` are those that were
  still being worked on, which the operator's screen cannot tell from stuck ones.
  `RefundHasGround` asks that the provider said FAILED before a refund without an operator;
  that it does not deliver then is promised only where it had decided when it answered, and
  not for a FAILED that came `early`.
  `PaidMovesOn` promises what the sweep does: a paid purchase is taken up before it is
  older than the sweep looks back.
- *`OverdueEnds`* allows the rooms of an ended booking to stay booked if a handler died
  between the claim and the release; the code has nothing that would find them.
- *`SerialCountIsJobs`* leaves out the `uncounted` couriers: who got a job as a driver
  without an availability row, or had a job go from one of his roles to the other.
- *`SerialJobsFindCouriers`* is about the scene in which the sweep runs, and excepts a job
  that is not among the oldest of the sweep's list; see section 5.

## 4. What is proved

All proofs are for every value of the constants: any number of handlers, rows,
references, transactions and crashes, any positive amounts. Every property of the
passing runs that is not liveness is stated by a theorem. Properties of handlers that
do not overlap are theorems of the MC module's specification, whose history variable
says whether they did; what bounds an instance (a scene, a number of crashes) is no
part of the theorem unless its property says so.

### Wallet (`WalletLedgerProofs`)

| Theorem | Says |
|---|---|
| `LedgerInvariant` | `TransactionsInOrder` always holds |
| `TypeInvariant` | `TypeOK`: above all, no balance is negative |
| `BooksAlwaysBalance` | no update is lost, no entry without its balance |
| `ReferencesPostedOnce` | a reference moves money once |
| `HoldsEndOnce` | a hold is committed or released, never both, for its own amount |
| `TransfersPaired` | no half of a transfer is ever in the books |
| `LedgerImplementsBook` | the transactions implement `WalletBook` |
| `AnswersAreBooked` | `AnswerIsBooked`: a call answered as done is in the books, also when it was a retry |
| `LedgersReconcile` | `Reconciles`: credits less debits are the available balance, open holds the pending one |

Assumptions: `AmountsPositive` of `WalletRules` and `ConfigOK` of `WalletLedger`
(calls are well-formed; a transfer has two wallets; its reference is its own, as
`randomUUID` makes it; `Free` and `NoRow` are none of the values they stand beside).

The argument. `BooksBalance` is not inductive: `Write` computes the new balance
from a row read earlier. It is safe because a current version means a current row
(`SnapshotsAge`), what `Check` verified still holds while the version stands
(`ChecksStand`), and an uncommitted row is protected by its lock and can still be
posted (`DraftsStand`), so that `Commit` is the book's `Post`. For transfers the
first half must stay valid while the second is prepared: the lock does that for
the row, and the fresh reference for the ledger (`TransferRefsFresh`);
`BothHalves` says that nothing commits with one half only. Together with
`HalvesInOrder` they are `TransactionsInOrder`, and with `TypeOK` inductive. The
refinement maps `Commit` to `Post` or `Transfer` (or to a stutter, when every half
was a replay) and every other step to a stutter.
`AnswersAreBooked` adds one fact: a handler that is to commit without a row of its own
found its reference in the books (`ReplaysStand`), and what is posted stays posted.

`BooksBalance` compares a ledger with the row step by step; `Reconciles` compares sums,
as `reconcileWallet` does. A sum over a ledger is stated as the size of a set: an entry
of amount `m` is `m` numbered units. Posting then adds one entry's units to a set they
are not in, and needs no induction over the ledger. The one hard case is the end of a
hold, which must take out exactly the units of its own hold: there is one open hold of
that reference, by `ReferencePostedOnce`, and for that amount, by `HoldEndsOnce`.

### Rides (`RideProofs`)

| Theorem | Says |
|---|---|
| `RideTypes` | `TypeOK`, and that whoever accepts or declines does it of an offer that was made, and a driver's call keeps the driver it checked; counts are integers there, and `CountsFollowTrips` says which |
| `LosersTakeNothing` | `LoserTakesNothing`, in every interleaving |
| `RideInvariant` | the inductive invariant, of all handlers and of serial ones |
| `CountsFollowTrips` | `SerialCountIsTrips` |
| `NobodyAskedTwice` | `SerialOneLiveOffer` |
| `DriversAccepted` | `SerialDriverAccepted` |
| `RidesImplementTrips` | `ImplementsTrips`: serial handlers implement `RideTrips` |

Assumption: `ConfigOK` of `RideDispatch` (`NoDriver` is no driver). The invariant has
two layers. `AnyIInv` holds whatever overlaps: an offer that is answered exists, a
ride that a driver moves keeps a driver. It is enough for `LoserTakesNothing`, since
the claim is one guarded statement. `SerialIInv` is about one handler at a time, with
any number of crashes: what it found out still holds (`Knows`; for a sweep, of every
offer and ride left on its lists, also while it dispatches one of them), and the
tables agree (`Tables`). The properties lean on each other: who claims a ride carries
no other because whoever is asked carries none (`AskedAreFree`), a ride is offered
only while no offer of it is live (`Unasked`), and a claim adds a trip because a ride
that nobody claimed has no driver (`Unclaimed`). The refinement maps the claim of
`AcceptOffer` to `Claim`, the end of a trip or of a search to `Close`, a booking to
`Book`, and all else to a stutter.

### Payouts (`PayoutsProofs`)

| Theorem | Says |
|---|---|
| `PayoutInvariant` | the inductive invariant |
| `PayoutTypes` | `TypeOK`: neither wallet nor debt is driven below zero |
| `NothingSentUnfunded` | `SentIsFunded` |
| `RefundsAreDue` | `RefundIsDue`, with the exception the catch of `initiate` makes |
| `StatusTellsMoney` | `StatusIsMoney` |
| `NoticesAreHeeded` | `NoticeIsHeeded` |

Assumption: `ConfigOK` (positive amounts). The invariant says who is responsible for a
request at each stage: one handler carries it from its creation to the provider's
answer (`OneCarrier`), and what that handler has not done nobody has (`NewIsUntouched`,
`EarlyIsNew`, `NotYetDebited`, `NotYetSent`, `DebitKnown`). Whoever fails or refunds it
has a reason that does not go away (`ReasonsStand`); `SuccessIsPaid` and
`NothingForgotten` carry the two halves of `StatusIsMoney`. On top of it, for
`NoticeIsHeeded`: a notice tells what the bank did (`HeardIsTold`), a failing handler
never finds its request PENDING again (`GuardKnows`), and as long as nobody died
somebody is at every notice that has not had its effect (`NoticesHeld`).

### Commission account (`PayoutsProofs`, second half)

| Theorem | Says |
|---|---|
| `AccountInvariant` | types and books together, from the inductive invariant |
| `DebtIsItsLedger` | `BooksBalance` |
| `ChargedOnce` | `ReferencePostedOnce` |
| `PaymentsNeverExceedDebt` | `PaymentsCovered` |
| `BlocksFollowDebts` | `BlockFollowsDebt` |

Assumption: `AccountConfigOK` (accruals raise the debt, payments lower it, no call is
zero). Inductive invariant: `AccountIInv == AccountTypeOK /\ Posts /\ SeenIsPast /\
CheckedHolds`. `Posts` are the safety properties of the books; `SeenIsPast` says that the
row a handler has seen is no newer than the account and is the account's balance when
the version is the same; `CheckedHolds` that a handler about to write under a current
version would pass its check again. For `BlockFollowsDebt`, `BlockInForce` adds that
without overlap the handler who decides about the block read the account as it stands,
and that the decision and the debt agree once nobody is deciding and nobody died.

### Bookings (`BookingProofs`)

| Theorem | Says |
|---|---|
| `BookingInvariant` | the inductive invariant: `CalendarFits`, `StaysStand`, `WeeksStand` |
| `BookingTypes` | `TypeOK` |
| `NightsNeverOverbooked` | the first half of `CalendarIsStays` |
| `CodesAreMoney` | `PinIsMoney` |
| `SettlementsPayTheirRows` | `SettlementPaysItsRows` |
| `CalendarFollowsStays` | `CalendarIsStays`: what the calendar counts are the rooms of the stays that hold them |
| `BookingsImplementRooms` | `ImplementsRooms`: the transactions implement `RoomNights` |

Assumption: `BookingsConfig`. Three arguments side by side. *Calendar*: a night in
`done` stays locked until the commit (`OneUpdater`), so what the WHERE or the CHECK
saw still holds then (`DoneFits`). *Stays*: every write that matters looks at the
status again, except two that cannot meet a wrong row (`NewIsNew`, `Known`). *Weeks*:
the unique key leaves one run in charge (`OneSettler`), which knows what was claimed
and credited so far (`SettlersKnow`).

`RoomsStand` adds what the counts need: a release is alone with its booking, which has
ended and whose rooms were not given back, and gives back the nights and rooms the
booking has. The rooms of a night are the numbered rooms `Sold(n)`, so that a count is
a cardinality. In the refinement the commit of a hold is `Hold`, a confirmation, an end
and the commit of a release are `Move`, the hotel's calendar is `Offer`; locks and rows
inside a transaction are invisible.

### Orders (`OrderProofs`)

| Theorem | Says |
|---|---|
| `OrderInvariant` | the inductive invariant |
| `OrderTypes` | `TypeOK` |
| `PaidIsReceived` | `MoneyIsReceived` |
| `RefundsArePosted` | `RefundIsPosted` |
| `SettlementsArePosted` | `SettlementIsPosted`, a deduction of the whole amount included |
| `CartsFollowOrders` | `CartFollowsOrder` |
| `CasesFollowOrders` | `CaseFollowsOrder` |

Assumption: `PaymentsConfig`. Handlers write orders they read long before, so little
can be said of statuses; `IInv` is about money. What a handler is about to write down
as paid, refunded or settled was received or posted (`JobsBacked`), and so was what an
event announces (`EventsBacked`); both stay true because receipts and postings are
never undone (`Postings`). Of those who refund an order one made the posting, and that
one tells the customer (`OneTeller`).

Without overlap the statuses can be relied on. `SerialIInv` says what an order may be
(`Agrees`), that what the handler read of it holds until it writes (`Knows`), and in
which steps cart and order (`CartOf`), or case and order (`CaseOf`), may be apart. The
event that confirms a cash payment finds an order that chose cash (`EventsKnow`).

### Utilities (`UtilityProofs`)

| Theorem | Says |
|---|---|
| `UtilityInvariant` | the inductive invariant, of one purchase |
| `UtilityTypes` | `TypeOK` |
| `NeverBoughtTwice` | `BoughtOnce` |
| `RefundsHaveGround` | `RefundHasGround`: a refund without an operator follows a FAILED of the provider |
| `VerdictsAreSingle` | `OneVerdict` |

Assumption: `UtilitiesConfig`. What nobody claimed nobody touched (`Untouched`), what a
handler takes for granted holds (`Knows`), one handler at most is on its way to the
provider (`OneBuyer`), and as long as no operator overtook it one at most works on the
purchase, which is PENDING (`OneWorker`). `Fair` are the properties themselves.

### Ride payment (`RidePaymentsProofs`)

| Theorem | Says |
|---|---|
| `RidePaymentInvariant` | the inductive invariant |
| `RidePaymentTypes` | `TypeOK` |
| `StatusTellsMoney` | `StatusIsMoney` |
| `MoneyIsAlwaysCovered` | `MoneyIsCovered` |
| `PaidByItsMethod` | `SettledByMethod`: the method wherever handlers die, not paid and charged if none dies |

Assumption: `RidePaymentsConfig`. `IInv` is `TypeOK`, the three properties, and
`Knows` of every handler: the place of a handler among the postings is the proof of
those before it. Postings are never undone and each is made once, so no handler needs
to know what the others do. `SettledByMethod` needs handlers that do not overlap: one
that is to pay finds a ride that is not PAID and that nobody settled, or whose settlement
was refunded (`SerialKnows`, `Untouched`). It does not say that a customer pays once: two
gateway transactions of a ride may both be charged.

### Deliveries (`DeliveryProofs`)

| Theorem | Says |
|---|---|
| `DeliveryInvariant` | the inductive invariant |
| `DeliveryTypes` | `TypeOK`: above all, no count falls below zero |
| `DeliveriesSettledOnce` | `SettledOnce` |
| `CountsAreJobs` | `SerialCountIsJobs`, of couriers who were counted each time |

Assumption: `DeliveriesConfig`. The claim of a settlement has one winner (`OnePayer`),
nothing was posted before it (`Settling`), and no step takes back the claim or the
courier's word, however stale the row it writes (`Grow`). For the counts, `CountsAreOff`
says by how much the count of a courier who is not `uncounted` may differ from the jobs in hand,
and at which statement of the one handler in progress.

### What stays with TLC

Liveness under fairness (`Answered`, `SearchResumes`, `OverdueEnds`, `UnpaidEnds`,
`PaidMovesOn`, `SerialJobsFindCouriers`): it rests on `ENABLED`, which
is out of the prover's reach. So is induction over data; the properties that add up
(`Reconciles`, `CalendarIsStays`, the counts of rides and deliveries) are therefore
stated as the sizes of sets, and their proofs add and take out one element's share.
The expected violation of section 5 is a trace, not a theorem.

## 5. Where the code and its comments disagree

One run is expected to fail; its trace is a path of the code to the state described:

- `ride_reassigned`: `dispatchRide` creates an offer and then writes SEARCHING by
  ride id (`rides/ride-dispatch.service.ts:128`). A driver who accepts in between
  is overwritten: the ride is searched again and a second driver replaces the
  first, which the comment at 203–205 rules out.

The others were met while modelling. The models contain them; the properties say
what holds all the same.

**Wallet, commission, payouts**

- *A late block.* The block state is written after the commit and by id
  (`commercial/commission-account.service.ts:532`). A late write leaves a partner
  blocked who owes nothing, though "clearing the balance to zero releases you" (513–514).
- *The latch* of 513–514 is what the code does, and three older comments of the file say
  otherwise. A raised limit does not release a partner (495), and a payment down to the limit
  does not "unblock the account the moment the balance drops back to or below the credit
  limit" (199–200): only zero does. An agreed limit that is lowered below the debt blocks at
  once, since `setNegotiatedCreditLimit` recomputes the block, though 452–455 says that it
  "cannot retroactively block", "blocking only ever happens on the next accrual"; a default
  that is lowered blocks at the next mutation.
- *Two payouts read one debt* (`wallet/withdrawal.service.ts:346`): the second debits
  the wallet for commission that is already paid, and its payment is refused.
- *A lost refund.* FAILED and the refund are two commits
  (`wallet/payout/payout-fulfillment.service.ts:171–191`); after a crash between them
  every path refuses the request.
- *An exception is a failure* (`payout-fulfillment.service.ts:126–127`), a timeout after the
  bank accepted included, and so is one that `succeed` (124) throws after the bank said
  SUCCESS: a transfer that was paid, and known to be, is refunded.
  `flutterwave-transfer.provider.ts:131–133` says of unknown statuses that "calling it a
  failure would credit the money back into a wallet that may already have been paid".
- *Debited and FAILED*: `create` marks the request FAILED for whatever the debit throws
  (`wallet/withdrawal.service.ts:219–229`). If it throws after its commit the money is gone,
  and no path refunds a FAILED request.
- *A transfer returned* while the notice of its success is still worked on is never
  refunded.

**Rides and their payment**

- Overlapping handlers offer a ride twice (two dispatches), lower a count twice (a
  double tap), leave the count of an accepted driver raised (a cancellation that read
  no driver), and take a cancelled ride back into the search (the bare SEARCHING).
- *An acceptance rewritten*: `declineOffer` (`ride-dispatch.service.ts:263–266`) and the expiry
  of the sweep (316–320) write the offer by id after their check; when the driver accepted in
  between, the ride keeps its driver and no offer says ACCEPTED any more.
- *A full list*: the sweep takes 50 stalled rides in no stated order (472). Anything left is
  not always "picked up by the next tick" (470–471): more than 50 that stall again each time may
  come first, until their windows close.
- *A driver may give back and owe*: between the look for a claw-back and the liability
  another refund may have posted it, which `ride-payment.service.ts:956–958` means to
  exclude ("so we never both debit AND record a liability").
- *A REFUNDED ride becomes PAID again*: `markPaid` (1134) and `requirePayableRide`
  refuse only PAID, so a ride passes the "exactly-once gate" (406) again. The money of
  the second refund is not posted, since its references are; its event is announced.
- *Paid and charged*: a cash confirmation that loses to a wallet or gateway payment has
  accrued the commission already; the comment at 328–333 considers two cash
  confirmations only.
- *Paid and charged after a crash*: a wallet payment that ends after the driver's earning
  (1099–1117) and before `markPaid` (1134) leaves a ride that is not PAID. The customer may
  then choose cash, and the confirmation charges the driver the commission of a ride he was
  paid for in full. No overlap is needed.
- A stale `selectCash` or `initiateGatewayPayment` writes its method on a ride that
  is PAID; `markFailed` overwrites PAID; two gateway transactions, or a gateway and a
  wallet payment, may both be charged, and the second is never returned; a crash right
  after the claim of a transaction strands the charge.

**Bookings**

- *Checked in before Monday*: the week's claim takes CONFIRMED only
  (`bookings/booking-settlement.service.ts:182`), so the hotel is never paid for a guest
  who checked in before the run, against "bookings would accumulate paid and no hotel
  would ever see a naira" (49–50).
- *A week is stranded* by a crash between claim and credit: the row bars every other
  run, while 79–81 counts on a retry. `settleWeek` has no caller but the weekly run.
- *Charged and expired*: the gateway's page knows nothing of the deadline, and a stay
  that expired with its guest charged is not returned to.
- *Accepted and rejected*: a rejection, or the sweep, that read PENDING_HOTEL ends a
  booking that was accepted meanwhile, since `unwind` looks for either status.

**Orders**

- *Never settled*: `resolveDispute` completes an order without ORDER_COMPLETED
  (`orders/checkout.service.ts:526`), which `merchant-settlement.service.ts:70` calls the
  sole signal; a cash order completed before the cash is confirmed; a settlement left
  PENDING or FAILED, which nothing retries.
- *Settled without a credit, and never reversed*: when the automatic deduction
  (`orders/merchant-settlement.service.ts:284–299`, 612–670) takes the whole credit, the
  settlement is COMPLETED with no entry in the wallet. A refund then asks the wallet for a debit of
  nothing, which it refuses, so the settlement stays COMPLETED; when a part was deducted, only
  the rest is taken back, the known gap of 388–394.
- *FAILED though paid* (360): what throws after the posting, the audit included, makes the
  settlement FAILED, and a refund of the order then reverses nothing.
- *A recovery that ships inert*: `RECOVERY_ACTIVATION_AT` is null (`order.constants.ts:151`) and
  the sweep returns at once, so that a CONFIRMED order nobody advances waits for the
  merchant, its customer or an operator. Activated, it takes 50 orders in a pass.
- *A dispute in two writes*: its row and the order (`orders/checkout.service.ts:485–486`,
  521–529) are not one transaction; after a crash between them a dispute is OPEN over a
  DELIVERED order, which the completion sweep completes, or resolved over a DISPUTED one.
- *Merchant-direct refunds*: `refundIfPaid` (`orders/merchant-orders.service.ts:389`) and
  `refundOrder` credit the wallet whenever the order is PAID, which
  `confirmPaymentReceived` made it on the merchant's word; the platform never had that
  money (`payments/payment.service.ts:311`, `orders/order-recovery.service.ts:593–596`).
- *Finalized twice*: a webhook and a verification both pass the check before either
  writes, though the comment at `payments/payment.service.ts:703–707` says this "never
  re-runs on an already-confirmed order".
- *Cancelled though paid*: the cleanup cancels by id from a list it read at its start;
  a gateway initiation writes back a stale PENDING; a stale accept takes an order out of
  its recovery; a rider's acceptance overwrites CANCELLED; an exception raised after the
  acceptance stays OPEN; a recovery that was CLOSED awaits a retry again.
- *Charged and refused*: a gateway charge that arrives after the order expired, a wallet
  and a gateway payment of one order; nothing returns either.
- *A cart stays locked* after a crash in a cancellation or in the cleanup; two checkouts
  of one ACTIVE cart make two orders.
- *A settlement outlives its refund*: a refund handled while the settlement is PENDING
  reverses nothing, nor does one of a merchant whose wallet is empty.

**Utilities**

- *PENDING before the debit*: a wallet purchase whose debit was refused stays PENDING,
  and an operator's REVERSED credits money that was never taken
  (`utilities/utilities.service.ts:319–348`; 818–820 excludes that for card purchases).
- *A verdict in flight*: an operator who finds PENDING may overtake the purchase
  (854–856 guards AWAITING_PAYMENT only): delivered and refunded, or SUCCESSFUL after
  the refund. A crash between refund and REVERSED leaves a refunded row PENDING.
- *Every word is a refusal*: of an answer with a status, also of an error (`acceptErrorStatus`,
  576), the Peyflex provider makes FAILED unless the word is SUCCESS
  (`providers/peyflex.provider.ts:506–520`). A PENDING is refunded at once and without an
  operator, and may be delivered afterwards, against the rule of
  `providers/utility-provider.port.ts:212–226`.
- *A rejection without a word*: `purchase()` catches whatever `request()` throws and answers
  UNKNOWN, so that what was refused at the door with a body nobody can read, for which the same
  comment asks for a refund, waits for an operator.
- *A full list*: the sweep takes the 25 oldest rows and leaves abandoned ones where they
  are, so 25 of them starve every newer one until they are too old, though
  `utilities.constants.ts:158–159` says "a backlog simply drains across several passes".

**Deliveries**

- *A full list* here too: jobs whose order is no longer READY stay PENDING and at the
  head of the sweep's list, and 25 of them starve every newer one;
  `delivery/delivery.constants.ts:37–40` says "anything left over is picked up by the
  next tick".
- *Accepted and taken back*: reclaim and redispatch read a row again and then write it by
  id; an acceptance in between ends as an ACCEPTED job without a courier, which no call
  and no sweep takes up. The comment says "Only an untouched ASSIGNED job is ours".
- *Delivered and reassigned*: a reassignment that read the job before its delivery puts
  it back to ASSIGNED, and the settlement that follows pays the new courier.
- *Reassigned after acceptance*: the order is no longer READY, so if the new courier
  lets the job lapse nobody is offered it again.
- *A settlement that failed*: `rider-settlement.subscriber.ts:50–52` says "the job stays
  unsettled and can be settled again", but `settledAt` is claimed before the posting.
- *Not counted*: `incrementActiveJobCount` of a driver without an availability row writes
  nothing (`delivery/repositories/prisma-delivery.repository.ts:482–492`), and Operations may
  assign one; his capacity is then not what it seems. A reassignment of one person from rider
  to driver (`delivery/delivery.service.ts:914–928`) moves no count, and the end of the job
  lowers the one that was never raised.
- *Delivered and arrived*: a late `arrived` (380) that overlaps `deliver` writes ARRIVED over
  DELIVERED by id.
- A handler of ORDER_READY that dies leaves a ready order without a job, and no sweep
  looks for it; a crash between a row and a count, or a double tap, leaves the count wrong.

## 6. Not modelled, and why

Loyalty, promotions and fleets are candidates (section 7). Tips and the funding of
wallets are one referenced posting after a payment. PIN checks, limits, audit rows,
notifications, analytics, search, the catalogue, identity and content have no
interleaving that money or assignment depends on, or are reads. The event bus has no
state that survives: its effect is that a handler runs later or never, and the models
of the components that depend on it have the events as state (`events`, `due`). The
clients, which make up two thirds of the repository's lines, are user interfaces, and
most of the backend is controllers, queries and forms: the share of lines covered is
small. `PROJECT.json` lists each part with its reason.

## 7. Plan

Done: wallet, rides, commission account, payouts, bookings with their settlement, orders
from cart to settlement, utilities, ride payment, deliveries with their settlement. All
are checked, and proved but for liveness.

1. Batches larger than the backlog: the sweep of utilities with a full list, as
   `Deliveries` has it.
2. `Loyalty`: lots, redemption, expiry and reversal; redemption by a reference.
3. `Promotions`: caps under serializable transactions; conflicts and retries.
4. Deliveries beside rides: drivers share `activeRideCount` between both.

Runs are kept few, one per question: when a component is added, runs of one
component that ask about the same instance are merged first.
