------------------------------ MODULE OrderProofs ------------------------------
(***************************************************************************)
(* For any number of orders and handlers and any number of crashes, with   *)
(* every call at any time: what is paid or refunded was received, what     *)
(* is said to be refunded is in the ledger and said once, and a sale is    *)
(* settled with the merchant before it is charged back to him.             *)
(*                                                                         *)
(* Most handlers write an order they read long before, so little is true   *)
(* of statuses. The inductive invariant is about money instead: what a     *)
(* handler is about to write down as paid, refunded or settled has been    *)
(* received or posted (Backed), and so has what an event announces         *)
(* (EventsBacked); both stay true because receipts and postings are never  *)
(* undone. Among the handlers that refund an order the one that made the   *)
(* posting is the one that tells the customer (OneTeller).                 *)
(*                                                                         *)
(* While handlers do not overlap, far more is true, and the second half is *)
(* about that: what the one handler under way has read still holds (Knows),*)
(* and the cart and the cases are out of step with the orders only in the  *)
(* middle of the handlers that write both (CartOf, CaseOf).                *)
(***************************************************************************)
EXTENDS MCOrders, FiniteSetTheorems, TLAPS

\* What the job j takes for granted.
Backed(j) ==
  /\ j.pc = "finalize" => j.pay = "PENDING" \/ (j.pay = "PAID" /\ received[j.id] # {})
  /\ j.pc \in {"paid", "markPaid", "refund", "adminRefund", "reverse"} => received[j.id] # {}
  /\ j.pc = "callOff" /\ j.paid => j.id \in refunded
  /\ j.pc \in {"markRefunded", "reverseMark", "closeCase"} => j.id \in refunded
  /\ j.pc = "settled" => Settled(j.id)
  /\ j.pc = "takeBack" => Settled(j.id) /\ j.id \in refunded
  /\ j.pc = "reversed" => j.id \in takenBack

JobsBacked == \A w \in Workers : Backed(job[w])

EventsBacked == \A e \in events :
  /\ e.name = "CASH_CONFIRMED" => received[e.id] # {}
  /\ e.name = "REFUNDED" => e.id \in refunded

\* The handler that will tell a customer of his refund.
Telling(j) ==
  \/ j.pc = "callOff" /\ j.tell
  \/ j.pc \in {"reverseMark", "closeCase"} /\ j.applied
Tells(w, o) == Telling(job[w]) /\ job[w].id = o

OneTeller == \A o \in Orders :
  /\ \A v, w \in Workers : Tells(v, o) /\ Tells(w, o) => v = w
  /\ told[o] > 0 \/ o \notin refunded => \A w \in Workers : ~Tells(w, o)

Postings == MoneyIsReceived /\ RefundIsPosted /\ SettlementIsPosted

IInv == TypeOK /\ Postings /\ JobsBacked /\ EventsBacked /\ OneTeller

-------------------------------------------------------------------------------
WithId == {"create", "reserve", "lock", "debit", "initiate", "choose", "paid", "failed",
           "deduct", "checkout", "release", "cancel", "dispute", "disputed", "resolve",
           "resolved", "complete", "raise", "adminRefund", "markRefunded", "accrue", "payDebt",
           "credit", "settled", "settleFailed", "reversed", "dispatch", "readReversal",
           "reverse"}

LEMMA IdleIsJob == Idle \in FulfilJob /\ Idle.pc = "idle"
BY DEF FulfilJob, PaymentJob, Idle

LEMMA AtIsJob ==
  ASSUME NEW o \in Orders, NEW pc \in WithId
  PROVE  At(o, pc) \in FulfilJob /\ At(o, pc).pc = pc /\ At(o, pc).id = o
BY DEF FulfilJob, PaymentJob, At, WithId

LEMMA CleanupIsJob ==
  /\ \A j \in CleanupJob : j \in FulfilJob /\ j.pc = "cleanup" /\ j.todo \in SUBSET Orders
  /\ \A j \in [pc : {"cart", "unlock"}, then : {Idle} \union CleanupJob] : j \in FulfilJob
BY DEF FulfilJob, PaymentJob, CleanupJob

\* A handler's program counter tells the shape of its record.
LEMMA JobShape ==
  ASSUME NEW j \in FulfilJob
  PROVE  /\ j.pc \notin {"idle", "cleanup", "cart", "unlock"} => j.id \in Orders
         /\ j.pc = "cleanup" => j \in CleanupJob
         /\ j.pc \in {"cart", "unlock"} =>
              j \in [pc : {"cart", "unlock"}, then : {Idle} \union CleanupJob]
         /\ j.pc = "finalize" => j.method \in Methods /\ j.pay \in Pays
         /\ j.pc \in {"insertRow", "takeBack"} => j.method \in Methods
         /\ j.pc = "advance" => j.to \in {"PREPARING", "READY"}
         /\ j.pc = "markPaid" => j.status \in Statuses /\ j.again \in BOOLEAN
         /\ j.pc = "refund" => j.tell \in BOOLEAN
         /\ j.pc = "callOff" => j.paid \in BOOLEAN /\ j.tell \in BOOLEAN
         /\ j.pc \in {"claim", "cancelCase", "caseStatus"} =>
              j \in [pc : {"claim", "cancelCase", "caseStatus"}, id : Orders, by : Actor,
                     pay : Pays, method : Methods]
         /\ j.pc \in {"reverseMark", "closeCase"} =>
              j \in [pc : {"reverseMark", "closeCase"}, id : Orders, applied : BOOLEAN]
BY DEF FulfilJob, PaymentJob, Idle, CleanupJob

LEMMA InitIInv == Init => IInv
<1> SUFFICES ASSUME Init PROVE IInv
  OBVIOUS
<1> USE DEF Init, PaymentsInit, NoOrder
<1>1. TypeOK
  <2>1. crashes \in 0..MaxCrashes
    BY PaymentsConfig
  <2>2. job \in [Workers -> FulfilJob]
    BY IdleIsJob
  <2>3. order \in [Orders -> Order]
    BY DEF Order, Statuses, Pays, Methods, Offline
  <2> QED
    BY <2>1, <2>2, <2>3 DEF TypeOK, Case, Shares
<1>2. Postings
  BY DEF Postings, MoneyIsReceived, RefundIsPosted, SettlementIsPosted, Settled
<1>3. JobsBacked /\ EventsBacked /\ OneTeller
  BY DEF JobsBacked, Backed, EventsBacked, OneTeller, Tells, Telling, Idle
<1> QED
  BY <1>1, <1>2, <1>3 DEF IInv

-------------------------------------------------------------------------------
\* A step that posts nothing keeps the invariant, whatever it does to handlers, orders,
\* cases, settlements and events, if what it writes or goes on to do is backed.
LEMMA Unposted ==
  ASSUME IInv, TypeOK', UNCHANGED ledgers,
         \A o \in Orders : received[o] \subseteq received'[o],
         \A w \in Workers : job'[w] = job[w] \/ (Backed(job[w])' /\ ~Telling(job[w])')
                              \/ (Backed(job[w])' /\ \A o \in Orders : Tells(w, o)' => Tells(w, o)),
         \A o \in Orders :
           \/ order'[o].pay \in {order[o].pay, "PENDING", "FAILED"}
           \/ order'[o].pay = "PAID" /\ received'[o] # {}
           \/ order'[o].pay = "REFUNDED" /\ o \in refunded,
         \A o \in Orders : case'[o].outcome \in {case[o].outcome, "OPEN", "REVERSAL_FAILED"},
         \A o \in Orders :
           \/ settlement'[o] \in {settlement[o], "PENDING", "FAILED"}
           \/ settlement'[o] = "COMPLETED" /\ Settled(o)
           \/ settlement'[o] = "REVERSED" /\ o \in takenBack,
         \A e \in events' :
           \/ e \in events
           \/ /\ e.name = "CASH_CONFIRMED" => received'[e.id] # {}
              /\ e.name = "REFUNDED" => e.id \in refunded
  PROVE  IInv'
<1>1. /\ told' = told /\ refunded' = refunded /\ takenBack' = takenBack
      /\ \A o : Settled(o)' <=> Settled(o)
      /\ \A o \in Orders : received[o] # {} => received'[o] # {}
  BY DEF ledgers, merchant, Settled
<1>2. MoneyIsReceived'
  BY <1>1 DEF IInv, Postings, MoneyIsReceived
<1>3. RefundIsPosted'
  BY <1>1 DEF IInv, Postings, RefundIsPosted
<1>4. SettlementIsPosted'
  BY <1>1 DEF IInv, Postings, SettlementIsPosted
<1>5. JobsBacked'
  <2> SUFFICES ASSUME NEW w \in Workers PROVE Backed(job[w])'
    BY DEF JobsBacked
  <2>1. CASE job'[w] = job[w]
    <3>1. Backed(job[w])
      BY DEF IInv, JobsBacked
    <3>2. job[w].pc \notin {"idle", "cleanup", "cart", "unlock"} => job[w].id \in Orders
      BY JobShape DEF IInv, TypeOK
    <3> QED
      BY <2>1, <3>1, <3>2, <1>1 DEF Backed
  <2> QED
    BY <2>1
<1>6. EventsBacked'
  <2>1. \A e \in events : e.id \in Orders
    BY DEF IInv, TypeOK, Event
  <2> QED
    BY <2>1, <1>1 DEF IInv, EventsBacked
<1>7. \A w \in Workers, o \in Orders : Tells(w, o)' => Tells(w, o)
  BY DEF Tells, Telling
<1>8. OneTeller'
  BY <1>1, <1>7 DEF IInv, OneTeller
<1> QED
  BY <1>2, <1>3, <1>4, <1>5, <1>6, <1>8 DEF IInv, Postings

\* One handler goes on and touches no order; it may receive money, and take up an event.
LEMMA GoesOn ==
  ASSUME IInv, NEW w \in Workers, NEW j \in FulfilJob, Become(w, j), ~Telling(j),
         UNCHANGED <<order, rider, case, settlement, ledgers>>,
         cart' \in {"ACTIVE", "LOCKED", "CHECKED_OUT"},
         txn' \in [Orders -> {"NONE", "PENDING", "SUCCESS", "FAILED"}],
         received' \in [Orders -> SUBSET {"wallet", "gateway", "merchant", "cash"}],
         \A o \in Orders : received[o] \subseteq received'[o],
         events' \subseteq events, crashes' \in 0..MaxCrashes,
         Backed(job[w])'
  PROVE  IInv'
<1>1. /\ job'[w] = j /\ \A v \in Workers : v # w => job'[v] = job[v]
      /\ job' \in [Workers -> FulfilJob]
  BY DEF Become, IInv, TypeOK
<1>2. TypeOK'
  BY <1>1 DEF IInv, TypeOK, rider, ledgers, merchant
<1>3. ~Telling(job[w])'
  BY <1>1 DEF Telling
<1> QED
  BY <1>1, <1>2, <1>3, Unposted

\* The usual case: a job that needs no money to be there, and no event is involved.
NeedsNothing == {"idle", "cleanup", "cart", "unlock", "create", "reserve", "lock", "debit",
                 "initiate", "choose", "failed", "deduct", "checkout", "release", "cancel", "ask",
                 "dispute", "disputed", "resolve", "resolved", "complete", "raise",
                 "insertRow", "accrue", "payDebt", "credit", "settleFailed", "dispatch",
                 "readReversal", "advance", "claim", "cancelCase", "caseStatus"}
LEMMA NeedsNothingIsBacked ==
  ASSUME NEW w \in Workers, job[w].pc \in NeedsNothing
  PROVE  Backed(job[w]) /\ ~Telling(job[w])
BY DEF NeedsNothing, Backed, Telling

LEMMA GoesOnLightly ==
  ASSUME IInv, NEW w \in Workers, NEW j \in FulfilJob, Become(w, j), j.pc \in NeedsNothing,
         UNCHANGED <<order, rider, case, settlement, ledgers, received>>,
         cart' \in {"ACTIVE", "LOCKED", "CHECKED_OUT"},
         txn' \in [Orders -> {"NONE", "PENDING", "SUCCESS", "FAILED"}],
         events' \subseteq events, crashes' \in 0..MaxCrashes
  PROVE  IInv'
<1>1. job'[w] = j
  BY DEF Become, IInv, TypeOK
<1>2. Backed(job[w])' /\ ~Telling(j)
  BY <1>1 DEF NeedsNothing, Backed, Telling
<1> QED
  BY <1>2, GoesOn DEF IInv, TypeOK

\* One handler, or the rider, writes an order, and emits nothing a refund hangs on.
LEMMA Writes ==
  ASSUME IInv, NEW o \in Orders, NEW new \in Order,
         \/ order' = [order EXCEPT ![o] = new] \/ Transition(o, new),
         \/ new.pay \in {order[o].pay, "PENDING", "FAILED"}
         \/ new.pay = "PAID" /\ received[o] # {}
         \/ new.pay = "REFUNDED" /\ o \in refunded,
         \/ job' = job
         \/ \E w \in Workers : \E j \in FulfilJob :
              /\ Become(w, j) /\ j.pc \in NeedsNothing
         \/ \E w \in Workers : \E j \in FulfilJob :
              /\ Become(w, j) /\ j.pc = "closeCase" /\ j.id \in refunded
              /\ \A p \in Orders : Telling(j) /\ j.id = p => Tells(w, p),
         UNCHANGED <<cart, txn, received, crashes>>, UNCHANGED <<case, settlement, ledgers>>,
         delivery' \in [Orders -> {"NONE", "ASSIGNED", "ACCEPTED", "DELIVERED"}],
         dispute' \in [Orders -> {"NONE", "OPEN", "RESOLVED"}],
         \/ events' = events
         \/ \E e \in Event : events' = events \union {e} /\ e.name \in {"READY", "COMPLETED"}
         \/ \E e \in Event : events' = events \union {e} /\ e.name = "REFUNDED" /\ e.id \in refunded
  PROVE  IInv'
<1>o. PICK written \in Order : /\ order' = [order EXCEPT ![o] = written]
                               /\ written.pay = new.pay
  <2>1. CASE order' = [order EXCEPT ![o] = new]
    BY <2>1
  <2>2. CASE Transition(o, new)
    <3> DEFINE e == IF new.status # "CONFIRMED" /\ new.exception = "OPEN" THEN "RESOLVED"
                    ELSE new.exception
               written == [new EXCEPT !.exception = e]
    <3>1. e \in {"NONE", "OPEN", "RESOLVED"}
      BY DEF Order
    <3>2. written \in Order /\ written.pay = new.pay
      <4> HIDE DEF e
      <4> QED
        BY <3>1 DEF Order
    <3>3. order' = [order EXCEPT ![o] = written]
      BY <2>2 DEF Transition
    <3> HIDE DEF written
    <3> QED
      BY <3>2, <3>3
  <2> QED
    BY <2>1, <2>2
<1>1. order' \in [Orders -> Order]
  BY <1>o DEF IInv, TypeOK
<1>2. order'[o].pay = new.pay /\ \A p \in Orders : p # o => order'[p] = order[p]
  BY <1>o DEF IInv, TypeOK
<1>3. job' \in [Workers -> FulfilJob]
  BY DEF IInv, TypeOK, Become
<1>4. events' \in SUBSET Event
  BY DEF IInv, TypeOK
<1>5. TypeOK'
  BY <1>1, <1>3, <1>4 DEF IInv, TypeOK, ledgers, merchant
<1>6. ASSUME NEW v \in Workers
      PROVE  job'[v] = job[v] \/ (Backed(job[v])' /\ ~Telling(job[v])')
               \/ (Backed(job[v])' /\ \A p \in Orders : Tells(v, p)' => Tells(v, p))
  <2>1. CASE job' = job
    BY <2>1
  <2>2. ASSUME NEW w \in Workers, NEW j \in FulfilJob, Become(w, j), j.pc \in NeedsNothing
        PROVE  job'[v] = job[v] \/ (Backed(job[v])' /\ ~Telling(job[v])')
    <3>1. job'[v] = IF v = w THEN j ELSE job[v]
      BY <2>2 DEF Become, IInv, TypeOK
    <3> QED
      BY <2>2, <3>1 DEF NeedsNothing, Backed, Telling
  <2>3. ASSUME NEW w \in Workers, NEW j \in FulfilJob, Become(w, j), j.pc = "closeCase",
               j.id \in refunded, \A p \in Orders : Telling(j) /\ j.id = p => Tells(w, p)
        PROVE  job'[v] = job[v]
                 \/ (Backed(job[v])' /\ \A p \in Orders : Tells(v, p)' => Tells(v, p))
    <3>1. job'[v] = IF v = w THEN j ELSE job[v]
      BY <2>3 DEF Become, IInv, TypeOK
    <3>2. v = w => \A p \in Orders : Tells(v, p)' => Tells(v, p)
      BY <2>3, <3>1 DEF Tells, Telling
    <3>3. v = w => Backed(job[v])'
      BY <2>3, <3>1 DEF Backed, ledgers
    <3> QED
      BY <3>1, <3>2, <3>3
  <2> QED
    BY <2>1, <2>2, <2>3
<1>7. \A p \in Orders :
        \/ order'[p].pay \in {order[p].pay, "PENDING", "FAILED"}
        \/ order'[p].pay = "PAID" /\ received'[p] # {}
        \/ order'[p].pay = "REFUNDED" /\ p \in refunded
  BY <1>2
<1>8. \A e \in events' :
        \/ e \in events
        \/ /\ e.name = "CASH_CONFIRMED" => received'[e.id] # {}
           /\ e.name = "REFUNDED" => e.id \in refunded
  OBVIOUS
<1> QED
  BY <1>5, <1>6, <1>7, <1>8, Unposted

-------------------------------------------------------------------------------
\* Forms of the lemmas above that the actions fit without more ado.
LEMMA JobIsBacked ==
  ASSUME IInv, NEW w \in Workers
  PROVE  job[w] \in FulfilJob /\ Backed(job[w])
BY DEF IInv, TypeOK, JobsBacked

LEMMA Rests ==
  ASSUME IInv, NEW w \in Workers, NEW j \in FulfilJob, Become(w, j), j.pc \in NeedsNothing,
         ExceptJob, UNCHANGED <<rider, case, settlement, ledgers>>, events' \subseteq events
  PROVE  IInv'
<1>1. /\ cart' \in {"ACTIVE", "LOCKED", "CHECKED_OUT"}
      /\ txn' \in [Orders -> {"NONE", "PENDING", "SUCCESS", "FAILED"}]
      /\ crashes' \in 0..MaxCrashes
  BY DEF ExceptJob, IInv, TypeOK
<1> QED
  BY <1>1, GoesOnLightly DEF ExceptJob

LEMMA Moves ==
  ASSUME IInv, NEW w \in Workers, NEW o \in Orders, NEW pc \in WithId \intersect NeedsNothing,
         Become(w, At(o, pc)),
         ExceptJob, UNCHANGED <<rider, case, settlement, ledgers>>, events' \subseteq events
  PROVE  IInv'
BY AtIsJob, Rests

\* A handler writes an order it read and goes on.
LEMMA WritesAndGoes ==
  ASSUME IInv, NEW o \in Orders, NEW new \in Order,
         \/ order' = [order EXCEPT ![o] = new] \/ Transition(o, new),
         new.pay \in {order[o].pay, "PENDING", "FAILED"},
         NEW w \in Workers, NEW j \in FulfilJob, Become(w, j), j.pc \in NeedsNothing,
         ExceptOrder, UNCHANGED fulfilVars
  PROVE  IInv'
<1>1. /\ delivery' \in [Orders -> {"NONE", "ASSIGNED", "ACCEPTED", "DELIVERED"}]
      /\ dispute' \in [Orders -> {"NONE", "OPEN", "RESOLVED"}]
  BY DEF IInv, TypeOK, fulfilVars, rider
<1>2. UNCHANGED <<cart, txn, received, crashes>> /\ UNCHANGED <<case, settlement, ledgers>>
      /\ events' = events
  BY DEF ExceptOrder, fulfilVars
<1> QED
  BY <1>1, <1>2, Writes

LEMMA OrderRow ==
  ASSUME IInv, NEW o \in Orders
  PROVE  order[o] \in Order
BY DEF IInv, TypeOK

LEMMA FinalizingIsJob ==
  ASSUME NEW o \in Orders, NEW method \in Methods, NEW pay \in Pays
  PROVE  /\ Finalizing(o, method, pay) \in FulfilJob
         /\ Finalizing(o, method, pay).pc = "finalize"
         /\ Finalizing(o, method, pay).pay = pay /\ Finalizing(o, method, pay).id = o
BY DEF FulfilJob, PaymentJob, Finalizing

-------------------------------------------------------------------------------
\* The calls of customers and of the gateway only begin a handler.
LEMMA RequestKeepsIInv ==
  ASSUME IInv, NEW w \in Workers, NEW o \in Orders, PaymentRequest(w, o), UNCHANGED fulfilVars
  PROVE  IInv'
<1>0. UNCHANGED <<rider, case, settlement, ledgers>> /\ events' \subseteq events
  BY DEF fulfilVars
<1>1. CASE Checkout(w, o)
  BY <1>0, <1>1, Moves DEF Checkout, ExceptJob, WithId, NeedsNothing
<1>2. CASE PayWithWallet(w, o)
  BY <1>0, <1>2, Moves DEF PayWithWallet, ExceptJob, WithId, NeedsNothing
<1>3. CASE InitiateGateway(w, o)
  BY <1>0, <1>3, Moves DEF InitiateGateway, ExceptJob, WithId, NeedsNothing
<1>4. CASE FailureWebhook(w, o)
  BY <1>0, <1>4, Moves DEF FailureWebhook, ExceptJob, WithId, NeedsNothing
<1>5. CASE CancelByCustomer(w, o)
  BY <1>0, <1>5, Moves DEF CancelByCustomer, ExceptJob, WithId, NeedsNothing
<1>6. CASE Verify(w, o)
  <2>1. PICK b \in BOOLEAN : Become(w, [pc |-> "ask", id |-> o, payable |-> b])
    BY <1>6 DEF Verify, Payable
  <2>2. [pc |-> "ask", id |-> o, payable |-> b] \in FulfilJob
    BY DEF FulfilJob, PaymentJob
  <2> QED
    BY <1>0, <1>6, <2>1, <2>2, Rests DEF Verify, ExceptJob, NeedsNothing
<1>7. ASSUME NEW method \in Offline, SelectOffline(w, o, method) PROVE IInv'
  <2> DEFINE j == Finalizing(o, method, "PENDING")
  <2>0. method \in Methods /\ "PENDING" \in Pays
    BY DEF Methods, Pays
  <2>1. j \in FulfilJob /\ j.pc = "finalize" /\ j.pay = "PENDING" /\ Become(w, j)
    BY <1>7, <2>0, FinalizingIsJob DEF SelectOffline
  <2> HIDE DEF j
  <2>2. Backed(job[w])' /\ ~Telling(j)
    BY <2>1 DEF Become, IInv, TypeOK, Backed, Telling
  <2> QED
    BY <1>0, <1>7, <2>1, <2>2, GoesOn DEF SelectOffline, IInv, TypeOK
<1> QED
  BY <1>1, <1>2, <1>3, <1>4, <1>5, <1>6, <1>7 DEF PaymentRequest

\* The statements between a cart and a confirmed order.
LEMMA PaymentStepKeepsIInv ==
  ASSUME IInv, NEW w \in Workers, PaymentStep(w), UNCHANGED fulfilVars
  PROVE  IInv'
<1>0. /\ UNCHANGED <<rider, case, settlement, ledgers>> /\ events' \subseteq events
      /\ events' = events
  BY DEF fulfilVars
<1>j. PICK r \in FulfilJob : r = job[w] /\ Backed(job[w])
  BY JobIsBacked
<1>i. r.pc \notin {"idle", "cleanup", "cart", "unlock"} => r.id \in Orders
  BY JobShape
<1>t. /\ cart \in {"ACTIVE", "LOCKED", "CHECKED_OUT"}
      /\ txn \in [Orders -> {"NONE", "PENDING", "SUCCESS", "FAILED"}]
      /\ received \in [Orders -> SUBSET {"wallet", "gateway", "merchant", "cash"}]
      /\ crashes \in 0..MaxCrashes
  BY DEF IInv, TypeOK
<1>l. Idle \in FulfilJob /\ Idle.pc \in NeedsNothing
  BY IdleIsJob DEF NeedsNothing
<1>1. CASE CreateOrder(w)
  <2> DEFINE new == [NoOrder EXCEPT !.status = "PENDING"]
  <2>1. new \in Order /\ new.pay = "PENDING"
    BY DEF NoOrder, Order, Statuses, Pays, Methods
  <2>2. At(r.id, "reserve") \in FulfilJob /\ At(r.id, "reserve").pc \in NeedsNothing
    BY <1>1, <1>j, <1>i, AtIsJob DEF CreateOrder, WithId, NeedsNothing
  <2>3. r.id \in Orders /\ Transition(r.id, new) /\ Become(w, At(r.id, "reserve")) /\ ExceptOrder
    BY <1>1, <1>j, <1>i DEF CreateOrder, ExceptOrder
  <2> HIDE DEF new
  <2> QED
    BY <2>1, <2>2, <2>3, WritesAndGoes
<1>2. ASSUME NEW hold \in {"held", "late", "gone"}, Hold(r.id, hold), r.id \in Orders,
             NEW pc \in WithId \intersect NeedsNothing, Become(w, At(r.id, pc)), ExceptOrder
      PROVE  IInv'
  <2> DEFINE new == [order[r.id] EXCEPT !.hold = hold]
  <2>1. new \in Order /\ new.pay = order[r.id].pay
    BY <1>2, OrderRow DEF Order, Statuses, Pays, Methods
  <2>2. order' = [order EXCEPT ![r.id] = new]
    BY <1>2 DEF Hold
  <2>3. At(r.id, pc) \in FulfilJob /\ At(r.id, pc).pc \in NeedsNothing
    BY <1>2, AtIsJob
  <2> HIDE DEF new
  <2> QED
    BY <1>2, <2>1, <2>2, <2>3, WritesAndGoes
<1>3. CASE Reserve(w)
  BY <1>3, <1>2, <1>j, <1>i DEF Reserve, ExceptOrder, WithId, NeedsNothing
<1>4. CASE Deduct(w)
  BY <1>4, <1>2, <1>j, <1>i DEF Deduct, ExceptOrder, WithId, NeedsNothing
<1>5. CASE Release(w)
  BY <1>5, <1>2, <1>j, <1>i DEF Release, ExceptOrder, WithId, NeedsNothing
<1>6. CASE LockCart(w)
  BY <1>6, <1>0, <1>t, <1>l, GoesOnLightly DEF LockCart
<1>7. CASE CheckOut(w)
  BY <1>7, <1>0, <1>t, <1>l, GoesOnLightly DEF CheckOut
<1>8. CASE MarkFailed(w)
  <2>1. txn' \in [Orders -> {"NONE", "PENDING", "SUCCESS", "FAILED"}]
    BY <1>8, <1>t DEF MarkFailed
  <2> QED
    BY <1>8, <1>0, <1>t, <1>l, <2>1, GoesOnLightly DEF MarkFailed
<1>9. CASE OpenTransaction(w)
  <2>1. txn' \in [Orders -> {"NONE", "PENDING", "SUCCESS", "FAILED"}]
    BY <1>9, <1>t DEF OpenTransaction
  <2>2. At(r.id, "choose") \in FulfilJob /\ At(r.id, "choose").pc \in NeedsNothing
    BY <1>9, <1>j, <1>i, AtIsJob DEF OpenTransaction, WithId, NeedsNothing
  <2> QED
    BY <1>9, <1>j, <1>0, <1>t, <2>1, <2>2, GoesOnLightly DEF OpenTransaction
<1>10. CASE ChooseGateway(w)
  <2> DEFINE new == [order[r.id] EXCEPT !.status = "PENDING", !.method = "GATEWAY"]
  <2>1. r.id \in Orders
    BY <1>10, <1>j, <1>i DEF ChooseGateway
  <2>2. new \in Order /\ new.pay = order[r.id].pay
    BY <2>1, OrderRow DEF Order, Statuses, Pays, Methods
  <2>3. Transition(r.id, new) /\ Become(w, Idle) /\ ExceptOrder
    BY <1>10, <1>j DEF ChooseGateway, ExceptOrder
  <2> HIDE DEF new
  <2> QED
    BY <1>l, <2>1, <2>2, <2>3, WritesAndGoes
<1>11. CASE Debit(w)
  <2>1. r.id \in Orders
    BY <1>11, <1>j, <1>i DEF Debit
  <2>2. CASE Become(w, Idle) /\ UNCHANGED received
    BY <1>11, <2>2, <1>0, <1>t, <1>l, GoesOnLightly DEF Debit
  <2>3. CASE /\ received' = [received EXCEPT ![r.id] = @ \union {"wallet"}]
             /\ Become(w, Finalizing(r.id, "WALLET", "PAID"))
    <3> DEFINE j == Finalizing(r.id, "WALLET", "PAID")
    <3>0. "WALLET" \in Methods /\ "PAID" \in Pays
      BY DEF Methods, Pays
    <3>1. j \in FulfilJob /\ j.pc = "finalize" /\ j.pay = "PAID" /\ j.id = r.id
          /\ Become(w, j)
      BY <2>1, <2>3, <3>0, FinalizingIsJob
    <3>2. /\ received' \in [Orders -> SUBSET {"wallet", "gateway", "merchant", "cash"}]
          /\ \A o \in Orders : received[o] \subseteq received'[o]
          /\ received'[r.id] # {}
      BY <2>1, <2>3, <1>t
    <3> HIDE DEF j
    <3>3. job'[w] = j
      BY <3>1 DEF Become, IInv, TypeOK
    <3>4. Backed(job[w])' /\ ~Telling(j)
      BY <3>1, <3>2, <3>3 DEF Backed, Telling
    <3> QED
      BY <1>11, <1>0, <1>t, <3>1, <3>2, <3>4, GoesOn DEF Debit
  <2> QED
    BY <1>11, <1>j, <2>2, <2>3 DEF Debit
<1>12. CASE Ask(w)
  <2>1. r.id \in Orders
    BY <1>12, <1>j, <1>i DEF Ask
  <2>2. CASE Become(w, Idle)
    BY <1>12, <2>2, <1>0, <1>l, Rests DEF Ask, ExceptJob
  <2>3. CASE Become(w, At(r.id, "failed"))
    BY <1>12, <2>1, <2>3, <1>0, Moves DEF Ask, ExceptJob, WithId, NeedsNothing
  <2>4. CASE Verified(r.id) /\ Become(w, At(r.id, "paid"))
    <3>1. At(r.id, "paid") \in FulfilJob /\ At(r.id, "paid").pc = "paid"
          /\ At(r.id, "paid").id = r.id
      BY <2>1, AtIsJob DEF WithId
    <3>2. job'[w] = At(r.id, "paid") /\ received' = received /\ received[r.id] # {}
      BY <1>12, <2>4 DEF Ask, Become, Verified, IInv, TypeOK
    <3>3. Backed(job[w])' /\ ~Telling(At(r.id, "paid"))
      BY <3>1, <3>2 DEF Backed, Telling
    <3> QED
      BY <1>12, <2>4, <1>0, <1>t, <3>1, <3>2, <3>3, GoesOn DEF Ask
  <2> QED
    BY <1>12, <1>j, <2>2, <2>3, <2>4 DEF Ask
<1>13. CASE MarkSuccess(w)
  <2> DEFINE j == Finalizing(r.id, "NONE", "PAID")
  <2>0. "NONE" \in Methods /\ "PAID" \in Pays /\ r.id \in Orders
    BY <1>13, <1>j, <1>i DEF MarkSuccess, Methods, Pays
  <2>1. j \in FulfilJob /\ j.pc = "finalize" /\ j.pay = "PAID" /\ j.id = r.id
        /\ Become(w, j)
    BY <1>13, <1>j, <2>0, FinalizingIsJob DEF MarkSuccess
  <2>2. txn' \in [Orders -> {"NONE", "PENDING", "SUCCESS", "FAILED"}]
    BY <1>13, <1>t DEF MarkSuccess
  <2>3. received' = received /\ received[r.id] # {}
    BY <1>13, <1>j DEF MarkSuccess, Backed
  <2> HIDE DEF j
  <2>4. job'[w] = j
    BY <2>1 DEF Become, IInv, TypeOK
  <2>5. Backed(job[w])' /\ ~Telling(j)
    BY <2>1, <2>3, <2>4 DEF Backed, Telling
  <2> QED
    BY <1>13, <1>0, <1>t, <2>1, <2>2, <2>3, <2>5, GoesOn DEF MarkSuccess
<1>14. CASE Finalize(w)
  <2> DEFINE m == IF r.method = "NONE" THEN order[r.id].method ELSE r.method
             new == [order[r.id] EXCEPT !.status = "CONFIRMED", !.pay = r.pay, !.method = m]
  <2>1. r.id \in Orders /\ r.pay \in Pays /\ r.method \in Methods
    BY <1>14, <1>j, <1>i, JobShape DEF Finalize
  <2>2. m \in Methods
    BY <2>1 DEF IInv, TypeOK, Order
  <2>3. new \in Order /\ new.pay = r.pay
    <3> HIDE DEF m
    <3> QED
      BY <2>1, <2>2, OrderRow DEF Order, Statuses
  <2>4. Transition(r.id, new)
    BY <1>14, <1>j DEF Finalize
  <2>5. At(r.id, "deduct") \in FulfilJob /\ At(r.id, "deduct").pc \in NeedsNothing
    BY <2>1, AtIsJob DEF WithId, NeedsNothing
  <2>6. r.pay = "PENDING" \/ (r.pay = "PAID" /\ received[r.id] # {})
    BY <1>14, <1>j DEF Finalize, Backed
  <2>7. /\ Become(w, At(r.id, "deduct"))
        /\ UNCHANGED <<cart, txn, received, crashes>>
        /\ UNCHANGED <<case, settlement, ledgers>>
        /\ delivery' = delivery /\ dispute' = dispute
    BY <1>14, <1>j, <1>0 DEF Finalize, rider
  <2>8. /\ delivery' \in [Orders -> {"NONE", "ASSIGNED", "ACCEPTED", "DELIVERED"}]
        /\ dispute' \in [Orders -> {"NONE", "OPEN", "RESOLVED"}]
    BY <2>7 DEF IInv, TypeOK
  <2> HIDE DEF new
  <2> QED
    BY <1>0, <2>1, <2>3, <2>4, <2>5, <2>6, <2>7, <2>8, Writes
<1> DEFINE CartJob == [pc : {"cart", "unlock"}, then : {Idle} \union CleanupJob]
<1>16. \A j \in CartJob : j \in FulfilJob /\ j.pc \in NeedsNothing /\ j.then \in FulfilJob
                          /\ j.then.pc \in NeedsNothing
  BY IdleIsJob, CleanupIsJob DEF NeedsNothing
<1>17. CASE CancelWrite(w)
  <2> DEFINE new == [order[r.id] EXCEPT !.status = "CANCELLED"]
  <2>1. r.id \in Orders
    BY <1>17, <1>j, <1>i DEF CancelWrite
  <2>2. new \in Order /\ new.pay = order[r.id].pay
    BY <2>1, OrderRow DEF Order, Statuses, Pays, Methods
  <2>3. Transition(r.id, new) /\ Become(w, Unlocking(Idle)) /\ ExceptOrder
    BY <1>17, <1>j DEF CancelWrite, ExceptOrder
  <2>4. Unlocking(Idle) \in CartJob
    BY DEF Unlocking
  <2> HIDE DEF new, CartJob
  <2> QED
    BY <1>16, <2>1, <2>2, <2>3, <2>4, WritesAndGoes
<1>18. CASE ExpireOrder(w)
  <2>1. r \in CleanupJob
    BY <1>18, <1>j, JobShape DEF ExpireOrder
  <2>2. PICK o \in r.todo :
          /\ Transition(o, [order[o] EXCEPT !.status = "CANCELLED", !.pay = "FAILED"])
          /\ Become(w, Unlocking([r EXCEPT !.todo = @ \ {o}]))
    BY <1>18, <1>j DEF ExpireOrder
  <2>3. o \in Orders
    BY <2>1 DEF CleanupJob
  <2> DEFINE new == [order[o] EXCEPT !.status = "CANCELLED", !.pay = "FAILED"]
  <2>4. new \in Order /\ new.pay = "FAILED"
    BY <2>3, OrderRow DEF Order, Statuses, Pays, Methods
  <2>5. [r EXCEPT !.todo = @ \ {o}] \in CleanupJob
    BY <2>1 DEF CleanupJob
  <2>6. Unlocking([r EXCEPT !.todo = @ \ {o}]) \in CartJob
    BY <2>5 DEF Unlocking
  <2>7. ExceptOrder
    BY <1>18 DEF ExpireOrder, ExceptOrder
  <2> HIDE DEF new, CartJob
  <2> QED
    BY <1>16, <2>2, <2>3, <2>4, <2>6, <2>7, WritesAndGoes DEF new
<1>19. CASE ReadCart(w)
  <2>1. r \in CartJob
    BY <1>19, <1>j, JobShape DEF ReadCart
  <2>2. [r EXCEPT !.pc = "unlock"] \in CartJob
    BY <2>1
  <2>3. PICK j \in {r.then, [r EXCEPT !.pc = "unlock"]} : Become(w, j)
    BY <1>19, <1>j DEF ReadCart
  <2> HIDE DEF CartJob
  <2> QED
    BY <1>19, <1>0, <1>16, <2>1, <2>2, <2>3, Rests DEF ReadCart, ExceptJob
<1>20. CASE Unlock(w)
  <2>1. r \in CartJob
    BY <1>20, <1>j, JobShape DEF Unlock
  <2> HIDE DEF CartJob
  <2> QED
    BY <1>20, <1>0, <1>j, <1>t, <1>16, <2>1, GoesOnLightly DEF Unlock
<1>21. CASE ReleaseExpired(w)
  <2>1. job' = [job EXCEPT ![w] = Idle] /\ ExceptOrder
    BY <1>21 DEF ReleaseExpired, Become, ExceptOrder
  <2>2. \A o \in Orders : order'[o] \in Order /\ order'[o].pay = order[o].pay
    <3> SUFFICES ASSUME NEW o \in Orders
                 PROVE  order'[o] \in Order /\ order'[o].pay = order[o].pay
      OBVIOUS
    <3> DEFINE h == IF order[o].hold = "late" THEN "gone" ELSE order[o].hold
    <3>1. h \in {"held", "late", "gone"}
      BY DEF IInv, TypeOK, Order
    <3>2. order'[o] = [order[o] EXCEPT !.hold = h]
      BY <1>21 DEF ReleaseExpired
    <3> HIDE DEF h
    <3> QED
      BY <3>1, <3>2, OrderRow DEF Order, Statuses, Pays, Methods
  <2>3. order' \in [Orders -> Order]
    BY <1>21, <2>2 DEF ReleaseExpired
  <2>4. job' \in [Workers -> FulfilJob]
    BY <2>1, <1>l DEF IInv, TypeOK
  <2>5. TypeOK'
    BY <1>0, <2>1, <2>3, <2>4 DEF IInv, TypeOK, ExceptOrder, rider, ledgers, merchant
  <2>6. \A v \in Workers : job'[v] = job[v] \/ (Backed(job[v])' /\ ~Telling(job[v])')
    BY <2>1, IdleIsJob DEF IInv, TypeOK, Backed, Telling
  <2> QED
    BY <1>0, <2>1, <2>2, <2>5, <2>6, Unposted DEF ExceptOrder
<1> QED
  BY <1>1, <1>3, <1>4, <1>5, <1>6, <1>7, <1>8, <1>9, <1>10, <1>11, <1>12, <1>13, <1>14,
     <1>17, <1>18, <1>19, <1>20, <1>21 DEF PaymentStep

-------------------------------------------------------------------------------
\* Calls, events and sweeps after the confirmation begin a handler. Only
\* confirmPaymentReceived takes the word of somebody for money.
LEMMA FulfilRequestKeepsIInv ==
  ASSUME IInv, NEW w \in Workers, NEW o \in Orders, FulfilRequest(w, o)
  PROVE  IInv'
<1>0. UNCHANGED fulfilVars => UNCHANGED <<rider, case, settlement, ledgers>> /\ events' \subseteq events
  BY DEF fulfilVars
<1>t. /\ cart \in {"ACTIVE", "LOCKED", "CHECKED_OUT"}
      /\ txn \in [Orders -> {"NONE", "PENDING", "SUCCESS", "FAILED"}]
      /\ received \in [Orders -> SUBSET {"wallet", "gateway", "merchant", "cash"}]
      /\ crashes \in 0..MaxCrashes
      /\ job \in [Workers -> FulfilJob]
  BY DEF IInv, TypeOK
<1>1. ASSUME NEW from \in Statuses, NEW to \in {"PREPARING", "READY"}, Advance(w, o, from, to)
      PROVE  IInv'
  <2>1. [pc |-> "advance", id |-> o, to |-> to] \in FulfilJob
    BY DEF FulfilJob
  <2> QED
    BY <1>0, <1>1, <2>1, Rests DEF Advance, NeedsNothing
<1>2. ASSUME NEW from \in SUBSET Statuses, NEW tell \in BOOLEAN, CallOff(w, o, from, tell)
      PROVE  IInv'
  <2>0. ExceptJob /\ UNCHANGED fulfilVars
    BY <1>2 DEF CallOff
  <2>1. PICK j \in FulfilJob : /\ Become(w, j) /\ j.id = o /\ ~Telling(j)
                              /\ \/ j.pc = "refund" /\ order[o].pay = "PAID"
                                 \/ j.pc = "callOff" /\ ~j.paid
    <3>1. CASE order[o].pay = "PAID"
      <4> DEFINE j == [pc |-> "refund", id |-> o, tell |-> tell]
      <4>1. j \in FulfilJob /\ j.pc = "refund" /\ j.id = o
        BY DEF FulfilJob
      <4>2. Become(w, j)
        BY <1>2, <3>1 DEF CallOff
      <4> HIDE DEF j
      <4> QED
        BY <3>1, <4>1, <4>2 DEF Telling
    <3>2. CASE order[o].pay # "PAID"
      <4> DEFINE j == [pc |-> "callOff", id |-> o, paid |-> FALSE, tell |-> FALSE]
      <4>1. j \in FulfilJob /\ j.pc = "callOff" /\ j.id = o /\ ~j.paid /\ ~j.tell
        BY DEF FulfilJob
      <4>2. Become(w, j)
        BY <1>2, <3>2 DEF CallOff
      <4> HIDE DEF j
      <4> QED
        BY <3>2, <4>1, <4>2 DEF Telling
    <3> QED
      BY <3>1, <3>2
  <2>2. job'[w] = j /\ received' = received
    BY <2>0, <2>1, <1>t DEF Become, ExceptJob
  <2>3. order[o].pay = "PAID" => received[o] # {}
    BY DEF IInv, Postings, MoneyIsReceived
  <2>4. Backed(job[w])'
    BY <2>1, <2>2, <2>3 DEF Backed
  <2> QED
    BY <1>0, <1>t, <2>0, <2>1, <2>4, GoesOn DEF ExceptJob
<1>3. CASE ConfirmReceived(w, o)
  <2> DEFINE j == [pc |-> "markPaid", id |-> o, status |-> order[o].status,
                   again |-> order[o].status = "READY"]
  <2>1. order[o].status \in Statuses
    BY OrderRow DEF Order
  <2>2. j \in FulfilJob /\ j.pc = "markPaid" /\ j.id = o
    BY <2>1 DEF FulfilJob
  <2>3. Become(w, j)
    BY <1>3 DEF ConfirmReceived
  <2>4. /\ received' \in [Orders -> SUBSET {"wallet", "gateway", "merchant", "cash"}]
        /\ \A p \in Orders : received[p] \subseteq received'[p]
        /\ received'[o] # {}
    BY <1>3, <1>t DEF ConfirmReceived
  <2>5. UNCHANGED <<order, cart, txn, crashes>> /\ UNCHANGED fulfilVars
    BY <1>3 DEF ConfirmReceived
  <2> HIDE DEF j
  <2>6. job'[w] = j
    BY <2>3, <1>t DEF Become
  <2>7. Backed(job[w])' /\ ~Telling(j)
    BY <2>2, <2>4, <2>6 DEF Backed, Telling
  <2> QED
    BY <1>0, <1>t, <2>2, <2>3, <2>4, <2>5, <2>7, GoesOn
<1>4. CASE RaiseDispute(w, o)
  BY <1>0, <1>4, Moves DEF RaiseDispute, WithId, NeedsNothing
<1>5. CASE ResolveDispute(w, o)
  BY <1>0, <1>5, Moves DEF ResolveDispute, WithId, NeedsNothing
<1>6. ASSUME NEW pc \in {"adminRefund", "reverse"}, Become(w, At(o, pc)), received[o] # {},
             ExceptJob, UNCHANGED fulfilVars
      PROVE  IInv'
  <2>1. At(o, pc) \in FulfilJob /\ At(o, pc).pc = pc /\ At(o, pc).id = o
    BY AtIsJob DEF WithId
  <2>2. job'[w] = At(o, pc) /\ received' = received
    BY <1>6, <1>t DEF Become, ExceptJob
  <2>3. Backed(job[w])' /\ ~Telling(At(o, pc))
    BY <1>6, <2>1, <2>2 DEF Backed, Telling
  <2> QED
    BY <1>0, <1>t, <1>6, <2>1, <2>3, GoesOn DEF ExceptJob
<1>7. CASE AdminRefund(w, o)
  <2>1. received[o] # {}
    BY <1>7 DEF AdminRefund, IInv, Postings, MoneyIsReceived
  <2> QED
    BY <1>6, <1>7, <2>1 DEF AdminRefund
<1>8. CASE ReverseByOperator(w, o)
  <2>1. received[o] # {}
    BY <1>8 DEF ReverseByOperator, Reversible, IInv, Postings, MoneyIsReceived, RefundIsPosted
  <2> QED
    BY <1>6, <1>8, <2>1 DEF ReverseByOperator
<1>9. CASE Recover(w, o, "OPERATOR")
  <2> DEFINE j == [pc |-> "claim", id |-> o, by |-> "OPERATOR", pay |-> order[o].pay,
                   method |-> order[o].method]
  <2>1. order[o].pay \in Pays /\ order[o].method \in Methods
    BY OrderRow DEF Order
  <2>2. j \in FulfilJob /\ j.pc = "claim"
    BY <2>1 DEF FulfilJob, Actor
  <2>3. Become(w, j) /\ ExceptJob /\ UNCHANGED fulfilVars
    BY <1>9 DEF Recover
  <2> HIDE DEF j
  <2> QED
    BY <1>0, <2>2, <2>3, Rests DEF NeedsNothing
<1> QED
  BY <1>1, <1>2, <1>3, <1>4, <1>5, <1>7, <1>8, <1>9 DEF FulfilRequest, Statuses

LEMMA EventKeepsIInv ==
  ASSUME IInv, NEW w \in Workers, NEW o \in Orders, HandleEvent(w, o)
  PROVE  IInv'
<1>0. UNCHANGED <<case, settlement, ledgers>> /\ UNCHANGED rider /\ ExceptJob /\ events' \subseteq events
  BY DEF HandleEvent, Dispatch, MarkCashReceived, BeginSettlement, BeginReversal
<1>l. Idle \in FulfilJob /\ Idle.pc \in NeedsNothing
  BY IdleIsJob DEF NeedsNothing
<1>t. /\ cart \in {"ACTIVE", "LOCKED", "CHECKED_OUT"}
      /\ txn \in [Orders -> {"NONE", "PENDING", "SUCCESS", "FAILED"}]
      /\ received \in [Orders -> SUBSET {"wallet", "gateway", "merchant", "cash"}]
      /\ crashes \in 0..MaxCrashes
      /\ job \in [Workers -> FulfilJob]
  BY DEF IInv, TypeOK
<1>1. CASE Become(w, Idle)
  BY <1>0, <1>1, <1>l, Rests
<1>2. CASE Become(w, At(o, "dispatch"))
  BY <1>0, <1>2, Moves DEF WithId, NeedsNothing
<1>3. \A pc \in {"insertRow", "takeBack"} :
        Settling(o, pc) \in FulfilJob /\ Settling(o, pc).pc = pc /\ Settling(o, pc).id = o
  <2>1. order[o].method \in Methods
    BY OrderRow DEF Order
  <2> QED
    BY <2>1 DEF Settling, FulfilJob
<1>4. ASSUME NEW j \in FulfilJob, Become(w, j), j.id = o,
             \/ j.pc = "markPaid" /\ received[o] # {}
             \/ j.pc = "takeBack" /\ Settled(o) /\ o \in refunded
      PROVE  IInv'
  <2>1. job'[w] = j /\ received' = received /\ refunded' = refunded
        /\ (Settled(o)' <=> Settled(o))
    BY <1>0, <1>4, <1>t DEF Become, ExceptJob, ledgers, merchant, Settled
  <2>2. Backed(job[w])' /\ ~Telling(j)
    BY <1>4, <2>1 DEF Backed, Telling
  <2> QED
    BY <1>0, <1>t, <1>4, <2>2, GoesOn DEF ExceptJob
<1>5. CASE Dispatch(w, o)
  BY <1>1, <1>2, <1>5 DEF Dispatch
<1>6. CASE BeginSettlement(w, o)
  <2>1. Become(w, Idle) \/ Become(w, Settling(o, "insertRow"))
    BY <1>6 DEF BeginSettlement
  <2>2. Settling(o, "insertRow").pc \in NeedsNothing
    BY <1>3 DEF NeedsNothing
  <2> QED
    BY <1>0, <1>1, <1>3, <2>1, <2>2, Rests
<1>7. CASE MarkCashReceived(w, o)
  <2> DEFINE j == [pc |-> "markPaid", id |-> o, status |-> order[o].status, again |-> FALSE]
  <2>1. order[o].status \in Statuses
    BY OrderRow DEF Order
  <2>2. j \in FulfilJob /\ j.pc = "markPaid" /\ j.id = o
    BY <2>1 DEF FulfilJob
  <2>3. received[o] # {}
    BY <1>7 DEF MarkCashReceived, IInv, EventsBacked
  <2>4. Become(w, Idle) \/ Become(w, j)
    BY <1>7 DEF MarkCashReceived
  <2> HIDE DEF j
  <2> QED
    BY <1>1, <1>4, <2>2, <2>3, <2>4
<1>8. CASE BeginReversal(w, o)
  <2>1. o \in refunded
    BY <1>8 DEF BeginReversal, IInv, EventsBacked
  <2>2. ReversalDue(o) => Settled(o)
    BY DEF ReversalDue, IInv, Postings, SettlementIsPosted
  <2>3. Become(w, Idle) \/ (ReversalDue(o) /\ Become(w, Settling(o, "takeBack")))
    BY <1>8 DEF BeginReversal
  <2> QED
    BY <1>1, <1>3, <1>4, <2>1, <2>2, <2>3
<1> QED
  BY <1>5, <1>6, <1>7, <1>8 DEF HandleEvent

LEMMA SweepKeepsIInv ==
  ASSUME IInv, NEW w \in Workers, NEW o \in Orders, OrderSweep(w, o)
  PROVE  IInv'
<1>0. UNCHANGED fulfilVars => UNCHANGED <<rider, case, settlement, ledgers>> /\ events' \subseteq events
  BY DEF fulfilVars
<1>1. CASE BeginCompletion(w, o)
  BY <1>0, <1>1, Moves DEF BeginCompletion, WithId, NeedsNothing
<1>2. CASE BeginRaise(w, o)
  BY <1>0, <1>2, Moves DEF BeginRaise, WithId, NeedsNothing
<1>3. CASE Recover(w, o, "AUTOMATIC")
  <2> DEFINE j == [pc |-> "claim", id |-> o, by |-> "AUTOMATIC", pay |-> order[o].pay,
                   method |-> order[o].method]
  <2>1. order[o].pay \in Pays /\ order[o].method \in Methods
    BY OrderRow DEF Order
  <2>2. j \in FulfilJob /\ j.pc = "claim"
    BY <2>1 DEF FulfilJob, Actor
  <2>3. Become(w, j) /\ ExceptJob /\ UNCHANGED fulfilVars
    BY <1>3 DEF Recover
  <2> HIDE DEF j
  <2> QED
    BY <1>0, <2>2, <2>3, Rests DEF NeedsNothing
<1> QED
  BY <1>1, <1>2, <1>3 DEF OrderSweep

LEMMA CleanupKeepsIInv ==
  ASSUME IInv, NEW w \in Workers, BeginCleanup(w), UNCHANGED fulfilVars
  PROVE  IInv'
<1> DEFINE j == [pc |-> "cleanup", todo |-> {p \in Orders : Expired(p)}]
<1>1. UNCHANGED <<rider, case, settlement, ledgers>> /\ events' \subseteq events
  BY DEF fulfilVars
<1>2. j \in FulfilJob /\ j.pc = "cleanup"
  BY DEF FulfilJob, PaymentJob, CleanupJob
<1>3. Become(w, j) /\ ExceptJob
  BY DEF BeginCleanup, ExceptJob
<1> HIDE DEF j
<1> QED
  BY <1>1, <1>2, <1>3, Rests DEF NeedsNothing

-------------------------------------------------------------------------------
\* Postings. Nobody else's money disappears when one is made.
LEMMA OthersBacked ==
  ASSUME IInv, NEW v \in Workers, job'[v] = job[v],
         \A p \in Orders : received[p] \subseteq received'[p],
         refunded \subseteq refunded', takenBack \subseteq takenBack',
         \A o \in Orders : Settled(o) => Settled(o)'
  PROVE  Backed(job[v])'
<1>1. job[v] \in FulfilJob /\ Backed(job[v])
  BY JobIsBacked
<1>2. job[v].pc \notin {"idle", "cleanup", "cart", "unlock"} => job[v].id \in Orders
  BY <1>1, JobShape
<1> QED
  BY <1>1, <1>2 DEF Backed

\* A handler that posts and goes on; it may become the one that tells the customer
\* only when the posting was the first.
LEMMA Posting ==
  ASSUME IInv, NEW w \in Workers, NEW j \in FulfilJob, Become(w, j), Backed(job[w])',
         ExceptJob, UNCHANGED <<rider, settlement, told, events>>,
         case' \in [Orders -> Case], \A o \in Orders : case'[o].outcome = case[o].outcome,
         refunded' \in SUBSET Orders, paidOut' \in SUBSET Orders, takenBack' \in SUBSET Orders,
         deducted' \in [Orders -> Shares],
         refunded \subseteq refunded', takenBack \subseteq takenBack',
         \A o \in Orders : Settled(o) => Settled(o)',
         \A o \in refunded' \ refunded : received[o] # {},
         \A o \in takenBack' \ takenBack : Settled(o)' /\ o \in refunded',
         \A o \in Orders : Telling(j) /\ j.id = o => Tells(w, o) \/ o \in refunded' \ refunded
  PROVE  IInv'
<1>1. /\ job'[w] = j /\ \A v \in Workers : v # w => job'[v] = job[v]
      /\ job' \in [Workers -> FulfilJob]
  BY DEF Become, IInv, TypeOK
<1>2. TypeOK'
  BY <1>1 DEF IInv, TypeOK, ExceptJob, rider
<1>3. MoneyIsReceived'
  BY DEF IInv, TypeOK, Postings, MoneyIsReceived, ExceptJob
<1>4. RefundIsPosted'
  BY DEF IInv, TypeOK, Postings, RefundIsPosted, ExceptJob
<1>5. SettlementIsPosted'
  BY DEF IInv, TypeOK, Postings, SettlementIsPosted, ExceptJob
<1>6. JobsBacked'
  BY <1>1, OthersBacked DEF JobsBacked, ExceptJob
<1>7. EventsBacked'
  BY DEF IInv, EventsBacked, ExceptJob
<1>8. OneTeller'
  <2> SUFFICES ASSUME NEW o \in Orders
               PROVE  /\ \A u, v \in Workers : (Tells(u, o) /\ Tells(v, o))' => u = v
                      /\ (told[o] > 0 \/ o \notin refunded)' => \A v \in Workers : ~Tells(v, o)'
    BY DEF OneTeller
  <2>1. /\ \A v \in Workers : v # w => (Tells(v, o)' <=> Tells(v, o))
        /\ Tells(w, o)' => Tells(w, o) \/ o \in refunded' \ refunded
    BY <1>1 DEF Tells, Telling
  <2>2. /\ \A u, v \in Workers : Tells(u, o) /\ Tells(v, o) => u = v
        /\ told[o] > 0 \/ o \notin refunded => \A v \in Workers : ~Tells(v, o)
    BY DEF IInv, OneTeller
  <2>3. told' = told /\ (told[o] > 0 => o \in refunded)
    BY DEF IInv, Postings, RefundIsPosted
  <2> QED
    BY <2>1, <2>2, <2>3
<1> QED
  BY <1>2, <1>3, <1>4, <1>5, <1>6, <1>7, <1>8 DEF IInv, Postings

\* A handler that tells the customer (or not) and comes to its end.
LEMMA TellingEnds ==
  ASSUME IInv, NEW w \in Workers, Become(w, Idle), NEW o \in Orders, o = job[w].id,
         NEW tells \in BOOLEAN, tells <=> Telling(job[w]), tells => o \in refunded,
         told' = [told EXCEPT ![o] = @ + IF tells THEN 1 ELSE 0],
         ExceptOrder, UNCHANGED <<rider, settlement, refunded, merchant, events>>,
         order' \in [Orders -> Order],
         \A p \in Orders : order'[p].pay = order[p].pay
                             \/ (order'[p].pay = "REFUNDED" /\ p \in refunded),
         case' \in [Orders -> Case],
         \A p \in Orders : case'[p].outcome = case[p].outcome \/ p \in refunded
  PROVE  IInv'
<1>1. /\ job'[w] = Idle /\ \A v \in Workers : v # w => job'[v] = job[v]
      /\ job' \in [Workers -> FulfilJob]
  BY IdleIsJob DEF Become, IInv, TypeOK
<1>2. told \in [Orders -> Nat] /\ told' \in [Orders -> Nat]
      /\ \A p \in Orders : p # o => told'[p] = told[p]
      /\ told'[o] = told[o] + IF tells THEN 1 ELSE 0
  BY DEF IInv, TypeOK
<1>3. tells => told[o] = 0
  <2>1. tells => Tells(w, o)
    BY DEF Tells
  <2>2. told[o] > 0 => ~Tells(w, o)
    BY DEF IInv, OneTeller
  <2> QED
    BY <2>1, <2>2, <1>2
<1>4. TypeOK'
  BY <1>1, <1>2 DEF IInv, TypeOK, ExceptOrder, rider, merchant
<1>5. MoneyIsReceived'
  BY DEF IInv, Postings, MoneyIsReceived, ExceptOrder
<1>6. RefundIsPosted'
  <2> SUFFICES ASSUME NEW p \in Orders
               PROVE  /\ \/ order'[p].pay = "REFUNDED"
                         \/ case'[p].outcome = "REVERSAL_CONFIRMED"
                         \/ told'[p] > 0
                         => p \in refunded
                      /\ told'[p] <= 1
    BY DEF RefundIsPosted
  <2>1. /\ \/ order[p].pay = "REFUNDED"
           \/ case[p].outcome = "REVERSAL_CONFIRMED"
           \/ told[p] > 0
           => p \in refunded
        /\ told[p] <= 1
    BY DEF IInv, Postings, RefundIsPosted
  <2> QED
    BY <1>2, <1>3, <2>1
<1>7. SettlementIsPosted'
  BY DEF IInv, Postings, SettlementIsPosted, Settled, merchant
<1>8. JobsBacked'
  <2>1. Backed(job[w])'
    BY <1>1, IdleIsJob DEF Backed
  <2> QED
    BY <1>1, <2>1, OthersBacked DEF JobsBacked, ExceptOrder, Settled, merchant
<1>9. EventsBacked'
  BY DEF IInv, EventsBacked, ExceptOrder
<1>10. OneTeller'
  <2> SUFFICES ASSUME NEW p \in Orders
               PROVE  /\ \A u, v \in Workers : (Tells(u, p) /\ Tells(v, p))' => u = v
                      /\ (told[p] > 0 \/ p \notin refunded)' => \A v \in Workers : ~Tells(v, p)'
    BY DEF OneTeller
  <2>1. /\ \A v \in Workers : v # w => (Tells(v, p)' <=> Tells(v, p))
        /\ ~Tells(w, p)'
        /\ tells => Tells(w, o)
    BY <1>1, IdleIsJob DEF Tells, Telling
  <2>2. /\ \A u, v \in Workers : Tells(u, p) /\ Tells(v, p) => u = v
        /\ told[p] > 0 \/ p \notin refunded => \A v \in Workers : ~Tells(v, p)
    BY DEF IInv, OneTeller
  <2>3. told'[p] > 0 => told[p] > 0 \/ (p = o /\ tells)
    BY <1>2
  <2> QED
    BY <2>1, <2>2, <2>3
<1> QED
  BY <1>4, <1>5, <1>6, <1>7, <1>8, <1>9, <1>10 DEF IInv, Postings

\* A handler that writes down a delivery, a dispute, a case or a settlement and goes on.
LEMMA Notes ==
  ASSUME IInv, NEW w \in Workers, NEW j \in FulfilJob, Become(w, j), j.pc \in NeedsNothing,
         ExceptJob, UNCHANGED <<ledgers, events>>,
         delivery' \in [Orders -> {"NONE", "ASSIGNED", "ACCEPTED", "DELIVERED"}],
         dispute' \in [Orders -> {"NONE", "OPEN", "RESOLVED"}],
         case' \in [Orders -> Case],
         \A o \in Orders : case'[o].outcome \in {case[o].outcome, "REVERSAL_FAILED"},
         settlement' \in [Orders -> {"NONE", "PENDING", "COMPLETED", "FAILED", "REVERSED"}],
         \A o \in Orders :
           \/ settlement'[o] \in {settlement[o], "PENDING", "FAILED"}
           \/ settlement'[o] = "COMPLETED" /\ Settled(o)
           \/ settlement'[o] = "REVERSED" /\ o \in takenBack
  PROVE  IInv'
<1>1. /\ job'[w] = j /\ \A v \in Workers : v # w => job'[v] = job[v]
      /\ job' \in [Workers -> FulfilJob]
  BY DEF Become, IInv, TypeOK
<1>2. TypeOK'
  BY <1>1 DEF IInv, TypeOK, ExceptJob, ledgers, merchant
<1>3. Backed(job[w])' /\ ~Telling(job[w])'
  BY <1>1 DEF NeedsNothing, Backed, Telling
<1> QED
  BY <1>1, <1>2, <1>3, Unposted DEF ExceptJob

\* The status of a case is written alone.
CaseStatuses == {"NONE", "PENDING", "AWAITING_FINANCIAL_RETRY", "AWAITING_INVESTIGATION",
                 "CLOSED"}
LEMMA CaseStatusAlone ==
  ASSUME IInv, NEW o \in Orders, NEW s \in CaseStatuses, case' = [case EXCEPT ![o].status = s]
  PROVE  /\ case' \in [Orders -> Case]
         /\ \A p \in Orders : case'[p].outcome = case[p].outcome
<1> DEFINE new == [case[o] EXCEPT !.status = s]
<1>1. case \in [Orders -> Case]
  BY DEF IInv, TypeOK
<1>2. new \in Case /\ new.outcome = case[o].outcome
  BY <1>1 DEF Case, CaseStatuses
<1>3. case' = [case EXCEPT ![o] = new]
  OBVIOUS
<1> HIDE DEF new
<1> QED
  BY <1>1, <1>2, <1>3

LEMMA FulfilStepKeepsIInv ==
  ASSUME IInv, NEW w \in Workers, FulfilStep(w)
  PROVE  IInv'
<1>j. PICK r \in FulfilJob : r = job[w] /\ Backed(job[w])
  BY JobIsBacked
<1>i. r.pc \notin {"idle", "cleanup", "cart", "unlock"} => r.id \in Orders
  BY JobShape
<1>t. /\ cart \in {"ACTIVE", "LOCKED", "CHECKED_OUT"}
      /\ txn \in [Orders -> {"NONE", "PENDING", "SUCCESS", "FAILED"}]
      /\ received \in [Orders -> SUBSET {"wallet", "gateway", "merchant", "cash"}]
      /\ crashes \in 0..MaxCrashes
      /\ job \in [Workers -> FulfilJob]
      /\ delivery \in [Orders -> {"NONE", "ASSIGNED", "ACCEPTED", "DELIVERED"}]
      /\ dispute \in [Orders -> {"NONE", "OPEN", "RESOLVED"}]
      /\ case \in [Orders -> Case]
      /\ settlement \in [Orders -> {"NONE", "PENDING", "COMPLETED", "FAILED", "REVERSED"}]
      /\ refunded \in SUBSET Orders /\ paidOut \in SUBSET Orders /\ takenBack \in SUBSET Orders
      /\ deducted \in [Orders -> Shares]
  BY DEF IInv, TypeOK
<1>l. Idle \in FulfilJob /\ Idle.pc \in NeedsNothing
  BY IdleIsJob DEF NeedsNothing
\* An order written at the end of a handler.
<1>a. ASSUME NEW o \in Orders, NEW new \in Order,
             \/ order' = [order EXCEPT ![o] = new] \/ Transition(o, new),
             \/ new.pay = order[o].pay
             \/ new.pay = "PAID" /\ received[o] # {}
             \/ new.pay = "REFUNDED" /\ o \in refunded,
             Become(w, Idle), ExceptOrder, UNCHANGED <<delivery, case, settlement, ledgers>>,
             dispute' \in [Orders -> {"NONE", "OPEN", "RESOLVED"}],
             \/ events' = events
             \/ \E name \in {"READY", "COMPLETED"} : Emit(name, o)
             \/ Emit("REFUNDED", o) /\ o \in refunded
      PROVE  IInv'
  <2>1. \/ events' = events
        \/ \E e \in Event : events' = events \union {e} /\ e.name \in {"READY", "COMPLETED"}
        \/ \E e \in Event : events' = events \union {e} /\ e.name = "REFUNDED" /\ e.id \in refunded
    <3>1. ASSUME NEW name \in {"READY", "COMPLETED", "REFUNDED"}, Emit(name, o)
          PROVE  \E e \in Event : events' = events \union {e} /\ e.name = name /\ e.id = o
      <4> DEFINE e == [name |-> name, id |-> o]
      <4>1. e \in Event /\ e.name = name /\ e.id = o
        BY DEF Event
      <4>2. events' = events \union {e}
        BY <3>1 DEF Emit
      <4> HIDE DEF e
      <4> QED
        BY <4>1, <4>2
    <3> QED
      BY <1>a, <3>1
  <2>2. \E v \in Workers : \E j \in FulfilJob : Become(v, j) /\ j.pc \in NeedsNothing
    BY <1>a, <1>l
  <2>3. delivery' \in [Orders -> {"NONE", "ASSIGNED", "ACCEPTED", "DELIVERED"}]
    BY <1>a, <1>t
  <2>4. UNCHANGED <<cart, txn, received, crashes>> /\ UNCHANGED <<case, settlement, ledgers>>
    BY <1>a DEF ExceptOrder
  <2>5. \/ new.pay \in {order[o].pay, "PENDING", "FAILED"}
        \/ new.pay = "PAID" /\ received[o] # {}
        \/ new.pay = "REFUNDED" /\ o \in refunded
    BY <1>a
  <2> QED
    BY <1>a, <2>1, <2>2, <2>3, <2>4, <2>5, Writes
<1>1. CASE AdvanceWrite(w)
  <2> DEFINE new == [order[r.id] EXCEPT !.status = r.to]
  <2>1. r.id \in Orders /\ r.to \in {"PREPARING", "READY"}
    BY <1>1, <1>j, <1>i, JobShape DEF AdvanceWrite
  <2>2. new \in Order /\ new.pay = order[r.id].pay
    BY <2>1, OrderRow DEF Order, Statuses
  <2>3. Transition(r.id, new) /\ Become(w, Idle) /\ ExceptOrder
        /\ UNCHANGED <<delivery, dispute, case, settlement, ledgers>>
        /\ (Emit("READY", r.id) \/ events' = events)
    BY <1>1, <1>j DEF AdvanceWrite, rider
  <2> HIDE DEF new
  <2> QED
    BY <1>a, <1>t, <2>1, <2>2, <2>3
<1>2. CASE PaidWrite(w)
  <2> DEFINE new == [order[r.id] EXCEPT !.status = r.status, !.pay = "PAID"]
  <2>1. r.id \in Orders /\ r.status \in Statuses
    BY <1>2, <1>j, <1>i, JobShape DEF PaidWrite
  <2>2. new \in Order /\ new.pay = "PAID"
    BY <2>1, OrderRow DEF Order, Pays
  <2>3. Transition(r.id, new) /\ Become(w, Idle) /\ ExceptOrder
        /\ UNCHANGED <<delivery, dispute, case, settlement, ledgers>>
        /\ (Emit("READY", r.id) \/ events' = events)
    BY <1>2, <1>j DEF PaidWrite, rider
  <2>4. received[r.id] # {}
    BY <1>2, <1>j DEF PaidWrite, Backed
  <2> HIDE DEF new
  <2> QED
    BY <1>a, <1>t, <2>1, <2>2, <2>3, <2>4
<1>3. CASE DisputeOrder(w)
  <2>1. r.id \in Orders
    BY <1>3, <1>j, <1>i DEF DisputeOrder
  <2>2. PICK s \in {"DISPUTED", "COMPLETED"} :
          Transition(r.id, [order[r.id] EXCEPT !.status = s])
    BY <1>3, <1>j DEF DisputeOrder
  <2> DEFINE new == [order[r.id] EXCEPT !.status = s]
  <2>3. new \in Order /\ new.pay = order[r.id].pay
    BY <2>1, OrderRow DEF Order, Statuses
  <2>4. Become(w, Idle) /\ ExceptOrder /\ UNCHANGED <<delivery, case, settlement, ledgers>>
        /\ events' = events /\ dispute' = dispute
    BY <1>3 DEF DisputeOrder, fulfilVars, rider
  <2>5. dispute' \in [Orders -> {"NONE", "OPEN", "RESOLVED"}]
    BY <1>t, <2>4
  <2>6. Transition(r.id, new)
    BY <2>2
  <2> HIDE DEF new
  <2> QED
    BY <1>a, <2>1, <2>3, <2>4, <2>5, <2>6
<1>4. CASE Complete(w)
  <2> DEFINE new == [order[r.id] EXCEPT !.status = "COMPLETED"]
  <2>1. r.id \in Orders
    BY <1>4, <1>j, <1>i DEF Complete
  <2>2. new \in Order /\ new.pay = order[r.id].pay
    BY <2>1, OrderRow DEF Order, Statuses
  <2>3. Transition(r.id, new) /\ Become(w, Idle) /\ ExceptOrder /\ Emit("COMPLETED", r.id)
        /\ UNCHANGED <<delivery, dispute, case, settlement, ledgers>>
    BY <1>4, <1>j DEF Complete, rider
  <2> HIDE DEF new
  <2> QED
    BY <1>a, <1>t, <2>1, <2>2, <2>3
<1>5. CASE AdminMark(w)
  <2> DEFINE new == [order[r.id] EXCEPT !.status = "REFUNDED", !.pay = "REFUNDED"]
  <2>1. r.id \in Orders
    BY <1>5, <1>j, <1>i DEF AdminMark
  <2>2. new \in Order /\ new.pay = "REFUNDED"
    BY <2>1, OrderRow DEF Order, Statuses, Pays
  <2>3. Transition(r.id, new) /\ Become(w, Idle) /\ ExceptOrder /\ Emit("REFUNDED", r.id)
        /\ UNCHANGED <<delivery, dispute, case, settlement, ledgers>>
    BY <1>5, <1>j DEF AdminMark, rider
  <2>4. r.id \in refunded
    BY <1>5, <1>j DEF AdminMark, Backed
  <2> HIDE DEF new
  <2> QED
    BY <1>a, <1>t, <2>1, <2>2, <2>3, <2>4
<1>6. CASE Raise(w)
  <2> DEFINE e == IF order[r.id].exception = "NONE" THEN "OPEN" ELSE order[r.id].exception
             new == [order[r.id] EXCEPT !.exception = e]
  <2>1. r.id \in Orders
    BY <1>6, <1>j, <1>i DEF Raise
  <2>2. e \in {"NONE", "OPEN", "RESOLVED"}
    BY <2>1, OrderRow DEF Order
  <2>3. new \in Order /\ new.pay = order[r.id].pay
    <3> HIDE DEF e
    <3> QED
      BY <2>1, <2>2, OrderRow DEF Order
  <2>4. order' = [order EXCEPT ![r.id] = new]
    BY <1>6, <1>j DEF Raise
  <2>5. Become(w, Idle) /\ ExceptOrder /\ events' = events
        /\ UNCHANGED <<delivery, dispute, case, settlement, ledgers>>
    BY <1>6 DEF Raise, fulfilVars, rider
  <2> HIDE DEF new
  <2> QED
    BY <1>a, <1>t, <2>1, <2>3, <2>4, <2>5
<1>7. CASE CancelForRecovery(w)
  <2> DEFINE new == [order[r.id] EXCEPT !.status = "CANCELLED"]
             j == [r EXCEPT !.pc = "caseStatus"]
  <2>1. r.id \in Orders
    BY <1>7, <1>j, <1>i DEF CancelForRecovery
  <2>2. new \in Order /\ new.pay = order[r.id].pay
    BY <2>1, OrderRow DEF Order, Statuses
  <2>3. j \in FulfilJob /\ j.pc \in NeedsNothing
    BY <1>7, <1>j, JobShape DEF CancelForRecovery, FulfilJob, NeedsNothing
  <2>4. Transition(r.id, new) /\ Become(w, j) /\ ExceptOrder /\ UNCHANGED fulfilVars
    BY <1>7, <1>j DEF CancelForRecovery
  <2> HIDE DEF new, j
  <2> QED
    BY <2>1, <2>2, <2>3, <2>4, WritesAndGoes
<1>8. CASE ReverseMark(w)
  <2> DEFINE new == [order[r.id] EXCEPT !.pay = "REFUNDED"]
             j == [r EXCEPT !.pc = "closeCase"]
  <2>1. r.id \in Orders
    BY <1>8, <1>j, <1>i DEF ReverseMark
  <2>2. new \in Order /\ new.pay = "REFUNDED"
    BY <2>1, OrderRow DEF Order, Pays
  <2>3. j \in FulfilJob /\ j.pc = "closeCase" /\ j.id = r.id /\ j.applied = r.applied
    BY <1>8, <1>j, JobShape DEF ReverseMark, FulfilJob
  <2>4. r.id \in refunded
    BY <1>8, <1>j DEF ReverseMark, Backed
  <2>5. order' = [order EXCEPT ![r.id] = new]
    BY <1>8, <1>j DEF ReverseMark
  <2>6. Become(w, j) /\ UNCHANGED <<cart, txn, received, crashes>>
        /\ UNCHANGED <<case, settlement, ledgers>> /\ events' = events
    BY <1>8, <1>j DEF ReverseMark, ExceptOrder, fulfilVars
  <2>7. /\ delivery' \in [Orders -> {"NONE", "ASSIGNED", "ACCEPTED", "DELIVERED"}]
        /\ dispute' \in [Orders -> {"NONE", "OPEN", "RESOLVED"}]
    BY <1>8, <1>t DEF ReverseMark, fulfilVars, rider
  <2>8. \A p \in Orders : Telling(j) /\ j.id = p => Tells(w, p)
    BY <1>8, <1>j, <2>3 DEF ReverseMark, Telling, Tells
  <2> HIDE DEF new, j
  <2> QED
    BY <2>1, <2>2, <2>3, <2>4, <2>5, <2>6, <2>7, <2>8, Writes
<1>9. CASE CreateDelivery(w)
  <2>1. delivery' \in [Orders -> {"NONE", "ASSIGNED", "ACCEPTED", "DELIVERED"}]
    BY <1>9, <1>t DEF CreateDelivery
  <2>2. Become(w, Idle) /\ ExceptJob /\ UNCHANGED <<dispute, case, settlement, ledgers, events>>
    BY <1>9 DEF CreateDelivery
  <2> QED
    BY <1>l, <1>t, <2>1, <2>2, Notes
<1>10. CASE Claim(w)
  <2>1. r \in [pc : {"claim", "cancelCase", "caseStatus"}, id : Orders, by : Actor,
                pay : Pays, method : Methods]
    BY <1>10, <1>j, JobShape DEF Claim
  <2>2. [r EXCEPT !.pc = "cancelCase"] \in FulfilJob
        /\ [r EXCEPT !.pc = "cancelCase"].pc \in NeedsNothing
    BY <2>1 DEF FulfilJob, NeedsNothing
  <2>3. PICK j \in {Idle, [r EXCEPT !.pc = "cancelCase"]} : Become(w, j)
    BY <1>10, <1>j DEF Claim
  <2>4. /\ case' \in [Orders -> Case]
        /\ \A o \in Orders : case'[o].outcome = case[o].outcome
    <3>1. r.id \in Orders /\ "PENDING" \in CaseStatuses
      BY <2>1 DEF CaseStatuses
    <3>2. case' = case \/ case' = [case EXCEPT ![r.id].status = "PENDING"]
      BY <1>10, <1>j DEF Claim
    <3> QED
      BY <1>t, <3>1, <3>2, CaseStatusAlone
  <2>5. ExceptJob /\ UNCHANGED <<dispute, ledgers, events>>
        /\ delivery' = delivery /\ settlement' = settlement
    BY <1>10 DEF Claim, rider
  <2> QED
    BY <1>l, <1>t, <2>2, <2>3, <2>4, <2>5, Notes
<1>11. CASE CaseStatus(w)
  <2>1. r.id \in Orders
    BY <1>11, <1>j, <1>i DEF CaseStatus
  <2>2. At(r.id, "readReversal") \in FulfilJob /\ At(r.id, "readReversal").pc \in NeedsNothing
    BY <2>1, AtIsJob DEF WithId, NeedsNothing
  <2>3. PICK j \in {Idle, At(r.id, "readReversal")} : Become(w, j)
    BY <1>11, <1>j DEF CaseStatus
  <2>4. /\ case' \in [Orders -> Case]
        /\ \A o \in Orders : case'[o].outcome = case[o].outcome
    <3>1. StatusAfterCancellation(r.method, r.pay) \in CaseStatuses
      BY DEF StatusAfterCancellation, CaseStatuses
    <3>2. case' = [case EXCEPT ![r.id].status = StatusAfterCancellation(r.method, r.pay)]
      BY <1>11, <1>j DEF CaseStatus
    <3> QED
      BY <2>1, <3>1, <3>2, CaseStatusAlone
  <2>5. ExceptJob /\ UNCHANGED <<dispute, ledgers, events>>
        /\ delivery' = delivery /\ settlement' = settlement
    BY <1>11 DEF CaseStatus, rider
  <2> QED
    BY <1>l, <1>t, <2>2, <2>3, <2>4, <2>5, Notes
<1>12. CASE InsertRow(w)
  <2>1. r.id \in Orders
    BY <1>12, <1>j, <1>i DEF InsertRow
  <2>2. \A pc \in {"accrue", "payDebt", "credit"} :
          At(r.id, pc) \in FulfilJob /\ At(r.id, pc).pc \in NeedsNothing
    BY <2>1, AtIsJob DEF WithId, NeedsNothing
  <2>3. PICK j \in {Idle} \union {At(r.id, pc) : pc \in {"accrue", "payDebt", "credit"}} :
          Become(w, j)
    <3>1. PayOutOf(r.method) \in {"accrue", "payDebt", "credit"}
      BY DEF PayOutOf
    <3> QED
      BY <1>12, <1>j, <3>1 DEF InsertRow
  <2>4. /\ settlement' \in [Orders -> {"NONE", "PENDING", "COMPLETED", "FAILED", "REVERSED"}]
        /\ \A o \in Orders : settlement'[o] \in {settlement[o], "PENDING"}
    BY <1>12, <1>t DEF InsertRow, SetSettlement
  <2>5. ExceptJob /\ UNCHANGED <<dispute, ledgers, events>>
        /\ delivery' = delivery /\ case' = case
    BY <1>12 DEF InsertRow, rider
  <2> QED
    BY <1>l, <1>t, <2>2, <2>3, <2>4, <2>5, Notes
<1>13. CASE CloseSettlement(w)
  <2>1. r.id \in Orders
    BY <1>13, <1>j, <1>i DEF CloseSettlement
  <2>2. At(r.id, "settleFailed") \in FulfilJob /\ At(r.id, "settleFailed").pc \in NeedsNothing
    BY <2>1, AtIsJob DEF WithId, NeedsNothing
  <2>3. PICK j \in {Idle, At(r.id, "settleFailed")} : Become(w, j)
    BY <1>13, <1>j DEF CloseSettlement
  <2>4. \/ settlement' = settlement
        \/ \E s \in {"COMPLETED", "FAILED", "REVERSED"} :
             /\ SetSettlement(r.id, s)
             /\ s = "COMPLETED" => r.pc = "settled"
             /\ s = "REVERSED" => r.pc = "reversed"
    BY <1>13, <1>j DEF CloseSettlement
  <2>5. (r.pc = "settled" => Settled(r.id)) /\ (r.pc = "reversed" => r.id \in takenBack)
    BY <1>j DEF Backed
  <2>6. /\ settlement' \in [Orders -> {"NONE", "PENDING", "COMPLETED", "FAILED", "REVERSED"}]
        /\ \A o \in Orders :
             \/ settlement'[o] \in {settlement[o], "PENDING", "FAILED"}
             \/ settlement'[o] = "COMPLETED" /\ Settled(o)
             \/ settlement'[o] = "REVERSED" /\ o \in takenBack
    BY <1>t, <2>4, <2>5 DEF SetSettlement
  <2>7. ExceptJob /\ UNCHANGED <<dispute, ledgers, events>>
        /\ delivery' = delivery /\ case' = case
    BY <1>13 DEF CloseSettlement, rider
  <2> QED
    BY <1>l, <1>t, <2>2, <2>3, <2>6, <2>7, Notes
<1>14. CASE ReadReversal(w)
  <2>1. r.id \in Orders /\ ExceptJob /\ UNCHANGED fulfilVars
    BY <1>14, <1>j, <1>i DEF ReadReversal
  <2>2. UNCHANGED <<rider, case, settlement, ledgers>> /\ events' \subseteq events
    BY <2>1 DEF fulfilVars
  <2>3. CASE Become(w, Idle)
    BY <1>l, <2>1, <2>2, <2>3, Rests
  <2>4. CASE Reversible(r.id) /\ Become(w, At(r.id, "reverse"))
    <3>1. received[r.id] # {}
      BY <2>1, <2>4 DEF Reversible, IInv, Postings, MoneyIsReceived, RefundIsPosted
    <3>2. At(r.id, "reverse") \in FulfilJob /\ At(r.id, "reverse").pc = "reverse"
          /\ At(r.id, "reverse").id = r.id
      BY <2>1, AtIsJob DEF WithId
    <3>3. job'[w] = At(r.id, "reverse") /\ received' = received
      BY <1>t, <2>1, <2>4 DEF Become, ExceptJob
    <3>4. Backed(job[w])' /\ ~Telling(At(r.id, "reverse"))
      BY <3>1, <3>2, <3>3 DEF Backed, Telling
    <3> QED
      BY <1>t, <2>1, <2>2, <2>4, <3>2, <3>4, GoesOn DEF ExceptJob
  <2> QED
    BY <1>14, <1>j, <2>3, <2>4 DEF ReadReversal
<1>15. CASE Refund(w)
  <2> DEFINE j == [pc |-> "callOff", id |-> r.id, paid |-> TRUE,
                   tell |-> r.tell /\ r.id \notin refunded]
  <2>1. r.id \in Orders /\ r.tell \in BOOLEAN
    BY <1>15, <1>j, <1>i, JobShape DEF Refund
  <2>2. j \in FulfilJob /\ j.pc = "callOff" /\ j.id = r.id /\ j.paid
        /\ (j.tell => r.id \notin refunded)
    BY <2>1 DEF FulfilJob
  <2>3. Become(w, j) /\ refunded' = refunded \union {r.id}
        /\ ExceptJob /\ UNCHANGED <<rider, settlement, told, events>>
        /\ case' = case /\ UNCHANGED merchant
    BY <1>15, <1>j DEF Refund
  <2>4. received[r.id] # {}
    BY <1>15, <1>j DEF Refund, Backed
  <2> HIDE DEF j
  <2>5. job'[w] = j
    BY <1>t, <2>3 DEF Become
  <2>6. Backed(job[w])'
    BY <2>2, <2>3, <2>5 DEF Backed
  <2>7. \A o \in Orders : Telling(j) /\ j.id = o => o \in refunded' \ refunded
    BY <2>2, <2>3 DEF Telling
  <2> QED
    BY <1>t, <2>1, <2>2, <2>3, <2>4, <2>6, <2>7, Posting DEF merchant, Settled
<1>16. CASE AdminCredit(w)
  <2> DEFINE j == At(r.id, "markRefunded")
  <2>1. r.id \in Orders
    BY <1>16, <1>j, <1>i DEF AdminCredit
  <2>2. j \in FulfilJob /\ j.pc = "markRefunded" /\ j.id = r.id
    BY <2>1, AtIsJob DEF WithId
  <2>3. Become(w, j) /\ refunded' = refunded \union {r.id}
        /\ ExceptJob /\ UNCHANGED <<rider, settlement, told, events>>
        /\ case' = case /\ UNCHANGED merchant
    BY <1>16, <1>j DEF AdminCredit
  <2>4. received[r.id] # {}
    BY <1>16, <1>j DEF AdminCredit, Backed
  <2> HIDE DEF j
  <2>5. job'[w] = j
    BY <1>t, <2>3 DEF Become
  <2>6. Backed(job[w])' /\ ~Telling(j)
    BY <2>2, <2>3, <2>5 DEF Backed, Telling
  <2> QED
    BY <1>t, <2>1, <2>2, <2>3, <2>4, <2>6, Posting DEF merchant, Settled
<1>17. CASE Reverse(w)
  <2>1. r.id \in Orders /\ ExceptJob /\ UNCHANGED <<rider, settlement, told, events>>
        /\ UNCHANGED merchant
    BY <1>17, <1>j, <1>i DEF Reverse
  <2> DEFINE j == [pc |-> "reverseMark", id |-> r.id, applied |-> r.id \notin refunded]
  <2>2. CASE refunded' = refunded \union {r.id} /\ Become(w, j) /\ case' = case
    <3>1. j \in FulfilJob /\ j.pc = "reverseMark" /\ j.id = r.id
          /\ (j.applied => r.id \notin refunded)
      BY <2>1 DEF FulfilJob
    <3>2. received[r.id] # {}
      BY <1>17, <1>j DEF Reverse, Backed
    <3> HIDE DEF j
    <3>3. job'[w] = j
      BY <1>t, <2>2 DEF Become
    <3>4. Backed(job[w])'
      BY <2>2, <3>1, <3>3 DEF Backed
    <3>5. \A o \in Orders : Telling(j) /\ j.id = o => o \in refunded' \ refunded
      BY <2>2, <3>1 DEF Telling
    <3> QED
      BY <1>t, <2>1, <2>2, <3>1, <3>2, <3>4, <3>5, Posting DEF merchant, Settled
  <2>3. CASE /\ case' = [case EXCEPT ![r.id] = [status |-> "AWAITING_FINANCIAL_RETRY",
                                               outcome |-> "REVERSAL_FAILED"]]
             /\ Become(w, Idle) /\ UNCHANGED refunded
    <3>1. /\ case' \in [Orders -> Case]
          /\ \A o \in Orders : case'[o].outcome \in {case[o].outcome, "REVERSAL_FAILED"}
      BY <1>t, <2>1, <2>3 DEF Case
    <3> QED
      BY <1>l, <1>t, <2>1, <2>3, <3>1, Notes DEF rider, ledgers, merchant
  <2> QED
    BY <1>17, <1>j, <2>2, <2>3 DEF Reverse
<1>18. CASE PayOut(w)
  <2>1. r.id \in Orders /\ ExceptJob
        /\ UNCHANGED <<rider, case, settlement, refunded, told, deducted, takenBack, events>>
    BY <1>18, <1>j, <1>i DEF PayOut
  <2>2. CASE paidOut' = paidOut \union {r.id} /\ Become(w, At(r.id, "settled"))
    <3>1. At(r.id, "settled") \in FulfilJob /\ At(r.id, "settled").pc = "settled"
          /\ At(r.id, "settled").id = r.id
      BY <2>1, AtIsJob DEF WithId
    <3>2. job'[w] = At(r.id, "settled")
      BY <1>t, <2>2 DEF Become
    <3>3. Backed(job[w])' /\ ~Telling(At(r.id, "settled"))
      BY <2>2, <3>1, <3>2 DEF Backed, Telling, Settled
    <3>4. \A o \in Orders : Settled(o) => Settled(o)'
      BY <2>1, <2>2 DEF Settled
    <3> QED
      BY <1>t, <2>1, <2>2, <3>1, <3>3, <3>4, Posting
  <2>3. CASE Become(w, At(r.id, "settleFailed")) /\ UNCHANGED paidOut
    BY <2>1, <2>3, Moves DEF ledgers, merchant, WithId, NeedsNothing
  <2> QED
    BY <1>18, <1>j, <2>2, <2>3 DEF PayOut
<1>19. CASE PayDebt(w)
  <2>1. r.id \in Orders /\ ExceptJob
        /\ UNCHANGED <<rider, case, settlement, refunded, told, paidOut, takenBack, events>>
    BY <1>19, <1>j, <1>i DEF PayDebt
  <2>2. ASSUME NEW share \in IF deducted[r.id] = "NONE" THEN Shares ELSE {deducted[r.id]},
               deducted' = [deducted EXCEPT ![r.id] = share],
               Become(w, At(r.id, IF share = "ALL" THEN "settled" ELSE "credit"))
        PROVE  IInv'
    <3> DEFINE pc == IF share = "ALL" THEN "settled" ELSE "credit"
    <3>1. share \in Shares /\ deducted' \in [Orders -> Shares] /\ deducted'[r.id] = share
      BY <1>t, <2>1, <2>2
    <3>2. At(r.id, pc) \in FulfilJob /\ At(r.id, pc).pc = pc /\ At(r.id, pc).id = r.id
      BY <2>1, AtIsJob DEF WithId
    <3>3. job'[w] = At(r.id, pc)
      BY <1>t, <2>2 DEF Become
    <3>4. Backed(job[w])' /\ ~Telling(At(r.id, pc))
      BY <3>1, <3>2, <3>3 DEF Backed, Telling, Settled
    <3>5. \A o \in Orders : Settled(o) => Settled(o)'
      BY <1>t, <2>1, <2>2 DEF Settled
    <3> HIDE DEF pc
    <3>6. Become(w, At(r.id, pc))
      BY <2>2 DEF pc
    <3> QED
      BY <1>t, <2>1, <3>1, <3>2, <3>4, <3>5, <3>6, Posting
  <2>3. CASE Become(w, At(r.id, "settleFailed")) /\ UNCHANGED deducted
    BY <2>1, <2>3, Moves DEF ledgers, merchant, WithId, NeedsNothing
  <2> QED
    BY <1>19, <1>j, <2>2, <2>3 DEF PayDebt
<1>20. CASE TakeBack(w)
  <2>1. r.id \in Orders /\ ExceptJob
        /\ UNCHANGED <<rider, case, settlement, refunded, told, deducted, paidOut, events>>
    BY <1>20, <1>j, <1>i DEF TakeBack
  <2>2. CASE takenBack' = takenBack \union {r.id} /\ Become(w, At(r.id, "reversed"))
    <3>1. At(r.id, "reversed") \in FulfilJob /\ At(r.id, "reversed").pc = "reversed"
          /\ At(r.id, "reversed").id = r.id
      BY <2>1, AtIsJob DEF WithId
    <3>2. job'[w] = At(r.id, "reversed")
      BY <1>t, <2>2 DEF Become
    <3>3. Backed(job[w])' /\ ~Telling(At(r.id, "reversed"))
      BY <2>2, <3>1, <3>2 DEF Backed, Telling
    <3>4. Settled(r.id) /\ r.id \in refunded
      BY <1>20, <1>j DEF TakeBack, Backed
    <3>5. \A o : Settled(o)' <=> Settled(o)
      BY <2>1 DEF Settled
    <3> QED
      BY <1>t, <2>1, <2>2, <3>1, <3>3, <3>4, <3>5, Posting
  <2>3. CASE Become(w, Idle) /\ UNCHANGED takenBack
    BY <1>l, <2>1, <2>3, Rests DEF ledgers, merchant
  <2> QED
    BY <1>20, <1>j, <2>2, <2>3 DEF TakeBack
<1>21. CASE DisputeRow(w)
  <2>1. r.id \in Orders
    BY <1>21, <1>j, <1>i DEF DisputeRow
  <2>2. \A pc \in {"disputed", "resolved"} :
          At(r.id, pc) \in FulfilJob /\ At(r.id, pc).pc \in NeedsNothing
    BY <2>1, AtIsJob DEF WithId, NeedsNothing
  <2>3. PICK j \in {At(r.id, "disputed"), At(r.id, "resolved")} : Become(w, j)
    BY <1>21, <1>j DEF DisputeRow
  <2>4. /\ dispute' \in [Orders -> {"NONE", "OPEN", "RESOLVED"}]
        /\ ExceptJob /\ UNCHANGED <<delivery, case, settlement, ledgers, events>>
    BY <1>21, <1>t DEF DisputeRow
  <2> QED
    BY <1>t, <2>2, <2>3, <2>4, Notes
<1>22. CASE CallOffWrite(w)
  <2> DEFINE pay == IF r.paid THEN "REFUNDED" ELSE order[r.id].pay
             new == [order[r.id] EXCEPT !.status = "CANCELLED", !.pay = pay]
  <2>1. r.id \in Orders /\ r.pc = "callOff" /\ r.paid \in BOOLEAN /\ r.tell \in BOOLEAN
    BY <1>22, <1>j, <1>i, JobShape DEF CallOffWrite
  <2>2. pay \in Pays
    BY <2>1, OrderRow DEF Order, Pays
  <2>3. new \in Order /\ new.pay = pay
    <3> HIDE DEF pay
    <3> QED
      BY <2>1, <2>2, OrderRow DEF Order, Statuses
  <2>4. PICK written \in Order : /\ order' = [order EXCEPT ![r.id] = written]
                                 /\ written.pay = pay
    <3> DEFINE e == IF new.status # "CONFIRMED" /\ new.exception = "OPEN" THEN "RESOLVED"
                    ELSE new.exception
               written == [new EXCEPT !.exception = e]
    <3>1. order' = [order EXCEPT ![r.id] = written]
      BY <1>22, <1>j DEF CallOffWrite, Transition
    <3> HIDE DEF new, pay
    <3>2. e \in {"NONE", "OPEN", "RESOLVED"}
      BY <2>3 DEF Order
    <3> HIDE DEF e
    <3>3. written \in Order /\ written.pay = pay
      BY <2>3, <3>2 DEF Order
    <3> QED
      BY <3>1, <3>3
  <2>5. /\ order' \in [Orders -> Order]
        /\ \A p \in Orders : order'[p].pay = IF p = r.id THEN pay ELSE order[p].pay
    BY <2>1, <2>4 DEF IInv, TypeOK
  <2>6. r.paid => r.id \in refunded
    BY <2>1, <1>j DEF Backed
  <2>7. r.tell <=> Telling(job[w])
    BY <2>1, <1>j DEF Telling
  <2>8. r.tell => r.id \in refunded
    <3>1. r.tell => Tells(w, r.id)
      BY <1>j, <2>7 DEF Tells
    <3> QED
      BY <2>1, <3>1 DEF IInv, OneTeller
  <2>9. /\ told' = [told EXCEPT ![r.id] = @ + IF r.tell THEN 1 ELSE 0]
        /\ Become(w, Idle) /\ ExceptOrder
        /\ UNCHANGED <<rider, settlement, refunded, merchant, events>>
        /\ case' = case
    BY <1>22, <1>j DEF CallOffWrite
  <2> HIDE DEF new
  <2> QED
    BY <1>j, <1>t, <2>1, <2>5, <2>6, <2>7, <2>8, <2>9, TellingEnds
<1>23. CASE CloseCase(w)
  <2>1. r \in [pc : {"reverseMark", "closeCase"}, id : Orders, applied : BOOLEAN]
        /\ r.pc = "closeCase" /\ r.id \in refunded
    BY <1>23, <1>j, JobShape DEF CloseCase, Backed
  <2>2. r.id \in Orders /\ r.applied \in BOOLEAN
    BY <2>1
  <2>3. r.applied <=> Telling(job[w])
    BY <1>j, <2>1 DEF Telling
  <2>4. /\ case' \in [Orders -> Case]
        /\ \A p \in Orders : case'[p].outcome = case[p].outcome \/ p = r.id
    BY <1>23, <1>j, <1>t, <2>2 DEF CloseCase, Case
  <2>5. /\ told' = [told EXCEPT ![r.id] = @ + IF r.applied THEN 1 ELSE 0]
        /\ Become(w, Idle) /\ ExceptJob
        /\ UNCHANGED <<rider, settlement, refunded, merchant, events>>
    BY <1>23, <1>j DEF CloseCase
  <2>6. ExceptOrder /\ order' \in [Orders -> Order]
        /\ \A p \in Orders : order'[p].pay = order[p].pay
    BY <2>5 DEF ExceptJob, ExceptOrder, IInv, TypeOK
  <2> QED
    BY <1>j, <2>1, <2>2, <2>3, <2>4, <2>5, <2>6, TellingEnds
<1> QED
  BY <1>1, <1>2, <1>3, <1>4, <1>5, <1>6, <1>7, <1>8, <1>9, <1>10, <1>11, <1>12, <1>13, <1>14,
     <1>15, <1>16, <1>17, <1>18, <1>19, <1>20, <1>21, <1>22,
     <1>23 DEF FulfilStep

-------------------------------------------------------------------------------
\* What nobody's handler does: the customer, the rider, the clock.
LEMMA OutsideKeepsIInv ==
  ASSUME IInv, NEW o \in Orders,
         \/ (HoldEnds(o) \/ CustomerPays(o)) /\ UNCHANGED fulfilVars
         \/ RiderAccepts(o) \/ RiderDelivers(o) \/ RiderConfirmsCash(o)
  PROVE  IInv'
<1>t. /\ txn \in [Orders -> {"NONE", "PENDING", "SUCCESS", "FAILED"}]
      /\ received \in [Orders -> SUBSET {"wallet", "gateway", "merchant", "cash"}]
      /\ job \in [Workers -> FulfilJob]
      /\ delivery \in [Orders -> {"NONE", "ASSIGNED", "ACCEPTED", "DELIVERED"}]
      /\ dispute \in [Orders -> {"NONE", "OPEN", "RESOLVED"}]
      /\ order \in [Orders -> Order] /\ events \in SUBSET Event
  BY DEF IInv, TypeOK
<1>1. CASE HoldEnds(o) /\ UNCHANGED fulfilVars
  <2> DEFINE new == [order[o] EXCEPT !.hold = "late"]
  <2>1. new \in Order /\ new.pay = order[o].pay
    BY OrderRow DEF Order
  <2>2. order' = [order EXCEPT ![o] = new]
    BY <1>1 DEF HoldEnds, Hold
  <2>3. /\ UNCHANGED <<cart, txn, received, crashes>> /\ job' = job
        /\ UNCHANGED <<case, settlement, ledgers>> /\ events' = events
        /\ delivery' = delivery /\ dispute' = dispute
    BY <1>1 DEF HoldEnds, fulfilVars, rider
  <2> HIDE DEF new
  <2> QED
    BY <1>t, <2>1, <2>2, <2>3, Writes
<1>2. ASSUME NEW from, NEW to \in {"ACCEPTED", "DELIVERED"}, NEW status \in {"WITH_RIDER", "DELIVERED"},
             RiderCall(o, from, to, status)
      PROVE  IInv'
  <2> DEFINE new == [order[o] EXCEPT !.status = status]
  <2>1. new \in Order /\ new.pay = order[o].pay
    BY OrderRow DEF Order, Statuses
  <2>2. Transition(o, new)
    BY <1>2 DEF RiderCall
  <2>3. /\ UNCHANGED <<cart, txn, received, crashes>> /\ job' = job
        /\ UNCHANGED <<case, settlement, ledgers>> /\ events' = events
        /\ dispute' = dispute
    BY <1>2 DEF RiderCall, ExceptOrder
  <2>4. delivery' \in [Orders -> {"NONE", "ASSIGNED", "ACCEPTED", "DELIVERED"}]
    BY <1>2, <1>t DEF RiderCall
  <2> HIDE DEF new
  <2> QED
    BY <1>t, <2>1, <2>2, <2>3, <2>4, Writes
<1>3. ASSUME NEW source \in {"gateway", "cash"},
             received' = [received EXCEPT ![o] = @ \union {source}],
             UNCHANGED <<order, cart, txn, crashes, job, rider, case, settlement, ledgers>>,
             \/ events' = events
             \/ source = "cash" /\ Emit("CASH_CONFIRMED", o)
      PROVE  IInv'
  <2>1. /\ received' \in [Orders -> SUBSET {"wallet", "gateway", "merchant", "cash"}]
        /\ \A p \in Orders : received[p] \subseteq received'[p]
        /\ received'[o] # {}
    BY <1>3, <1>t
  <2>2. events' \in SUBSET Event
    BY <1>3, <1>t DEF Emit, Event
  <2>3. TypeOK'
    BY <1>3, <2>1, <2>2 DEF IInv, TypeOK, rider, ledgers, merchant
  <2>4. \A e \in events' :
          \/ e \in events
          \/ /\ e.name = "CASH_CONFIRMED" => received'[e.id] # {}
             /\ e.name = "REFUNDED" => e.id \in refunded
    BY <1>3, <2>1 DEF Emit
  <2> QED
    BY <1>3, <2>1, <2>3, <2>4, Unposted
<1>4. CASE CustomerPays(o) /\ UNCHANGED fulfilVars
  BY <1>3, <1>4 DEF CustomerPays, fulfilVars
<1>5. CASE RiderConfirmsCash(o)
  BY <1>3, <1>5 DEF RiderConfirmsCash
<1>6. CASE RiderAccepts(o) \/ RiderDelivers(o)
  BY <1>2, <1>6 DEF RiderAccepts, RiderDelivers
<1> QED
  BY <1>1, <1>4, <1>5, <1>6

\* Handlers that die take nothing with them that the invariant needs.
LEMMA CrashKeepsIInv ==
  ASSUME IInv, (\E w \in Workers : Crash(w) /\ UNCHANGED fulfilVars) \/ Restart
  PROVE  IInv'
<1>1. /\ job' \in [Workers -> FulfilJob]
      /\ \A w \in Workers : job'[w] = job[w] \/ job'[w] = Idle
  BY IdleIsJob DEF Crash, Restart, Become, IInv, TypeOK
<1>2. crashes' \in 0..MaxCrashes
  BY PaymentsConfig DEF Crash, Restart, IInv, TypeOK
<1>3. /\ UNCHANGED <<order, cart, txn, received, rider, case, settlement, ledgers>>
      /\ events' \subseteq events
  BY DEF Crash, Restart, fulfilVars
<1>4. TypeOK'
  BY <1>1, <1>2, <1>3 DEF IInv, TypeOK, rider, ledgers, merchant
<1>5. \A w \in Workers : job'[w] = job[w] \/ (Backed(job[w])' /\ ~Telling(job[w])')
  BY <1>1, IdleIsJob DEF Backed, Telling
<1> QED
  BY <1>3, <1>4, <1>5, Unposted

LEMMA StepKeepsIInv == IInv /\ [Next]_vars => IInv'
<1> SUFFICES ASSUME IInv, [Next]_vars PROVE IInv'
  OBVIOUS
<1>1. CASE UNCHANGED vars
  BY <1>1 DEF vars, paymentVars, fulfilVars, rider, ledgers, merchant, IInv, TypeOK, Postings,
              MoneyIsReceived, RefundIsPosted, SettlementIsPosted, Settled, JobsBacked, Backed,
              EventsBacked, OneTeller, Tells, Telling
<1>2. CASE PaymentNext /\ UNCHANGED fulfilVars
  <2>1. ASSUME NEW w \in Workers, NEW o \in Orders, PaymentRequest(w, o) PROVE IInv'
    BY <1>2, <2>1, RequestKeepsIInv
  <2>2. ASSUME NEW w \in Workers, BeginCleanup(w) PROVE IInv'
    BY <1>2, <2>2, CleanupKeepsIInv
  <2>3. ASSUME NEW w \in Workers, PaymentStep(w) PROVE IInv'
    BY <1>2, <2>3, PaymentStepKeepsIInv
  <2>4. ASSUME NEW w \in Workers, Crash(w) PROVE IInv'
    BY <1>2, <2>4, CrashKeepsIInv
  <2>5. ASSUME NEW o \in Orders, HoldEnds(o) \/ CustomerPays(o) PROVE IInv'
    BY <1>2, <2>5, OutsideKeepsIInv
  <2> QED
    BY <1>2, <2>1, <2>2, <2>3, <2>4, <2>5 DEF PaymentNext
<1>3. ASSUME NEW w \in Workers,
             \/ \E o \in Orders : FulfilRequest(w, o) \/ HandleEvent(w, o) \/ OrderSweep(w, o)
             \/ FulfilStep(w)
      PROVE  IInv'
  <2>1. ASSUME NEW o \in Orders, FulfilRequest(w, o) PROVE IInv'
    BY <2>1, FulfilRequestKeepsIInv
  <2>2. ASSUME NEW o \in Orders, HandleEvent(w, o) PROVE IInv'
    BY <2>2, EventKeepsIInv
  <2>3. ASSUME NEW o \in Orders, OrderSweep(w, o) PROVE IInv'
    BY <2>3, SweepKeepsIInv
  <2>4. CASE FulfilStep(w)
    BY <2>4, FulfilStepKeepsIInv
  <2> QED
    BY <1>3, <2>1, <2>2, <2>3, <2>4
<1>4. CASE \E o \in Orders : RiderAccepts(o) \/ RiderDelivers(o) \/ RiderConfirmsCash(o)
  BY <1>4, OutsideKeepsIInv
<1>5. CASE Restart
  BY <1>5, CrashKeepsIInv
<1> QED
  BY <1>1, <1>2, <1>3, <1>4, <1>5 DEF Next

-------------------------------------------------------------------------------
\* Orders keep the inductive invariant, whatever overlaps and dies.
THEOREM OrderInvariant == Spec => []IInv
<1>1. Init => IInv
  BY InitIInv
<1>2. IInv /\ [Next]_vars => IInv'
  BY StepKeepsIInv
<1> QED
  BY <1>1, <1>2, PTL DEF Spec

\* No handler, order row, case or event is ever of another shape than the code gives it.
THEOREM OrderTypes == Spec => []TypeOK
<1>1. IInv => TypeOK
  BY DEF IInv
<1> QED
  BY <1>1, OrderInvariant, PTL

\* finalizeOrderConfirmation, refundOrder, refundIfPaid and the recovery: an order that
\* counts as paid or is refunded was paid for, though every one of them writes what it
\* read before.
THEOREM PaidIsReceived == Spec => []MoneyIsReceived
<1>1. IInv => MoneyIsReceived
  BY DEF IInv, Postings
<1> QED
  BY <1>1, OrderInvariant, PTL

\* rejectOrder, cancelOrder, reverseWalletForRecovery, refundOrder: what says that a
\* customer was refunded is true, and he hears of it once, whoever refunds first.
THEOREM RefundsArePosted == Spec => []RefundIsPosted
<1>1. IInv => RefundIsPosted
  BY DEF IInv, Postings
<1> QED
  BY <1>1, OrderInvariant, PTL

\* settleOrder and reverseSettlement: a sale is charged back to its merchant only if it was
\* settled, by a credit, an accrual or a deduction that took all of it, and its customer has
\* his money back; and a settlement row never runs ahead of these postings.
THEOREM SettlementsArePosted == Spec => []SettlementIsPosted
<1>1. IInv => SettlementIsPosted
  BY DEF IInv, Postings
<1> QED
  BY <1>1, OrderInvariant, PTL

-------------------------------------------------------------------------------
\* Handlers one at a time. What an order is, is then read off its row.
Early == {"NONE", "PENDING"}
Agrees(o) ==
  /\ order[o].exception = "OPEN" => order[o].status = "CONFIRMED"
  /\ order[o].status \in Early => order[o].pay = "PENDING" /\ order[o].method \in {"NONE", "GATEWAY"}
  /\ order[o].status \in Early \union {"CONFIRMED"} \/ case[o].status # "NONE" =>
       delivery[o] = "NONE" /\ dispute[o] = "NONE"
  /\ case[o].status # "NONE" => order[o].status \notin Early
  /\ case[o].outcome = "REVERSAL_CONFIRMED" =>
       case[o].status # "NONE" /\ order[o].method = "WALLET" /\ order[o].pay = "REFUNDED"

\* What the handler read of its order still holds.
Knows(j) ==
  /\ j.pc = "create" => order[j.id].status = "NONE"
  /\ j.pc \in {"reserve", "lock", "debit", "initiate", "choose", "paid", "finalize", "release",
               "cancel"} => order[j.id].status = "PENDING"
  /\ j.pc = "ask" /\ j.payable => order[j.id].status = "PENDING"
  /\ j.pc \in {"deduct", "checkout"} => order[j.id].status = "CONFIRMED" /\ order[j.id].pay # "FAILED"
  /\ j.pc = "cleanup" => \A o \in j.todo : order[o].status = "PENDING"
  /\ j.pc \in {"cart", "unlock"} => j.then = Idle \/ j.then.todo = {}
  /\ j.pc = "advance" => order[j.id].status \in {"CONFIRMED", "PREPARING"}
  /\ j.pc \in {"refund", "callOff"} => order[j.id].status \in {"CONFIRMED", "PREPARING", "READY"}
  /\ j.pc = "markPaid" => /\ order[j.id].status = j.status /\ j.status \notin Early
                          /\ order[j.id].method # "WALLET"
  /\ j.pc = "dispatch" => order[j.id].status = "READY"
  /\ j.pc \in {"dispute", "disputed", "complete"} => order[j.id].status = "DELIVERED"
  /\ j.pc = "resolve" => dispute[j.id] = "OPEN"
  /\ j.pc = "resolved" => dispute[j.id] = "RESOLVED"
  /\ j.pc \in {"adminRefund", "markRefunded"} => order[j.id].status \notin Early
  /\ j.pc \in {"raise", "claim", "cancelCase"} => order[j.id].status = "CONFIRMED"
  /\ j.pc = "cancelCase" => case[j.id].status # "NONE"
  /\ j.pc \in {"caseStatus", "reverse", "reverseMark", "closeCase"} =>
       order[j.id].status = "CANCELLED" /\ case[j.id].status # "NONE"
  /\ j.pc \in {"reverse", "reverseMark", "closeCase"} => order[j.id].method = "WALLET"
  /\ j.pc = "closeCase" => order[j.id].pay = "REFUNDED"

\* The cart and the orders that wait to be paid, and the cases of the orders that are not
\* cancelled, are apart only in the middle of a handler.
Pending == {o \in Orders : order[o].status = "PENDING"}
Paired == \/ cart = "LOCKED" /\ \E o \in Orders : Pending = {o}
          \/ cart # "LOCKED" /\ Pending = {}
CartOf(j) ==
  /\ j.pc = "create" => cart = "ACTIVE" /\ Pending = {}
  /\ j.pc \in {"reserve", "lock"} => cart = "ACTIVE" /\ Pending = {j.id}
  /\ j.pc \in {"deduct", "checkout", "cart", "unlock"} => cart = "LOCKED" /\ Pending = {}
  /\ \/ j.pc \in {"create", "reserve", "lock", "deduct", "checkout", "cart", "unlock"}
     \/ Paired
CaseOf(j) == \A o \in Orders :
  case[o].status # "NONE" =>
    order[o].status \in {"CANCELLED", "REFUNDED"} \/ (j.pc = "cancelCase" /\ j.id = o)
Stands(j) == Knows(j) /\ CartOf(j) /\ CaseOf(j)

CheckedOut == cart = "CHECKED_OUT" =>
  \E o \in Orders : order[o].status \notin Early /\ order[o].pay # "FAILED"

EventsKnow == \A e \in events : e.name = "CASH_CONFIRMED" =>
  order[e.id].method = "CASH" /\ order[e.id].status \notin Early

SerialIInv ==
  /\ \A v, w \in Busy : v = w
  /\ Busy # {} => events = {}
  /\ \A o \in Orders : Agrees(o)
  /\ \A w \in Busy : Stands(job[w])
  /\ Busy = {} => Stands(Idle)
  /\ CheckedOut
  /\ EventsKnow

MCIInv == IInv /\ (~Overlap => SerialIInv)

Serially == IInv /\ SerialIInv /\ OneAtATime

\* In the middle of such a handler the cart and the cases are as they are between handlers.
Calm(j) ==
  j.pc \notin {"create", "reserve", "lock", "deduct", "checkout", "cart", "unlock", "cancelCase"}

\* A step that changes no order but for its reservation, and nothing of its delivery.
SameStates ==
  /\ \A o \in Orders :
       /\ order'[o].status = order[o].status /\ order'[o].pay = order[o].pay
       /\ order'[o].method = order[o].method /\ order'[o].exception = order[o].exception
  /\ UNCHANGED <<cart, delivery, dispute, case>>

LEMMA InitSerial == MCInit => MCIInv
<1>. SUFFICES ASSUME MCInit PROVE SerialIInv  BY InitIInv DEF MCInit, MCIInv
<1>1. Busy = {} /\ events = {} /\ cart = "ACTIVE"  BY DEF MCInit, Init, PaymentsInit, Busy
<1>2. \A o \in Orders : Agrees(o) /\ order[o].status = "NONE" /\ case[o].status = "NONE"
  BY DEF MCInit, Init, PaymentsInit, NoOrder, Agrees, Early
<1>3. Pending = {}  BY <1>2 DEF Pending
<1>4. Stands(Idle)
  BY <1>1, <1>2, <1>3 DEF Stands, Knows, CartOf, CaseOf, Paired, Idle
<1>. QED  BY <1>1, <1>2, <1>4 DEF SerialIInv, CheckedOut, EventsKnow

\* What a handler relies on is about the order it has in hand.
LEMMA KnowsKeeps ==
  ASSUME TypeOK, NEW j \in FulfilJob, Knows(j), SameStates
  PROVE  Knows(j)'
<1>1. j.pc \notin {"idle", "cleanup", "cart", "unlock"} => j.id \in Orders  BY JobShape
<1>2. j.pc = "cleanup" => j.todo \subseteq Orders  BY JobShape DEF CleanupJob
<1>3. CASE j.pc \in {"idle", "cleanup", "cart", "unlock"}
  BY <1>2, <1>3 DEF Knows, SameStates
<1>4. CASE j.pc \notin {"idle", "cleanup", "cart", "unlock"}
  <2>1. /\ order'[j.id].status = order[j.id].status /\ order'[j.id].pay = order[j.id].pay
        /\ order'[j.id].method = order[j.id].method
        /\ case' = case /\ dispute' = dispute
    BY <1>1, <1>4 DEF SameStates
  <2>. QED  BY <1>4, <2>1 DEF Knows
<1>. QED  BY <1>3, <1>4

LEMMA SameStands ==
  ASSUME TypeOK, SameStates
  PROVE  /\ Pending' = Pending
         /\ \A o \in Orders : Agrees(o) => Agrees(o)'
         /\ CheckedOut => CheckedOut'
         /\ \A j \in FulfilJob : Stands(j) => Stands(j)'
         /\ EventsKnow /\ (\A e \in events' : e \in events \/ e.name # "CASH_CONFIRMED")
              => EventsKnow'
<1>1. Pending' = Pending  BY DEF SameStates, Pending
<1>2. \A o \in Orders : Agrees(o) => Agrees(o)'  BY DEF SameStates, Agrees
<1>3. CheckedOut => CheckedOut'  BY DEF SameStates, CheckedOut
<1>4. ASSUME NEW j \in FulfilJob, Stands(j) PROVE Stands(j)'
  <2>1. Knows(j)'  BY <1>4, KnowsKeeps DEF Stands
  <2>2. CartOf(j)'  BY <1>1, <1>4 DEF Stands, CartOf, Paired, SameStates
  <2>3. CaseOf(j)'  BY <1>4 DEF Stands, CaseOf, SameStates
  <2>. QED  BY <2>1, <2>2, <2>3 DEF Stands
<1>5. ASSUME EventsKnow, \A e \in events' : e \in events \/ e.name # "CASH_CONFIRMED"
      PROVE  EventsKnow'
  <2>1. \A e \in events : e.id \in Orders  BY DEF TypeOK, Event
  <2>. QED  BY <1>5, <2>1 DEF EventsKnow, SameStates
<1>. QED  BY <1>1, <1>2, <1>3, <1>4, <1>5

\* One handler starts, goes on or ends; no other is under way, before or after.
LEMMA OneMoves ==
  ASSUME Serially, NEW w \in Workers, NEW j, Become(w, j), job[w] # Idle \/ j # Idle
  PROVE  /\ Stands(job[w])
         /\ job[w] # Idle => events = {}
         /\ (\A o \in Orders : Agrees(o)') /\ Stands(j)' /\ CheckedOut' /\ EventsKnow'
              => SerialIInv'
<1>0. TypeOK /\ SerialIInv /\ OneAtATime  BY DEF Serially, IInv
<1>1. job'[w] = j /\ \A v \in Workers \ {w} : job'[v] = job[v]  BY <1>0 DEF Become, TypeOK
<1>2. (\A v, u \in Busy' : v = u) /\ (Busy' # {} => events' = {})
  BY <1>0 DEF OneAtATime
<1>3. Stands(job[w]) /\ (job[w] # Idle => events = {})
  <2>1. CASE job[w] # Idle  BY <1>0, <2>1 DEF SerialIInv, Busy
  <2>2. CASE job[w] = Idle
    <3>1. w \in Busy'  BY <1>1, <2>2 DEF Busy
    <3>2. Busy = {}  BY <1>1, <1>2, <2>2, <3>1 DEF Busy
    <3>. QED  BY <1>0, <2>2, <3>2 DEF SerialIInv
  <2>. QED  BY <2>1, <2>2
<1>4. ASSUME \A o \in Orders : Agrees(o)', Stands(j)', CheckedOut', EventsKnow'
      PROVE  SerialIInv'
  <2>1. CASE j # Idle
    <3>1. Busy' = {w}  BY <1>1, <1>2, <2>1 DEF Busy
    <3>2. Stands(job[w])'  BY <1>1, <1>4 DEF Stands, Knows, CartOf, CaseOf
    <3>. QED  BY <1>2, <1>4, <3>1, <3>2 DEF SerialIInv
  <2>2. CASE j = Idle
    <3>1. \A v, u \in Busy : v = u  BY <1>0 DEF SerialIInv
    <3>2. Busy' = {}  BY <1>1, <2>2, <3>1 DEF Busy
    <3>. QED  BY <1>2, <1>4, <2>2, <3>2 DEF SerialIInv
  <2>. QED  BY <2>1, <2>2
<1>. QED  BY <1>3, <1>4

\* What only the world, or a subscriber that has nothing to do, does.
LEMMA QuietKeeps ==
  ASSUME Serially, SameStates, job' = job,
         \A e \in events' : e \in events \/ e.name # "CASH_CONFIRMED" \/
           (order[e.id].method = "CASH" /\ order[e.id].status \notin Early /\ e.id \in Orders)
  PROVE  SerialIInv'
<1>0. TypeOK /\ SerialIInv /\ OneAtATime  BY DEF Serially, IInv
<1>1. Busy' = Busy  BY DEF Busy
<1>2. (\A v, u \in Busy' : v = u) /\ (Busy' # {} => events' = {})  BY <1>0 DEF OneAtATime
<1>3. ASSUME NEW w \in Busy PROVE Stands(job[w])'
  <2>1. PICK j \in FulfilJob : j = job[w]  BY <1>0 DEF TypeOK, Busy
  <2>2. Stands(j)'  BY <1>0, <1>3, <2>1, SameStands DEF SerialIInv
  <2>3. job'[w] = j  BY <2>1
  <2>. QED  BY <2>2, <2>3 DEF Stands, Knows, CartOf, CaseOf
<1>4. Stands(Idle) => Stands(Idle)'  BY <1>0, IdleIsJob, SameStands
<1>5. EventsKnow'
  <2>1. \A e \in events : e.id \in Orders  BY <1>0 DEF TypeOK, Event
  <2>. QED  BY <1>0, <2>1 DEF SerialIInv, EventsKnow, SameStates
<1>6. (\A o \in Orders : Agrees(o)') /\ CheckedOut'  BY <1>0, SameStands DEF SerialIInv
<1>. QED  BY <1>0, <1>1, <1>2, <1>3, <1>4, <1>5, <1>6 DEF SerialIInv

\* Between handlers and in the middle of a calm one it is the same that stands.
LEMMA CalmStands ==
  ASSUME NEW i, NEW j, Calm(i), Calm(j), CartOf(i), CaseOf(i)
  PROVE  CartOf(j) /\ CaseOf(j)
BY DEF Calm, CartOf, CaseOf

\* A handler reads, or writes what is not about the state of an order.
LEMMA CalmGoes ==
  ASSUME Serially, SameStates, NEW w \in Workers, NEW j \in FulfilJob, Become(w, j),
         Calm(job[w]), Calm(j), Knows(j),
         \A e \in events' : e \in events \/ e.name # "CASH_CONFIRMED"
  PROVE  SerialIInv'
<1>0. TypeOK /\ SerialIInv  BY DEF Serially, IInv
<1>1. CASE job[w] # Idle \/ j # Idle
  <2>1. PICK i : i = job[w]  OBVIOUS
  <2>2. Stands(i) /\ Calm(i)  BY <1>1, <2>1, OneMoves
  <2>3. Stands(j)  BY <2>2, CalmStands DEF Stands
  <2>4. Stands(j)' /\ (\A o \in Orders : Agrees(o)') /\ CheckedOut' /\ EventsKnow'
    BY <1>0, <2>3, SameStands DEF SerialIInv
  <2>. QED  BY <1>1, <2>4, OneMoves
<1>2. CASE job[w] = Idle /\ j = Idle
  <2>1. job' = job  BY <1>0, <1>2 DEF Become, TypeOK
  <2>. QED  BY <2>1, QuietKeeps
<1>. QED  BY <1>1, <1>2

\* A handler goes on, with what stands already.
LEMMA StandingGoes ==
  ASSUME Serially, SameStates, NEW w \in Workers, NEW j \in FulfilJob, Become(w, j),
         job[w] # Idle \/ j # Idle, Stands(j),
         \A e \in events' : e \in events \/ e.name # "CASH_CONFIRMED"
  PROVE  SerialIInv'
<1>0. TypeOK /\ SerialIInv  BY DEF Serially, IInv
<1>1. Stands(j)' /\ (\A o \in Orders : Agrees(o)') /\ CheckedOut' /\ EventsKnow'
  BY <1>0, SameStands DEF SerialIInv
<1>. QED  BY <1>1, OneMoves

LEMMA Reading == ASSUME UNCHANGED <<order, cart, delivery, dispute, case>> PROVE SameStates
BY DEF SameStates

LEMMA IdleIsCalm == Calm(Idle) /\ Knows(Idle)
BY DEF Calm, Knows, Idle

-------------------------------------------------------------------------------
\* A handler that starts has just read its order.
LEMMA RequestStands ==
  ASSUME Serially, NEW w \in Workers, NEW o \in Orders, PaymentRequest(w, o),
         UNCHANGED fulfilVars
  PROVE  SerialIInv'
<1>0. SameStates /\ events' = events /\ job[w] = Idle /\ Calm(job[w])
  <2>1. UNCHANGED <<order, cart, delivery, dispute, case>> /\ events' = events
    BY DEF PaymentRequest, Checkout, PayWithWallet, InitiateGateway, SelectOffline, Verify,
           FailureWebhook, CancelByCustomer, fulfilVars, rider
  <2>2. job[w] = Idle
    BY DEF PaymentRequest, Checkout, PayWithWallet, InitiateGateway, SelectOffline, Verify,
           FailureWebhook, CancelByCustomer
  <2>. QED  BY <2>1, <2>2, Reading, IdleIsCalm
<1>1. CASE Checkout(w, o)
  <2>1. PICK j : j = At(o, "create")  OBVIOUS
  <2>2. j \in FulfilJob /\ j.pc = "create" /\ j.id = o  BY <2>1, AtIsJob DEF WithId
  <2>3. Become(w, j) /\ cart = "ACTIVE" /\ order[o].status = "NONE" /\ j # Idle
    BY <1>1, <2>1, <2>2 DEF Checkout, NoOrder, Idle
  <2>4. Stands(Idle)  BY <1>0, <2>3, OneMoves
  <2>5. Stands(j)
    BY <2>2, <2>3, <2>4 DEF Stands, Knows, CartOf, CaseOf, Paired, Idle
  <2>. QED  BY <1>0, <2>2, <2>3, <2>5, StandingGoes
<1>2. ASSUME NEW pc \in {"debit", "initiate", "release"}, order[o].status = "PENDING",
             Become(w, At(o, pc))
      PROVE  SerialIInv'
  <2>1. PICK j : j = At(o, pc)  OBVIOUS
  <2>2. j \in FulfilJob /\ j.pc = pc /\ j.id = o  BY <2>1, AtIsJob DEF WithId
  <2>3. Calm(j) /\ Knows(j)  BY <1>2, <2>2 DEF Calm, Knows
  <2>. QED  BY <1>0, <1>2, <2>1, <2>2, <2>3, CalmGoes
<1>3. CASE FailureWebhook(w, o)
  <2>1. PICK j : j = At(o, "failed")  OBVIOUS
  <2>2. j \in FulfilJob /\ j.pc = "failed"  BY <2>1, AtIsJob DEF WithId
  <2>3. Calm(j) /\ Knows(j)  BY <2>2 DEF Calm, Knows
  <2>. QED  BY <1>0, <1>3, <2>1, <2>2, <2>3, CalmGoes DEF FailureWebhook
<1>4. CASE Verify(w, o)
  <2>1. PICK j : j = [pc |-> "ask", id |-> o, payable |-> Payable(o)]  OBVIOUS
  <2>2. j \in FulfilJob  BY <2>1 DEF FulfilJob, PaymentJob, Payable
  <2>3. Calm(j) /\ Knows(j)  BY <2>1 DEF Calm, Knows, Payable
  <2>. QED  BY <1>0, <1>4, <2>1, <2>2, <2>3, CalmGoes DEF Verify
<1>5. ASSUME NEW method \in Offline, SelectOffline(w, o, method) PROVE SerialIInv'
  <2>1. PICK j : j = Finalizing(o, method, "PENDING")  OBVIOUS
  <2>0. method \in Methods /\ "PENDING" \in Pays  BY DEF Methods, Pays
  <2>2. j \in FulfilJob /\ j.pc = "finalize" /\ j.id = o  BY <2>0, <2>1, FinalizingIsJob
  <2>3. Calm(j) /\ Knows(j)  BY <1>5, <2>2 DEF SelectOffline, Payable, Calm, Knows
  <2>. QED  BY <1>0, <1>5, <2>1, <2>2, <2>3, CalmGoes DEF SelectOffline
<1>6. CASE PayWithWallet(w, o)  BY <1>2, <1>6 DEF PayWithWallet, Payable
<1>7. CASE InitiateGateway(w, o)  BY <1>2, <1>7 DEF InitiateGateway, Payable
<1>8. CASE CancelByCustomer(w, o)  BY <1>2, <1>8 DEF CancelByCustomer
<1>. QED  BY <1>1, <1>3, <1>4, <1>5, <1>6, <1>7, <1>8 DEF PaymentRequest

\* An order that is early is unpaid and carried nowhere.
LEMMA RowAgrees == ASSUME Serially, NEW o \in Orders PROVE Agrees(o) /\ order[o] \in Order
BY DEF Serially, SerialIInv, IInv, TypeOK

LEMMA FulfilRequestStands ==
  ASSUME Serially, NEW w \in Workers, NEW o \in Orders, FulfilRequest(w, o)
  PROVE  SerialIInv'
<1>0. SameStates /\ events' = events /\ job[w] = Idle /\ Calm(job[w])
  <2>1. UNCHANGED <<order, cart>> /\ UNCHANGED fulfilVars /\ job[w] = Idle
    BY DEF FulfilRequest, Advance, CallOff, ConfirmReceived, RaiseDispute, ResolveDispute,
           AdminRefund, Recover, ReverseByOperator, ExceptJob
  <2>. QED  BY <2>1, Reading, IdleIsCalm DEF fulfilVars, rider
<1>a. Agrees(o) /\ order[o] \in Order  BY RowAgrees
<1>1. ASSUME NEW j \in FulfilJob, Become(w, j), Calm(j), Knows(j) PROVE SerialIInv'
  BY <1>0, <1>1, CalmGoes
<1>2. ASSUME NEW from \in {"CONFIRMED", "PREPARING"}, NEW to \in {"PREPARING", "READY"},
             Advance(w, o, from, to)
      PROVE  SerialIInv'
  <2>1. PICK j : j = [pc |-> "advance", id |-> o, to |-> to]  OBVIOUS
  <2>2. j \in FulfilJob /\ Become(w, j)  BY <1>2, <2>1 DEF FulfilJob, Advance
  <2>3. Calm(j) /\ Knows(j)  BY <1>2, <2>1 DEF Advance, Calm, Knows
  <2>. QED  BY <1>1, <2>2, <2>3
<1>3. ASSUME NEW from \in SUBSET {"CONFIRMED", "PREPARING", "READY"}, NEW tell \in BOOLEAN,
             CallOff(w, o, from, tell)
      PROVE  SerialIInv'
  <2>1. PICK j : j = IF order[o].pay = "PAID" THEN [pc |-> "refund", id |-> o, tell |-> tell]
                     ELSE [pc |-> "callOff", id |-> o, paid |-> FALSE, tell |-> FALSE]
    OBVIOUS
  <2>2. j \in FulfilJob /\ j.pc \in {"refund", "callOff"} /\ j.id = o  BY <2>1 DEF FulfilJob
  <2>3. Become(w, j) /\ order[o].status \in {"CONFIRMED", "PREPARING", "READY"}
    BY <1>3, <2>1 DEF CallOff
  <2>4. Calm(j) /\ Knows(j)  BY <2>2, <2>3 DEF Calm, Knows
  <2>. QED  BY <1>1, <2>2, <2>3, <2>4
<1>4. CASE ConfirmReceived(w, o)
  <2>1. PICK j : j = [pc |-> "markPaid", id |-> o, status |-> order[o].status,
                      again |-> order[o].status = "READY"]
    OBVIOUS
  <2>2. j \in FulfilJob /\ Become(w, j)
    BY <1>4, <1>a, <2>1 DEF FulfilJob, ConfirmReceived, Order
  <2>3. order[o].method = "MERCHANT_DIRECT" /\ order[o].status \notin Early
    BY <1>4, <1>a DEF ConfirmReceived, Agrees
  <2>4. Calm(j) /\ Knows(j)  BY <2>1, <2>3 DEF Calm, Knows
  <2>. QED  BY <1>1, <2>2, <2>4
<1>5. ASSUME NEW pc \in {"dispute", "resolve", "adminRefund", "reverse"}, Become(w, At(o, pc)),
             Knows(At(o, pc))
      PROVE  SerialIInv'
  <2>1. At(o, pc) \in FulfilJob /\ At(o, pc).pc = pc  BY AtIsJob DEF WithId
  <2>2. Calm(At(o, pc))  BY <2>1 DEF Calm
  <2>. QED  BY <1>1, <1>5, <2>1, <2>2
<1>6. CASE RaiseDispute(w, o)
  BY <1>5, <1>6 DEF RaiseDispute, Knows, At
<1>7. CASE ResolveDispute(w, o)
  BY <1>5, <1>7 DEF ResolveDispute, Knows, At
<1>8. CASE AdminRefund(w, o)
  <2>1. order[o].status \notin Early  BY <1>8, <1>a DEF AdminRefund, Agrees
  <2>. QED  BY <1>5, <1>8, <2>1 DEF AdminRefund, Knows, At
<1>9. CASE ReverseByOperator(w, o)
  BY <1>5, <1>9 DEF ReverseByOperator, Reversible, Knows, At
<1>10. CASE Recover(w, o, "OPERATOR")
  <2>1. PICK j : j = [pc |-> "claim", id |-> o, by |-> "OPERATOR", pay |-> order[o].pay,
                      method |-> order[o].method]
    OBVIOUS
  <2>2. j \in FulfilJob /\ Become(w, j)
    BY <1>10, <1>a, <2>1 DEF FulfilJob, Recover, Order, Actor
  <2>3. Calm(j) /\ Knows(j)  BY <1>10, <2>1 DEF Recover, Stalled, Calm, Knows
  <2>. QED  BY <1>1, <2>2, <2>3
<1>. QED  BY <1>2, <1>3, <1>4, <1>6, <1>7, <1>8, <1>9, <1>10 DEF FulfilRequest

LEMMA EventStands ==
  ASSUME Serially, NEW w \in Workers, NEW o \in Orders, HandleEvent(w, o)
  PROVE  SerialIInv'
<1>0. SameStates /\ events' \subseteq events /\ job[w] = Idle /\ Calm(job[w])
  <2>1. UNCHANGED <<order, cart, delivery, dispute, case>>
    BY DEF HandleEvent, Dispatch, MarkCashReceived, BeginSettlement, BeginReversal, ExceptJob,
           rider
  <2>2. events' \subseteq events /\ job[w] = Idle
    BY DEF HandleEvent, Dispatch, MarkCashReceived, BeginSettlement, BeginReversal
  <2>. QED  BY <2>1, <2>2, Reading, IdleIsCalm
<1>a. Agrees(o) /\ order[o] \in Order  BY RowAgrees
<1>1. ASSUME NEW j \in FulfilJob, Become(w, j), Calm(j), Knows(j) PROVE SerialIInv'
  BY <1>0, <1>1, CalmGoes
<1>2. CASE Become(w, Idle)  BY <1>1, <1>2, IdleIsJob, IdleIsCalm
<1>3. ASSUME NEW pc \in {"insertRow", "takeBack"}, Become(w, Settling(o, pc)) PROVE SerialIInv'
  <2>1. PICK j : j = Settling(o, pc)  OBVIOUS
  <2>2. j \in FulfilJob /\ j.pc = pc  BY <1>a, <2>1 DEF Settling, FulfilJob, Order
  <2>3. Calm(j) /\ Knows(j)  BY <2>2 DEF Calm, Knows
  <2>. QED  BY <1>1, <1>3, <2>1, <2>2, <2>3
<1>4. CASE Dispatch(w, o)
  <2>1. PICK j : j = At(o, "dispatch")  OBVIOUS
  <2>2. j \in FulfilJob /\ j.pc = "dispatch" /\ j.id = o  BY <2>1, AtIsJob DEF WithId
  <2>3. Become(w, Idle) \/ (Become(w, j) /\ order[o].status = "READY")
    BY <1>4, <2>1 DEF Dispatch
  <2>4. order[o].status = "READY" => Calm(j) /\ Knows(j)  BY <2>2 DEF Calm, Knows
  <2>. QED  BY <1>1, <1>2, <2>2, <2>3, <2>4
<1>5. CASE BeginSettlement(w, o)  BY <1>2, <1>3, <1>5 DEF BeginSettlement
<1>6. CASE BeginReversal(w, o)  BY <1>2, <1>3, <1>6 DEF BeginReversal
<1>7. CASE MarkCashReceived(w, o)
  <2>1. PICK j : j = [pc |-> "markPaid", id |-> o, status |-> order[o].status, again |-> FALSE]
    OBVIOUS
  <2>2. order[o].method = "CASH" /\ order[o].status \notin Early
    BY <1>7 DEF MarkCashReceived, Serially, SerialIInv, EventsKnow
  <2>3. j \in FulfilJob  BY <1>a, <2>1 DEF FulfilJob, Order
  <2>4. Calm(j) /\ Knows(j)  BY <2>1, <2>2 DEF Calm, Knows
  <2>5. Become(w, Idle) \/ Become(w, j)  BY <1>7, <2>1 DEF MarkCashReceived
  <2>. QED  BY <1>1, <1>2, <2>3, <2>4, <2>5
<1>. QED  BY <1>4, <1>5, <1>6, <1>7 DEF HandleEvent

LEMMA SweepStands ==
  ASSUME Serially, NEW w \in Workers, NEW o \in Orders, OrderSweep(w, o)
  PROVE  SerialIInv'
<1>0. SameStates /\ events' = events /\ job[w] = Idle /\ Calm(job[w])
  <2>1. UNCHANGED <<order, cart>> /\ UNCHANGED fulfilVars /\ job[w] = Idle
    BY DEF OrderSweep, BeginCompletion, BeginRaise, Recover, ExceptJob
  <2>. QED  BY <2>1, Reading, IdleIsCalm DEF fulfilVars, rider
<1>a. order[o] \in Order  BY RowAgrees
<1>1. ASSUME NEW j \in FulfilJob, Become(w, j), Calm(j), Knows(j) PROVE SerialIInv'
  BY <1>0, <1>1, CalmGoes
<1>2. CASE BeginCompletion(w, o)
  <2>1. PICK j : j = At(o, "complete")  OBVIOUS
  <2>2. j \in FulfilJob /\ j.pc = "complete" /\ j.id = o  BY <2>1, AtIsJob DEF WithId
  <2>3. Calm(j) /\ Knows(j)  BY <1>2, <2>2 DEF BeginCompletion, Calm, Knows
  <2>. QED  BY <1>1, <1>2, <2>1, <2>2, <2>3 DEF BeginCompletion
<1>3. CASE BeginRaise(w, o)
  <2>1. PICK j : j = At(o, "raise")  OBVIOUS
  <2>2. j \in FulfilJob /\ j.pc = "raise" /\ j.id = o  BY <2>1, AtIsJob DEF WithId
  <2>3. Calm(j) /\ Knows(j)  BY <1>3, <2>2 DEF BeginRaise, Calm, Knows
  <2>. QED  BY <1>1, <1>3, <2>1, <2>2, <2>3 DEF BeginRaise
<1>4. CASE Recover(w, o, "AUTOMATIC")
  <2>1. PICK j : j = [pc |-> "claim", id |-> o, by |-> "AUTOMATIC", pay |-> order[o].pay,
                      method |-> order[o].method]
    OBVIOUS
  <2>2. j \in FulfilJob /\ Become(w, j)
    BY <1>4, <1>a, <2>1 DEF FulfilJob, Recover, Order, Actor
  <2>3. Calm(j) /\ Knows(j)  BY <1>4, <2>1 DEF Recover, Stalled, Calm, Knows
  <2>. QED  BY <1>1, <2>2, <2>3
<1>. QED  BY <1>2, <1>3, <1>4 DEF OrderSweep

LEMMA CleanupStands ==
  ASSUME Serially, NEW w \in Workers, BeginCleanup(w), UNCHANGED fulfilVars
  PROVE  SerialIInv'
<1>0. SameStates /\ events' = events /\ Calm(job[w])
  <2>1. UNCHANGED <<order, cart>> /\ job[w] = Idle  BY DEF BeginCleanup
  <2>. QED  BY <2>1, Reading, IdleIsCalm DEF fulfilVars, rider
<1>1. PICK j : j = [pc |-> "cleanup", todo |-> {o \in Orders : Expired(o)}]  OBVIOUS
<1>2. j \in CleanupJob  BY <1>1 DEF CleanupJob
<1>3. j \in FulfilJob  BY <1>2, CleanupIsJob
<1>4. Calm(j) /\ Knows(j)  BY <1>1 DEF Calm, Knows, Expired
<1>. QED  BY <1>0, <1>1, <1>3, <1>4, CalmGoes DEF BeginCleanup

\* Time passes, a customer pays at the gateway, a rider says what he took in cash.
LEMMA WorldStands ==
  ASSUME Serially, NEW o \in Orders,
         \/ (HoldEnds(o) \/ CustomerPays(o)) /\ UNCHANGED fulfilVars
         \/ RiderConfirmsCash(o)
  PROVE  SerialIInv'
<1>0. TypeOK  BY DEF Serially, IInv
<1>1. CASE HoldEnds(o) /\ UNCHANGED fulfilVars
  <2>1. order' = [order EXCEPT ![o].hold = "late"] /\ job' = job /\ events' = events
        /\ UNCHANGED <<cart, delivery, dispute, case>>
    BY <1>1 DEF HoldEnds, Hold, fulfilVars, rider
  <2>2. SameStates  BY <1>0, <2>1 DEF SameStates, TypeOK, Order
  <2>. QED  BY <2>1, <2>2, QuietKeeps
<1>2. CASE CustomerPays(o) /\ UNCHANGED fulfilVars
  <2>1. UNCHANGED <<order, cart, delivery, dispute, case, job, events>>
    BY <1>2 DEF CustomerPays, fulfilVars, rider
  <2>. QED  BY <2>1, Reading, QuietKeeps
<1>3. CASE RiderConfirmsCash(o)
  <2>1. UNCHANGED <<order, cart, delivery, dispute, case, job>>
        /\ events' = events \union {[name |-> "CASH_CONFIRMED", id |-> o]}
    BY <1>3 DEF RiderConfirmsCash, Emit, rider
  <2>2. order[o].method = "CASH" /\ order[o].status \notin Early
    BY <1>3, RowAgrees DEF RiderConfirmsCash, Agrees
  <2>. QED  BY <2>1, <2>2, Reading, QuietKeeps
<1>. QED  BY <1>1, <1>2, <1>3

-------------------------------------------------------------------------------
\* One order is written; an exception that outlives its order's confirmation is resolved.
LEMMA TransitionWrites ==
  ASSUME TypeOK, NEW o \in Orders, NEW new \in Order, Transition(o, new)
  PROVE  \E r \in Order : /\ order' = [order EXCEPT ![o] = r]
                          /\ r.status = new.status /\ r.pay = new.pay /\ r.method = new.method
                          /\ r.exception = "OPEN" => r.status = "CONFIRMED"
<1>. DEFINE e == IF new.status # "CONFIRMED" /\ new.exception = "OPEN" THEN "RESOLVED"
                 ELSE new.exception
            r == [new EXCEPT !.exception = e]
<1>1. e \in {"NONE", "OPEN", "RESOLVED"} /\ (e = "OPEN" => new.status = "CONFIRMED")
  BY DEF Order
<1>2. r \in Order /\ r.status = new.status /\ r.pay = new.pay /\ r.method = new.method
      /\ r.exception = e
  <2>. HIDE DEF e
  <2>. QED  BY <1>1 DEF Order
<1>3. order' = [order EXCEPT ![o] = r]  BY DEF Transition
<1>. HIDE DEF r, e
<1>. QED  BY <1>1, <1>2, <1>3

LEMMA WriteFrame ==
  ASSUME TypeOK, NEW o \in Orders, NEW new, order' = [order EXCEPT ![o] = new]
  PROVE  /\ order'[o] = new /\ \A p \in Orders \ {o} : order'[p] = order[p]
         /\ Pending' = IF new.status = "PENDING" THEN Pending \union {o} ELSE Pending \ {o}
<1>1. order'[o] = new /\ \A p \in Orders \ {o} : order'[p] = order[p]  BY DEF TypeOK
<1>2. Pending' = IF new.status = "PENDING" THEN Pending \union {o} ELSE Pending \ {o}
  BY <1>1 DEF Pending
<1>. QED  BY <1>1, <1>2

\* What a write of an order has to respect, so that the rest of the state stands beside it.
Respects(o, new) ==
  /\ order[o].status \notin Early =>
       new.status \notin Early /\ (new.pay = "FAILED" => order[o].pay = "FAILED")
  /\ case[o].status # "NONE" => new.status \in {"CANCELLED", "REFUNDED"}

LEMMA WriteStands ==
  ASSUME TypeOK, SerialIInv, NEW o \in Orders, NEW new, order' = [order EXCEPT ![o] = new],
         Respects(o, new), Agrees(o)', UNCHANGED <<cart, case>>,
         \A p \in Orders \ {o} : delivery'[p] = delivery[p] /\ dispute'[p] = dispute[p],
         new.status = "PENDING" <=> order[o].status = "PENDING",
         NEW i, Calm(i), CartOf(i), CaseOf(i), NEW j, Calm(j)
  PROVE  /\ \A p \in Orders : Agrees(p)'
         /\ CartOf(j)' /\ CaseOf(j)' /\ CheckedOut'
<1>1. /\ order'[o] = new
      /\ \A p \in Orders \ {o} : order'[p] = order[p]
      /\ Pending' = IF new.status = "PENDING" THEN Pending \union {o} ELSE Pending \ {o}
  BY WriteFrame
<1>2. ASSUME NEW p \in Orders PROVE Agrees(p)'
  <2>1. CASE p = o  BY <2>1
  <2>2. CASE p # o  BY <1>1, <2>2 DEF SerialIInv, Agrees
  <2>. QED  BY <2>1, <2>2
<1>3. Pending' = Pending  BY <1>1 DEF Pending
<1>4. CartOf(j)'  BY <1>3 DEF Calm, CartOf, Paired
<1>5. CaseOf(j)'
  <2>1. ASSUME NEW p \in Orders, case[p].status # "NONE"
        PROVE  order'[p].status \in {"CANCELLED", "REFUNDED"}
    <3>1. CASE p = o  BY <1>1, <2>1, <3>1 DEF Respects
    <3>2. CASE p # o  BY <1>1, <2>1, <3>2 DEF CaseOf, Calm
    <3>. QED  BY <3>1, <3>2
  <2>. QED  BY <2>1 DEF CaseOf
<1>6. CheckedOut'  BY <1>1 DEF SerialIInv, CheckedOut, Respects
<1>. QED  BY <1>2, <1>4, <1>5, <1>6

\* A handler writes an order that is not the cart's, or leaves it pending, and ends.
LEMMA CalmWrites ==
  ASSUME Serially, NEW w \in Workers, NEW j \in FulfilJob, Become(w, j), job[w] # Idle,
         Calm(job[w]), Calm(j),
         NEW o \in Orders, NEW new, order' = [order EXCEPT ![o] = new],
         Respects(o, new), Agrees(o)', Knows(j)', UNCHANGED <<cart, case>>,
         \A p \in Orders \ {o} : delivery'[p] = delivery[p] /\ dispute'[p] = dispute[p],
         new.status = "PENDING" <=> order[o].status = "PENDING",
         \A e \in events' : e \in events \/ e.name # "CASH_CONFIRMED"
  PROVE  SerialIInv'
<1>0. TypeOK /\ SerialIInv  BY DEF Serially, IInv
<1>1. PICK i : i = job[w]  OBVIOUS
<1>2. Stands(i) /\ Calm(i) /\ events = {}  BY <1>1, OneMoves
<1>3. /\ \A p \in Orders : Agrees(p)'
      /\ CartOf(j)' /\ CaseOf(j)' /\ CheckedOut'
  BY <1>0, <1>2, WriteStands DEF Stands
<1>4. EventsKnow'  BY <1>2 DEF EventsKnow
<1>5. Stands(j)'  BY <1>3 DEF Stands
<1>. QED  BY <1>3, <1>4, <1>5, OneMoves

\* The same by Transition, where the handler comes to its end.
LEMMA TransitionStands ==
  ASSUME Serially, NEW w \in Workers, Become(w, Idle), job[w] # Idle, Calm(job[w]),
         NEW o \in Orders, NEW new \in Order, Transition(o, new),
         Respects(o, new), UNCHANGED <<cart, case>>,
         \A p \in Orders \ {o} : delivery'[p] = delivery[p] /\ dispute'[p] = dispute[p],
         new.status = "PENDING" <=> order[o].status = "PENDING",
         new.status \in Early => new.pay = "PENDING" /\ new.method \in {"NONE", "GATEWAY"},
         new.status \in Early \union {"CONFIRMED"} \/ case[o].status # "NONE" =>
           delivery'[o] = "NONE" /\ dispute'[o] = "NONE",
         case[o].outcome = "REVERSAL_CONFIRMED" => new.method = "WALLET" /\ new.pay = "REFUNDED",
         \A e \in events' : e \in events \/ e.name # "CASH_CONFIRMED"
  PROVE  SerialIInv'
<1>0. TypeOK  BY DEF Serially, IInv
<1>1. PICK r \in Order : /\ order' = [order EXCEPT ![o] = r]
                         /\ r.status = new.status /\ r.pay = new.pay /\ r.method = new.method
                         /\ r.exception = "OPEN" => r.status = "CONFIRMED"
  BY <1>0, TransitionWrites
<1>2. order'[o] = r  BY <1>0, <1>1, WriteFrame
<1>3. Respects(o, r)  BY <1>1 DEF Respects
<1>4. Agrees(o)
  BY RowAgrees
<1>5. Agrees(o)'
  <2>1. case'[o] = case[o]  OBVIOUS
  <2>2. case[o].status # "NONE" => r.status \notin Early  BY <1>3 DEF Respects, Early
  <2>. QED  BY <1>1, <1>2, <1>4, <2>1, <2>2 DEF Agrees
<1>6. Idle \in FulfilJob /\ Calm(Idle) /\ Knows(Idle)'  BY IdleIsJob DEF Calm, Knows, Idle
<1>7. r.status = "PENDING" <=> order[o].status = "PENDING"  BY <1>1
<1>. QED  BY <1>1, <1>3, <1>5, <1>6, <1>7, CalmWrites

-------------------------------------------------------------------------------
\* The handler that is under way, and what it stands on.
LEMMA UnderWay ==
  ASSUME Serially, NEW w \in Workers, job[w] # Idle
  PROVE  /\ TypeOK /\ job[w] \in FulfilJob /\ Stands(job[w]) /\ events = {}
         /\ \A o \in Orders : Agrees(o) /\ order[o] \in Order
         /\ CheckedOut
BY DEF Serially, SerialIInv, IInv, TypeOK, Busy

\* From a cart to a confirmed order: the steps that write neither order nor cart.
LEMMA PaymentReads ==
  ASSUME Serially, NEW w \in Workers, UNCHANGED fulfilVars,
         Debit(w) \/ OpenTransaction(w) \/ Ask(w) \/ MarkFailed(w) \/ MarkSuccess(w)
  PROVE  SerialIInv'
<1>0. SameStates /\ events' = events
  <2>1. UNCHANGED <<order, cart>>  BY DEF Debit, OpenTransaction, Ask, MarkFailed, MarkSuccess
  <2>. QED  BY <2>1, Reading DEF fulfilVars, rider
<1>1. PICK r : r = job[w]  OBVIOUS
<1>2. r.pc \in {"debit", "initiate", "ask", "failed", "paid"}
  BY <1>1 DEF Debit, OpenTransaction, Ask, MarkFailed, MarkSuccess
<1>3. r # Idle /\ Calm(r)  BY <1>2 DEF Idle, Calm
<1>4. r \in FulfilJob /\ Knows(r)  BY <1>1, <1>3, UnderWay DEF Stands
<1>5. PICK o \in Orders : o = r.id  BY <1>2, <1>4, JobShape
<1>6. ASSUME NEW j \in FulfilJob, Become(w, j), Calm(j), Knows(j) PROVE SerialIInv'
  BY <1>0, <1>1, <1>3, <1>6, CalmGoes
<1>7. CASE Become(w, Idle)  BY <1>6, <1>7, IdleIsJob, IdleIsCalm
<1>8. ASSUME NEW pc \in {"choose", "failed", "paid"}, Become(w, At(o, pc)),
             pc # "failed" => order[o].status = "PENDING"
      PROVE  SerialIInv'
  <2>1. PICK j : j = At(o, pc)  OBVIOUS
  <2>2. j \in FulfilJob /\ j.pc = pc /\ j.id = o  BY <2>1, AtIsJob DEF WithId
  <2>3. Calm(j) /\ Knows(j)  BY <1>8, <2>2 DEF Calm, Knows
  <2>. QED  BY <1>6, <1>8, <2>1, <2>2, <2>3
<1>9. ASSUME NEW method \in {"WALLET", "NONE"}, Become(w, Finalizing(o, method, "PAID")),
             order[o].status = "PENDING"
      PROVE  SerialIInv'
  <2>1. PICK j : j = Finalizing(o, method, "PAID")  OBVIOUS
  <2>2. method \in Methods /\ "PAID" \in Pays  BY DEF Methods, Pays
  <2>3. j \in FulfilJob /\ j.pc = "finalize" /\ j.id = o  BY <2>1, <2>2, FinalizingIsJob
  <2>4. Calm(j) /\ Knows(j)  BY <1>9, <2>3 DEF Calm, Knows
  <2>. QED  BY <1>6, <1>9, <2>1, <2>3, <2>4
<1>10. CASE Debit(w)
  <2>1. order[o].status = "PENDING"  BY <1>1, <1>4, <1>5, <1>10 DEF Debit, Knows
  <2>. QED  BY <1>1, <1>5, <1>7, <1>9, <1>10, <2>1 DEF Debit
<1>11. CASE OpenTransaction(w)
  <2>1. order[o].status = "PENDING"  BY <1>1, <1>4, <1>5, <1>11 DEF OpenTransaction, Knows
  <2>. QED  BY <1>1, <1>5, <1>8, <1>11, <2>1 DEF OpenTransaction
<1>12. CASE Ask(w)
  <2>1. r.payable => order[o].status = "PENDING"
    BY <1>1, <1>4, <1>5, <1>12 DEF Ask, Knows
  <2>. QED  BY <1>1, <1>5, <1>7, <1>8, <1>12, <2>1 DEF Ask
<1>13. CASE MarkFailed(w)  BY <1>7, <1>13 DEF MarkFailed
<1>14. CASE MarkSuccess(w)
  <2>1. order[o].status = "PENDING"  BY <1>1, <1>4, <1>5, <1>14 DEF MarkSuccess, Knows
  <2>. QED  BY <1>1, <1>5, <1>9, <1>14, <2>1 DEF MarkSuccess
<1>. QED  BY <1>10, <1>11, <1>12, <1>13, <1>14

\* The reservations, which say nothing of the order's state.
LEMMA HoldSame ==
  ASSUME TypeOK, NEW o \in Orders, NEW hold, Hold(o, hold),
         UNCHANGED <<cart, delivery, dispute, case>>
  PROVE  SameStates
BY DEF Hold, SameStates, TypeOK, Order

LEMMA HoldStands ==
  ASSUME Serially, NEW w \in Workers, UNCHANGED fulfilVars,
         Reserve(w) \/ Deduct(w) \/ Release(w)
  PROVE  SerialIInv'
<1>1. PICK r : r = job[w]  OBVIOUS
<1>2. r.pc \in {"reserve", "deduct", "release"}  BY <1>1 DEF Reserve, Deduct, Release
<1>3. r # Idle  BY <1>2 DEF Idle
<1>4. r \in FulfilJob /\ Stands(r) /\ TypeOK  BY <1>1, <1>3, UnderWay
<1>5. PICK o \in Orders : o = r.id  BY <1>2, <1>4, JobShape
<1>6. PICK j : j = At(o, CASE r.pc = "reserve" -> "lock" [] r.pc = "deduct" -> "checkout"
                           [] r.pc = "release" -> "cancel")
  OBVIOUS
<1>7. /\ r.pc = "reserve" => j = At(o, "lock")
      /\ r.pc = "deduct" => j = At(o, "checkout")
      /\ r.pc = "release" => j = At(o, "cancel")
  BY <1>6
<1>8. Become(w, j) /\ \E hold \in {"held", "gone"} : Hold(o, hold)
  BY <1>1, <1>5, <1>7 DEF Reserve, Deduct, Release
<1>9. UNCHANGED <<cart, delivery, dispute, case>> /\ events' = events
  BY DEF Reserve, Deduct, Release, fulfilVars, rider
<1>10. SameStates  BY <1>4, <1>8, <1>9, HoldSame
<1>11. j \in FulfilJob /\ j.id = o
       /\ \/ r.pc = "reserve" /\ j.pc = "lock"
          \/ r.pc = "deduct" /\ j.pc = "checkout"
          \/ r.pc = "release" /\ j.pc = "cancel"
  BY <1>2, <1>7, AtIsJob DEF WithId
<1>12. Knows(j)  BY <1>4, <1>5, <1>11 DEF Stands, Knows
<1>13. CartOf(j) /\ CaseOf(j)  BY <1>4, <1>5, <1>11 DEF Stands, CartOf, CaseOf
<1>. QED  BY <1>1, <1>3, <1>8, <1>9, <1>10, <1>11, <1>12, <1>13, StandingGoes DEF Stands

\* In the end the cleanup releases every late reservation.
LEMMA ReleaseExpiredStands ==
  ASSUME Serially, NEW w \in Workers, UNCHANGED fulfilVars, ReleaseExpired(w)
  PROVE  SerialIInv'
<1>1. job[w] # Idle /\ Calm(job[w])  BY DEF ReleaseExpired, Idle, Calm
<1>2. SameStates
  <2>1. \A o \in Orders : order[o] \in Order  BY <1>1, UnderWay
  <2>2. UNCHANGED <<cart, delivery, dispute, case>>
    BY DEF ReleaseExpired, fulfilVars, rider
  <2>3. ASSUME NEW o \in Orders
        PROVE  /\ order'[o].status = order[o].status /\ order'[o].pay = order[o].pay
               /\ order'[o].method = order[o].method
               /\ order'[o].exception = order[o].exception
    <3>1. PICK hold : order'[o] = [order[o] EXCEPT !.hold = hold]  BY DEF ReleaseExpired
    <3>. QED  BY <2>1, <3>1 DEF Order
  <2>. QED  BY <2>2, <2>3 DEF SameStates
<1>3. Become(w, Idle) /\ events' = events  BY DEF ReleaseExpired, fulfilVars
<1>. QED  BY <1>1, <1>2, <1>3, CalmGoes, IdleIsJob, IdleIsCalm

\* The cart is locked and unlocked; no order changes.
LEMMA CartMoves ==
  ASSUME Serially, NEW w \in Workers, UNCHANGED fulfilVars, UNCHANGED order, job[w] # Idle,
         job[w].pc # "cancelCase", NEW j, Become(w, j), Calm(j), Knows(j)', Paired', CheckedOut'
  PROVE  SerialIInv'
<1>1. UNCHANGED <<order, delivery, dispute, case>> /\ events' = events
  BY DEF fulfilVars, rider
<1>2. \A o \in Orders : Agrees(o)'  BY <1>1, UnderWay DEF Agrees
<1>3. CaseOf(j)'
  <2>1. CaseOf(job[w])  BY UnderWay DEF Stands
  <2>. QED  BY <1>1, <2>1 DEF CaseOf
<1>4. CartOf(j)'  BY DEF CartOf, Calm
<1>5. EventsKnow'  BY <1>1, UnderWay DEF EventsKnow
<1>. QED  BY <1>2, <1>3, <1>4, <1>5, OneMoves DEF Stands

LEMMA CartStands ==
  ASSUME Serially, NEW w \in Workers, UNCHANGED fulfilVars,
         LockCart(w) \/ CheckOut(w) \/ ReadCart(w) \/ Unlock(w)
  PROVE  SerialIInv'
<1>1. PICK r : r = job[w]  OBVIOUS
<1>2. r.pc \in {"lock", "checkout", "cart", "unlock"}
  BY <1>1 DEF LockCart, CheckOut, ReadCart, Unlock
<1>3. r # Idle /\ r.pc # "cancelCase"  BY <1>2 DEF Idle
<1>4. r \in FulfilJob /\ Stands(r)  BY <1>1, <1>3, UnderWay
<1>i. Calm(Idle) /\ Knows(Idle)'  BY DEF Calm, Knows, Idle
<1>5. CASE LockCart(w)
  <2>1. cart' = "LOCKED" /\ order' = order /\ Become(w, Idle) /\ r.pc = "lock"
    BY <1>1, <1>5 DEF LockCart
  <2>2. r.id \in Orders  BY <1>4, <2>1, JobShape
  <2>3. Pending = {r.id} /\ Pending' = Pending
    BY <1>4, <2>1 DEF Stands, CartOf, Pending
  <2>4. Paired' /\ CheckedOut'  BY <2>1, <2>2, <2>3 DEF Paired, CheckedOut
  <2>. QED  BY <1>1, <1>3, <1>i, <2>1, <2>4, CartMoves
<1>6. CASE CheckOut(w)
  <2>1. cart' = "CHECKED_OUT" /\ order' = order /\ Become(w, Idle) /\ r.pc = "checkout"
    BY <1>1, <1>6 DEF CheckOut
  <2>2. r.id \in Orders  BY <1>4, <2>1, JobShape
  <2>3. Pending = {} /\ Pending' = Pending
    BY <1>4, <2>1 DEF Stands, CartOf, Pending
  <2>4. order[r.id].status = "CONFIRMED" /\ order[r.id].pay # "FAILED"
    BY <1>4, <2>1 DEF Stands, Knows
  <2>5. Paired' /\ CheckedOut'  BY <2>1, <2>2, <2>3, <2>4 DEF Paired, CheckedOut, Early
  <2>. QED  BY <1>1, <1>3, <1>i, <2>1, <2>5, CartMoves
<1>7. CASE Unlock(w)
  <2>1. cart' = "ACTIVE" /\ order' = order /\ Become(w, r.then) /\ r.pc = "unlock"
    BY <1>1, <1>7 DEF Unlock
  <2>2. r.then \in {Idle} \union CleanupJob  BY <1>4, <2>1, JobShape
  <2>3. r.then = Idle \/ r.then.todo = {}  BY <1>4, <2>1 DEF Stands, Knows
  <2>4. Pending = {} /\ Pending' = Pending
    BY <1>4, <2>1 DEF Stands, CartOf, Pending
  <2>5. PICK j : j = r.then  OBVIOUS
  <2>6. Calm(j) /\ Knows(j)'
    <3>1. CASE j = Idle  BY <1>i, <3>1 DEF Knows
    <3>2. CASE j.pc = "cleanup" /\ j.todo = {}  BY <3>2 DEF Calm, Knows
    <3>. QED  BY <2>2, <2>3, <2>5, <3>1, <3>2 DEF CleanupJob
  <2>7. Paired' /\ CheckedOut'  BY <2>1, <2>4 DEF Paired, CheckedOut
  <2>. QED  BY <1>1, <1>3, <2>1, <2>5, <2>6, <2>7, CartMoves
<1>8. CASE ReadCart(w)
  <2>1. r.pc = "cart"  BY <1>1, <1>8 DEF ReadCart
  <2>2. cart = "LOCKED"  BY <1>4, <2>1 DEF Stands, CartOf
  <2>3. PICK j : j = [r EXCEPT !.pc = "unlock"]  OBVIOUS
  <2>4. r \in [pc : {"cart", "unlock"}, then : {Idle} \union CleanupJob]
    BY <1>4, <2>1, JobShape
  <2>5. /\ j \in [pc : {"cart", "unlock"}, then : {Idle} \union CleanupJob]
        /\ j.pc = "unlock" /\ j.then = r.then
    BY <2>3, <2>4
  <2>6. j \in FulfilJob /\ j # Idle  BY <2>5, CleanupIsJob DEF Idle
  <2>7. Stands(j)  BY <1>4, <2>1, <2>5 DEF Stands, Knows, CartOf, CaseOf
  <2>8. SameStates /\ events' = events
    BY <1>8, Reading DEF ReadCart, fulfilVars, rider
  <2>9. Become(w, j)  BY <1>1, <1>8, <2>2, <2>3 DEF ReadCart
  <2>. QED  BY <1>1, <1>3, <2>6, <2>7, <2>8, <2>9, StandingGoes
<1>. QED  BY <1>5, <1>6, <1>7, <1>8

\* An order that waits to be paid has no case, and nobody carries it.
LEMMA PendingIsEarly ==
  ASSUME NEW o \in Orders, Agrees(o), order[o].status \in Early
  PROVE  /\ case[o].status = "NONE" /\ case[o].outcome # "REVERSAL_CONFIRMED"
         /\ delivery[o] = "NONE" /\ dispute[o] = "NONE"
         /\ order[o].pay = "PENDING" /\ order[o].method \in {"NONE", "GATEWAY"}
BY DEF Agrees

\* The pending order of the cart is confirmed, cancelled or expires.
LEMMA Unpends ==
  ASSUME Serially, NEW w \in Workers, UNCHANGED fulfilVars, UNCHANGED cart, job[w] # Idle,
         Calm(job[w]), NEW o \in Orders, order[o].status = "PENDING",
         NEW r \in Order, order' = [order EXCEPT ![o] = r],
         r.status \in {"CONFIRMED", "CANCELLED"},
         r.exception = "OPEN" => r.status = "CONFIRMED",
         NEW j, Become(w, j), j.pc \in {"deduct", "cart"}, Knows(j)'
  PROVE  SerialIInv'
<1>1. PICK i : i = job[w]  OBVIOUS
<1>2. TypeOK /\ Stands(i) /\ Calm(i) /\ events = {} /\ Agrees(o)  BY <1>1, UnderWay
<1>3. UNCHANGED <<delivery, dispute, case, events>>  BY DEF fulfilVars, rider
<1>4. /\ order'[o] = r /\ Pending' = Pending \ {o}
      /\ \A p \in Orders \ {o} : order'[p] = order[p]
  BY <1>2, WriteFrame
<1>5. cart = "LOCKED" /\ Pending = {o}
  <2>1. Paired  BY <1>2 DEF Stands, CartOf, Calm
  <2>2. o \in Pending  BY DEF Pending
  <2>. QED  BY <2>1, <2>2 DEF Paired
<1>6. case[o].status = "NONE" /\ case[o].outcome # "REVERSAL_CONFIRMED"
      /\ delivery[o] = "NONE" /\ dispute[o] = "NONE"
  BY <1>2, PendingIsEarly DEF Early
<1>7. ASSUME NEW p \in Orders PROVE Agrees(p)'
  <2>1. CASE p = o  BY <1>3, <1>4, <1>6, <2>1 DEF Agrees, Early
  <2>2. CASE p # o
    <3>1. Agrees(p)  BY RowAgrees
    <3>. QED  BY <1>3, <1>4, <2>2, <3>1 DEF Agrees
  <2>. QED  BY <2>1, <2>2
<1>8. CartOf(j)'
  <2>1. cart' = "LOCKED" /\ Pending' = {}  BY <1>4, <1>5
  <2>. QED  BY <2>1 DEF CartOf
<1>9. CaseOf(j)'
  <2>1. ASSUME NEW p \in Orders, case[p].status # "NONE"
        PROVE  order'[p].status \in {"CANCELLED", "REFUNDED"}
    <3>1. p # o  BY <1>6, <2>1
    <3>2. order[p].status \in {"CANCELLED", "REFUNDED"}
      BY <1>2, <2>1 DEF Stands, CaseOf, Calm
    <3>. QED  BY <1>4, <3>1, <3>2
  <2>. QED  BY <1>3, <2>1 DEF CaseOf
<1>10. CheckedOut' /\ EventsKnow'  BY <1>2, <1>3, <1>5 DEF CheckedOut, EventsKnow
<1>. QED  BY <1>7, <1>8, <1>9, <1>10, OneMoves DEF Stands

\* The steps from a cart to a confirmed order that write an order.
LEMMA PaymentWrites ==
  ASSUME Serially, NEW w \in Workers, UNCHANGED fulfilVars,
         CreateOrder(w) \/ ChooseGateway(w) \/ Finalize(w) \/ CancelWrite(w) \/ ExpireOrder(w)
  PROVE  SerialIInv'
<1>1. PICK i : i = job[w]  OBVIOUS
<1>2. i.pc \in {"create", "choose", "finalize", "cancel", "cleanup"}
  BY <1>1 DEF CreateOrder, ChooseGateway, Finalize, CancelWrite, ExpireOrder
<1>3. i # Idle  BY <1>2 DEF Idle
<1>4. /\ TypeOK /\ i \in FulfilJob /\ Stands(i) /\ events = {}
      /\ \A o \in Orders : Agrees(o) /\ order[o] \in Order
  BY <1>1, <1>3, UnderWay
<1>5. UNCHANGED <<cart, delivery, dispute, case, events>>
  BY DEF CreateOrder, ChooseGateway, Finalize, CancelWrite, ExpireOrder, fulfilVars, rider
<1>6. i.pc # "cleanup" => i.id \in Orders  BY <1>2, <1>4, JobShape
<1>7. CASE CreateOrder(w)
  <2>1. PICK o \in Orders : o = i.id  BY <1>1, <1>6, <1>7 DEF CreateOrder
  <2>2. PICK new \in Order : new = [NoOrder EXCEPT !.status = "PENDING"]
    BY DEF NoOrder, Order, Statuses, Methods, Pays
  <2>3. new.status = "PENDING" /\ new.pay = "PENDING" /\ new.method = "NONE"
    BY <2>2 DEF NoOrder
  <2>4. Transition(o, new) /\ Become(w, At(o, "reserve")) /\ i.pc = "create"
    BY <1>1, <1>7, <2>1, <2>2 DEF CreateOrder
  <2>5. PICK r \in Order : /\ order' = [order EXCEPT ![o] = r]
                           /\ r.status = "PENDING" /\ r.pay = "PENDING" /\ r.method = "NONE"
                           /\ r.exception = "OPEN" => r.status = "CONFIRMED"
    BY <1>4, <2>3, <2>4, TransitionWrites
  <2>6. /\ order'[o] = r /\ Pending' = Pending \union {o}
        /\ \A p \in Orders \ {o} : order'[p] = order[p]
    BY <1>4, <2>5, WriteFrame
  <2>7. order[o].status = "NONE" /\ cart = "ACTIVE" /\ Pending = {}
    BY <1>4, <2>1, <2>4 DEF Stands, Knows, CartOf
  <2>8. case[o].status = "NONE" /\ case[o].outcome # "REVERSAL_CONFIRMED"
        /\ delivery[o] = "NONE" /\ dispute[o] = "NONE"
    BY <1>4, <2>7, PendingIsEarly DEF Early
  <2>9. ASSUME NEW p \in Orders PROVE Agrees(p)'
    <3>1. CASE p = o  BY <1>5, <2>5, <2>6, <2>8, <3>1 DEF Agrees, Early
    <3>2. CASE p # o  BY <1>4, <1>5, <2>6, <3>2 DEF Agrees
    <3>. QED  BY <3>1, <3>2
  <2>10. PICK j : j = At(o, "reserve")  OBVIOUS
  <2>11. j.pc = "reserve" /\ j.id = o /\ j # Idle  BY <2>10 DEF At, Idle
  <2>12. Knows(j)'  BY <2>5, <2>6, <2>11 DEF Knows
  <2>13. CartOf(j)'
    <3>1. cart' = "ACTIVE" /\ Pending' = {o}  BY <1>5, <2>6, <2>7
    <3>. QED  BY <2>11, <3>1 DEF CartOf
  <2>14. CaseOf(j)'
    <3>1. ASSUME NEW p \in Orders, case[p].status # "NONE"
          PROVE  order'[p].status \in {"CANCELLED", "REFUNDED"}
      <4>1. p # o  BY <2>8, <3>1
      <4>2. order[p].status \in {"CANCELLED", "REFUNDED"}
        BY <1>4, <2>4, <3>1 DEF Stands, CaseOf
      <4>. QED  BY <2>6, <4>1, <4>2
    <3>. QED  BY <1>5, <3>1 DEF CaseOf
  <2>15. CheckedOut' /\ EventsKnow'  BY <1>4, <1>5, <2>7 DEF CheckedOut, EventsKnow
  <2>. QED
    BY <1>1, <1>3, <2>4, <2>9, <2>10, <2>12, <2>13, <2>14, <2>15, OneMoves DEF Stands
<1>8. CASE ChooseGateway(w)
  <2>1. PICK o \in Orders : o = i.id  BY <1>1, <1>6, <1>8 DEF ChooseGateway
  <2>2. order[o].status = "PENDING" /\ Calm(i)
    BY <1>1, <1>4, <1>8, <2>1 DEF ChooseGateway, Stands, Knows, Calm
  <2>3. case[o].status = "NONE" /\ case[o].outcome # "REVERSAL_CONFIRMED"
        /\ delivery[o] = "NONE" /\ dispute[o] = "NONE" /\ order[o].pay = "PENDING"
    BY <1>4, <2>2, PendingIsEarly DEF Early
  <2>4. PICK new \in Order : new = [order[o] EXCEPT !.status = "PENDING", !.method = "GATEWAY"]
    BY <1>4 DEF Order, Statuses, Methods
  <2>5. new.status = "PENDING" /\ new.pay = "PENDING" /\ new.method = "GATEWAY"
    BY <1>4, <2>3, <2>4 DEF Order
  <2>6. Transition(o, new) /\ Become(w, Idle)
    BY <1>1, <1>8, <2>1, <2>4 DEF ChooseGateway
  <2>7. Respects(o, new)  BY <2>2, <2>3 DEF Respects, Early
  <2>8. delivery'[o] = "NONE" /\ dispute'[o] = "NONE"  BY <1>5, <2>3
  <2>. QED
    BY <1>1, <1>3, <1>5, <2>2, <2>3, <2>5, <2>6, <2>7, <2>8, TransitionStands
<1>9. CASE Finalize(w)
  <2>1. PICK o \in Orders : o = i.id  BY <1>1, <1>6, <1>9 DEF Finalize
  <2>2. order[o].status = "PENDING" /\ Calm(i)
    BY <1>1, <1>4, <1>9, <2>1 DEF Finalize, Stands, Knows, Calm
  <2>3. i.pay \in {"PENDING", "PAID"}
    <3>1. Backed(i)  BY <1>1 DEF Serially, IInv, JobsBacked
    <3>. QED  BY <1>1, <1>9, <3>1 DEF Finalize, Backed
  <2>4. i.method \in Methods  BY <1>1, <1>4, <1>9, JobShape DEF Finalize
  <2>5. PICK m \in Methods : m = IF i.method = "NONE" THEN order[o].method ELSE i.method
    BY <1>4, <2>4 DEF Order
  <2>6. PICK new \in Order :
          new = [order[o] EXCEPT !.status = "CONFIRMED", !.pay = i.pay, !.method = m]
    BY <1>4, <2>3 DEF Order, Statuses, Pays
  <2>7. new.status = "CONFIRMED" /\ new.pay = i.pay  BY <1>4, <2>6 DEF Order
  <2>8. Transition(o, new) /\ Become(w, At(o, "deduct"))
    BY <1>1, <1>9, <2>1, <2>5, <2>6 DEF Finalize
  <2>9. PICK r \in Order : /\ order' = [order EXCEPT ![o] = r]
                           /\ r.status = "CONFIRMED" /\ r.pay = i.pay
    BY <1>4, <2>7, <2>8, TransitionWrites
  <2>10. PICK j : j = At(o, "deduct")  OBVIOUS
  <2>11. j.pc = "deduct" /\ j.id = o  BY <2>10 DEF At
  <2>12. order'[o] = r  BY <1>4, <2>9, WriteFrame
  <2>13. Knows(j)'  BY <2>3, <2>9, <2>11, <2>12 DEF Knows
  <2>. QED
    BY <1>1, <1>3, <1>5, <2>2, <2>8, <2>9, <2>10, <2>11, <2>13, Unpends
<1>10. ASSUME NEW o \in Orders, order[o].status = "PENDING", Calm(i), NEW new \in Order,
              Transition(o, new), new.status = "CANCELLED",
              NEW j, Become(w, j), j.pc = "cart", j.then = Idle \/ j.then.todo = {}
       PROVE  SerialIInv'
  <2>1. PICK r \in Order : /\ order' = [order EXCEPT ![o] = r] /\ r.status = "CANCELLED"
                           /\ r.exception = "OPEN" => r.status = "CONFIRMED"
    BY <1>4, <1>10, TransitionWrites
  <2>2. Knows(j)'  BY <1>10 DEF Knows
  <2>. QED  BY <1>1, <1>3, <1>5, <1>10, <2>1, <2>2, Unpends
<1>11. CASE CancelWrite(w)
  <2>1. PICK o \in Orders : o = i.id  BY <1>1, <1>6, <1>11 DEF CancelWrite
  <2>2. order[o].status = "PENDING" /\ Calm(i)
    BY <1>1, <1>4, <1>11, <2>1 DEF CancelWrite, Stands, Knows, Calm
  <2>3. PICK new \in Order : new = [order[o] EXCEPT !.status = "CANCELLED"]
    BY <1>4 DEF Order, Statuses
  <2>4. new.status = "CANCELLED"  BY <1>4, <2>3 DEF Order
  <2>5. PICK j : j = Unlocking(Idle)  OBVIOUS
  <2>6. j.pc = "cart" /\ j.then = Idle  BY <2>5 DEF Unlocking
  <2>7. Transition(o, new) /\ Become(w, j)
    BY <1>1, <1>11, <2>1, <2>3, <2>5 DEF CancelWrite
  <2>. QED  BY <1>10, <2>2, <2>4, <2>6, <2>7
<1>12. CASE ExpireOrder(w)
  <2>0. i.pc = "cleanup" /\ Calm(i)  BY <1>1, <1>12 DEF ExpireOrder, Calm
  <2>1. i \in CleanupJob  BY <1>4, <2>0, JobShape
  <2>2. PICK o \in i.todo :
          /\ Transition(o, [order[o] EXCEPT !.status = "CANCELLED", !.pay = "FAILED"])
          /\ Become(w, Unlocking([i EXCEPT !.todo = @ \ {o}]))
    BY <1>1, <1>12 DEF ExpireOrder
  <2>3. o \in Orders /\ i.todo \subseteq Pending
    BY <1>4, <2>0, <2>1 DEF CleanupJob, Stands, Knows, Pending
  <2>4. order[o].status = "PENDING"  BY <2>3 DEF Pending
  <2>5. PICK new \in Order : new = [order[o] EXCEPT !.status = "CANCELLED", !.pay = "FAILED"]
    BY <1>4, <2>3 DEF Order, Statuses, Pays
  <2>6. new.status = "CANCELLED"  BY <1>4, <2>3, <2>5 DEF Order
  <2>7. PICK j : j = Unlocking([i EXCEPT !.todo = @ \ {o}])  OBVIOUS
  <2>8. j.pc = "cart" /\ j.then.todo = i.todo \ {o}
    BY <2>1, <2>7 DEF Unlocking, CleanupJob
  <2>9. i.todo \ {o} = {}
    <3>1. Paired  BY <1>4, <2>0 DEF Stands, CartOf
    <3>. QED  BY <2>3, <3>1 DEF Paired
  <2>. QED  BY <1>10, <2>0, <2>2, <2>3, <2>4, <2>5, <2>6, <2>7, <2>8, <2>9
<1>. QED  BY <1>7, <1>8, <1>9, <1>11, <1>12

-------------------------------------------------------------------------------
\* After the order is confirmed: the steps that write money, settlements and nothing else.
LEMMA FulfilReads ==
  ASSUME Serially, NEW w \in Workers,
         \/ Refund(w) \/ AdminCredit(w) \/ ReadReversal(w) \/ InsertRow(w) \/ PayDebt(w)
         \/ PayOut(w) \/ CloseSettlement(w) \/ TakeBack(w)
  PROVE  SerialIInv'
<1>0. SameStates /\ events' = events
  <2>1. UNCHANGED <<order, cart, delivery, dispute, case>> /\ events' = events
    BY DEF Refund, AdminCredit, ReadReversal, InsertRow, PayDebt, PayOut, CloseSettlement,
           TakeBack, ExceptJob, fulfilVars, rider
  <2>. QED  BY <2>1, Reading
<1>1. PICK i : i = job[w]  OBVIOUS
<1>2. i.pc \in {"refund", "adminRefund", "readReversal", "insertRow", "accrue", "payDebt",
                "credit", "settled", "settleFailed", "reversed", "takeBack"}
  BY <1>1 DEF Refund, AdminCredit, ReadReversal, InsertRow, PayDebt, PayOut, CloseSettlement,
              TakeBack
<1>3. i # Idle /\ Calm(i)  BY <1>2 DEF Idle, Calm
<1>4. i \in FulfilJob /\ Knows(i)  BY <1>1, <1>3, UnderWay DEF Stands
<1>5. PICK o \in Orders : o = i.id  BY <1>2, <1>4, JobShape
<1>6. ASSUME NEW j \in FulfilJob, Become(w, j), Calm(j), Knows(j) PROVE SerialIInv'
  BY <1>0, <1>1, <1>3, <1>6, CalmGoes
<1>7. CASE Become(w, Idle)  BY <1>6, <1>7, IdleIsJob, IdleIsCalm
<1>8. ASSUME NEW pc \in {"markRefunded", "reverse", "accrue", "payDebt", "credit",
                         "settled", "settleFailed", "reversed"},
             Become(w, At(o, pc)), Knows(At(o, pc))
      PROVE  SerialIInv'
  <2>1. At(o, pc) \in FulfilJob /\ At(o, pc).pc = pc  BY AtIsJob DEF WithId
  <2>2. Calm(At(o, pc))  BY <2>1 DEF Calm
  <2>. QED  BY <1>6, <1>8, <2>1, <2>2
<1>9. ASSUME NEW pc \in {"accrue", "payDebt", "credit", "settled", "settleFailed", "reversed"},
             Become(w, At(o, pc))
      PROVE  SerialIInv'
  BY <1>8, <1>9 DEF Knows, At
<1>10. CASE Refund(w)
  <2>1. PICK j : j = [pc |-> "callOff", id |-> o, paid |-> TRUE,
                      tell |-> i.tell /\ o \notin refunded]
    OBVIOUS
  <2>2. i.pc = "refund" /\ Become(w, j)  BY <1>1, <1>5, <1>10, <2>1 DEF Refund
  <2>3. j \in FulfilJob  BY <1>4, <2>1, <2>2, JobShape DEF FulfilJob
  <2>4. Calm(j) /\ Knows(j)  BY <1>4, <1>5, <2>1, <2>2 DEF Calm, Knows
  <2>. QED  BY <1>6, <2>2, <2>3, <2>4
<1>11. CASE AdminCredit(w)
  <2>1. order[o].status \notin Early  BY <1>1, <1>4, <1>5, <1>11 DEF AdminCredit, Knows
  <2>2. Knows(At(o, "markRefunded"))  BY <2>1 DEF Knows, At
  <2>. QED  BY <1>1, <1>5, <1>8, <1>11, <2>2 DEF AdminCredit
<1>12. CASE ReadReversal(w)
  <2>1. Reversible(o) => Knows(At(o, "reverse"))  BY DEF Reversible, Knows, At
  <2>. QED  BY <1>1, <1>5, <1>7, <1>8, <1>12, <2>1 DEF ReadReversal
<1>13. CASE InsertRow(w)
  <2>1. PayOutOf(i.method) \in {"accrue", "payDebt", "credit"}  BY DEF PayOutOf
  <2>. QED  BY <1>1, <1>5, <1>7, <1>9, <1>13, <2>1 DEF InsertRow
<1>14. CASE PayOut(w)  BY <1>1, <1>5, <1>9, <1>14 DEF PayOut
<1>15. CASE CloseSettlement(w)  BY <1>1, <1>5, <1>7, <1>9, <1>15 DEF CloseSettlement
<1>16. CASE TakeBack(w)  BY <1>1, <1>5, <1>7, <1>9, <1>16 DEF TakeBack
<1>17. CASE PayDebt(w)
  <2>1. \A share : IF share = "ALL" THEN At(o, IF share = "ALL" THEN "settled" ELSE "credit") = At(o, "settled")
                   ELSE At(o, IF share = "ALL" THEN "settled" ELSE "credit") = At(o, "credit")
    OBVIOUS
  <2>2. Become(w, At(o, "settled")) \/ Become(w, At(o, "credit")) \/ Become(w, At(o, "settleFailed"))
    BY <1>1, <1>5, <1>17, <2>1 DEF PayDebt
  <2>. QED  BY <1>9, <2>2
<1>. QED  BY <1>10, <1>11, <1>12, <1>13, <1>14, <1>15, <1>16, <1>17

\* Only the recovery opens a case of an order that is not yet cancelled.
LEMMA CaseIsOver ==
  ASSUME Serially, NEW w \in Workers, job[w] # Idle, Calm(job[w]), NEW o \in Orders,
         case[o].status # "NONE"
  PROVE  order[o].status \in {"CANCELLED", "REFUNDED"}
BY UnderWay DEF Stands, CaseOf, Calm

\* A confirmed order is written by the handler that has it in hand, as its last step.
LEMMA EndsByWriting ==
  ASSUME Serially, NEW w \in Workers, Become(w, Idle), job[w] # Idle, Calm(job[w]),
         NEW o \in Orders, order[o].status \notin Early,
         NEW new \in Order, Transition(o, new),
         UNCHANGED <<cart, case, delivery>>,
         \A p \in Orders \ {o} : dispute'[p] = dispute[p],
         new.status \notin Early, new.method = order[o].method,
         new.pay = "FAILED" => order[o].pay = "FAILED",
         case[o].status # "NONE" =>
           new.status \in {"CANCELLED", "REFUNDED"} /\ dispute'[o] = dispute[o],
         case[o].outcome = "REVERSAL_CONFIRMED" => new.pay = "REFUNDED",
         new.status = "CONFIRMED" => order[o].status = "CONFIRMED" /\ dispute'[o] = dispute[o],
         \A e \in events' : e \in events \/ e.name # "CASH_CONFIRMED"
  PROVE  SerialIInv'
<1>1. Agrees(o)  BY RowAgrees
<1>2. Respects(o, new)  BY DEF Respects
<1>3. new.status = "PENDING" <=> order[o].status = "PENDING"  BY DEF Early
<1>4. new.status \in Early \union {"CONFIRMED"} \/ case[o].status # "NONE" =>
        delivery'[o] = "NONE" /\ dispute'[o] = "NONE"
  BY <1>1 DEF Agrees
<1>5. case[o].outcome = "REVERSAL_CONFIRMED" => new.method = "WALLET" /\ new.pay = "REFUNDED"
  BY <1>1 DEF Agrees
<1>6. \A p \in Orders \ {o} : delivery'[p] = delivery[p] /\ dispute'[p] = dispute[p]
  OBVIOUS
<1>. QED  BY <1>2, <1>3, <1>4, <1>5, <1>6, TransitionStands

LEMMA FulfilWrites ==
  ASSUME Serially, NEW w \in Workers,
         \/ AdvanceWrite(w) \/ CallOffWrite(w) \/ PaidWrite(w) \/ DisputeOrder(w)
         \/ Complete(w) \/ AdminMark(w)
  PROVE  SerialIInv'
<1>1. PICK i : i = job[w]  OBVIOUS
<1>2. i.pc \in {"advance", "callOff", "markPaid", "disputed", "resolved", "complete",
                "markRefunded"}
  BY <1>1 DEF AdvanceWrite, CallOffWrite, PaidWrite, DisputeOrder, Complete, AdminMark
<1>3. i # Idle /\ Calm(i)  BY <1>2 DEF Idle, Calm
<1>4. i \in FulfilJob /\ Knows(i) /\ \A o \in Orders : Agrees(o) /\ order[o] \in Order
  BY <1>1, <1>3, UnderWay DEF Stands
<1>5. PICK o \in Orders : o = i.id  BY <1>2, <1>4, JobShape
<1>6. Agrees(o) /\ order[o] \in Order  BY <1>4
<1>7. Become(w, Idle) /\ UNCHANGED <<cart, case, delivery>>
  BY DEF AdvanceWrite, CallOffWrite, PaidWrite, DisputeOrder, Complete, AdminMark,
         ExceptOrder, fulfilVars, rider
<1>8. dispute' = dispute
  BY DEF AdvanceWrite, CallOffWrite, PaidWrite, DisputeOrder, Complete, AdminMark, fulfilVars,
         rider
<1>9. \A e \in events' : e \in events \/ e.name # "CASH_CONFIRMED"
  BY DEF AdvanceWrite, CallOffWrite, PaidWrite, DisputeOrder, Complete, AdminMark, Emit,
         fulfilVars
<1>10. case[o].status # "NONE" => order[o].status \in {"CANCELLED", "REFUNDED"}
  BY <1>1, <1>3, CaseIsOver
<1>11. case[o].outcome = "REVERSAL_CONFIRMED" =>
         case[o].status # "NONE" /\ order[o].method = "WALLET" /\ order[o].pay = "REFUNDED"
  BY <1>6 DEF Agrees
<1>12. CASE AdvanceWrite(w)
  <2>1. order[o].status \in {"CONFIRMED", "PREPARING"} /\ i.to \in {"PREPARING", "READY"}
    BY <1>1, <1>4, <1>5, <1>12, JobShape DEF AdvanceWrite, Knows
  <2>2. PICK new \in Order : new = [order[o] EXCEPT !.status = i.to]
    BY <1>6, <2>1 DEF Order, Statuses
  <2>3. new.status = i.to /\ new.pay = order[o].pay /\ new.method = order[o].method
    BY <1>6, <2>2 DEF Order
  <2>4. Transition(o, new)  BY <1>1, <1>5, <1>12, <2>2 DEF AdvanceWrite
  <2>5. dispute' = dispute  BY <1>12 DEF AdvanceWrite, rider
  <2>6. case[o].status = "NONE" /\ case[o].outcome # "REVERSAL_CONFIRMED"
    BY <1>10, <1>11, <2>1
  <2>7. order[o].status \notin Early /\ new.status \notin Early /\ new.status # "CONFIRMED"
    BY <2>1, <2>3 DEF Early
  <2>. QED
    BY <1>1, <1>3, <1>7, <1>9, <2>3, <2>4, <2>5, <2>6, <2>7, EndsByWriting
<1>13. CASE CallOffWrite(w)
  <2>1. order[o].status \in {"CONFIRMED", "PREPARING", "READY"} /\ i.paid \in BOOLEAN
    BY <1>1, <1>4, <1>5, <1>13, JobShape DEF CallOffWrite, Knows
  <2>2. PICK new \in Order :
          new = [order[o] EXCEPT !.status = "CANCELLED",
                                 !.pay = IF i.paid THEN "REFUNDED" ELSE @]
    BY <1>6, <2>1 DEF Order, Statuses, Pays
  <2>3. /\ new.status = "CANCELLED" /\ new.method = order[o].method
        /\ new.pay = "FAILED" => order[o].pay = "FAILED"
    BY <1>6, <2>2 DEF Order
  <2>4. Transition(o, new)  BY <1>1, <1>5, <1>13, <2>2 DEF CallOffWrite
  <2>5. dispute' = dispute  BY <1>13 DEF CallOffWrite, rider
  <2>6. case[o].status = "NONE" /\ case[o].outcome # "REVERSAL_CONFIRMED"
    BY <1>10, <1>11, <2>1
  <2>7. order[o].status \notin Early /\ new.status \notin Early  BY <2>1, <2>3 DEF Early
  <2>. QED
    BY <1>1, <1>3, <1>7, <1>9, <2>3, <2>4, <2>5, <2>6, <2>7, EndsByWriting
<1>14. CASE PaidWrite(w)
  <2>1. /\ order[o].status = i.status /\ i.status \notin Early
        /\ order[o].method # "WALLET" /\ i.status \in Statuses
    BY <1>1, <1>4, <1>5, <1>14, JobShape DEF PaidWrite, Knows
  <2>2. PICK new \in Order : new = [order[o] EXCEPT !.status = i.status, !.pay = "PAID"]
    BY <1>6, <2>1 DEF Order, Pays
  <2>3. new.status = i.status /\ new.method = order[o].method /\ new.pay = "PAID"
    BY <1>6, <2>2 DEF Order
  <2>4. Transition(o, new)  BY <1>1, <1>5, <1>14, <2>2 DEF PaidWrite
  <2>5. dispute' = dispute  BY <1>14 DEF PaidWrite, rider
  <2>6. case[o].outcome # "REVERSAL_CONFIRMED"  BY <1>11, <2>1
  <2>7. case[o].status # "NONE" => new.status \in {"CANCELLED", "REFUNDED"}
    BY <1>10, <2>1, <2>3
  <2>8. new.status = "CONFIRMED" => order[o].status = "CONFIRMED"  BY <2>1, <2>3
  <2>. QED
    BY <1>1, <1>3, <1>7, <1>9, <2>1, <2>3, <2>4, <2>5, <2>6, <2>7, <2>8, EndsByWriting
<1>15. ASSUME NEW s \in {"DISPUTED", "COMPLETED"}, NEW new, new = [order[o] EXCEPT !.status = s],
              Transition(o, new), order[o].status \notin Early,
              case[o].status = "NONE", \A p \in Orders \ {o} : dispute'[p] = dispute[p]
       PROVE  SerialIInv'
  <2>1. new \in Order  BY <1>6, <1>15 DEF Order, Statuses
  <2>2. new.status = s /\ new.pay = order[o].pay /\ new.method = order[o].method
    BY <1>6, <1>15 DEF Order
  <2>3. new.status \notin Early /\ new.status # "CONFIRMED"  BY <2>2 DEF Early
  <2>4. case[o].outcome # "REVERSAL_CONFIRMED"  BY <1>11, <1>15
  <2>. QED
    BY <1>1, <1>3, <1>7, <1>9, <1>15, <2>1, <2>2, <2>3, <2>4, EndsByWriting
<1>16. CASE DisputeOrder(w)
  <2>1. order[o].status \notin Early /\ case[o].status = "NONE"
    <3>1. CASE i.pc = "disputed"
      <4>1. order[o].status = "DELIVERED"  BY <1>4, <1>5, <3>1 DEF Knows
      <4>. QED  BY <1>10, <4>1 DEF Early
    <3>2. CASE i.pc = "resolved"
      <4>1. dispute[o] = "RESOLVED"  BY <1>4, <1>5, <3>2 DEF Knows
      <4>. QED  BY <1>6, <4>1 DEF Agrees
    <3>. QED  BY <1>1, <1>16, <3>1, <3>2 DEF DisputeOrder
  <2>2. PICK s \in {"DISPUTED", "COMPLETED"} : Transition(o, [order[o] EXCEPT !.status = s])
    BY <1>1, <1>5, <1>16 DEF DisputeOrder
  <2>. QED  BY <1>8, <1>15, <2>1, <2>2
<1>17. CASE Complete(w)
  <2>1. order[o].status = "DELIVERED"  BY <1>1, <1>4, <1>5, <1>17 DEF Complete, Knows
  <2>2. order[o].status \notin Early /\ case[o].status = "NONE"  BY <1>10, <2>1 DEF Early
  <2>3. dispute' = dispute  BY <1>17 DEF Complete, rider
  <2>4. Transition(o, [order[o] EXCEPT !.status = "COMPLETED"])
    BY <1>1, <1>5, <1>17 DEF Complete
  <2>. QED  BY <1>15, <2>2, <2>3, <2>4
<1>18. CASE AdminMark(w)
  <2>1. order[o].status \notin Early  BY <1>1, <1>4, <1>5, <1>18 DEF AdminMark, Knows
  <2>2. PICK new \in Order : new = [order[o] EXCEPT !.status = "REFUNDED", !.pay = "REFUNDED"]
    BY <1>6 DEF Order, Statuses, Pays
  <2>3. new.status = "REFUNDED" /\ new.method = order[o].method /\ new.pay = "REFUNDED"
    BY <1>6, <2>2 DEF Order
  <2>4. Transition(o, new)  BY <1>1, <1>5, <1>18, <2>2 DEF AdminMark
  <2>5. dispute' = dispute  BY <1>18 DEF AdminMark, rider
  <2>6. new.status \notin Early  BY <2>3 DEF Early
  <2>. QED
    BY <1>1, <1>3, <1>7, <1>9, <2>1, <2>3, <2>4, <2>5, <2>6, EndsByWriting
<1>. QED  BY <1>12, <1>13, <1>14, <1>16, <1>17, <1>18

\* The row of a dispute is written before its order.
LEMMA DisputeRowStands ==
  ASSUME Serially, NEW w \in Workers, DisputeRow(w)
  PROVE  SerialIInv'
<1>1. PICK i : i = job[w]  OBVIOUS
<1>2. i.pc \in {"dispute", "resolve"}  BY <1>1 DEF DisputeRow
<1>3. i # Idle /\ Calm(i)  BY <1>2 DEF Idle, Calm
<1>4. i \in FulfilJob /\ Stands(i) /\ TypeOK /\ \A o \in Orders : Agrees(o)
  BY <1>1, <1>3, UnderWay
<1>5. PICK o \in Orders : o = i.id  BY <1>2, <1>4, JobShape
<1>6. PICK to \in {"OPEN", "RESOLVED"} :
        /\ dispute' = [dispute EXCEPT ![o] = to]
        /\ Become(w, At(o, IF to = "OPEN" THEN "disputed" ELSE "resolved"))
        /\ to = "OPEN" <=> i.pc = "dispute"
  BY <1>1, <1>5 DEF DisputeRow
<1>7. UNCHANGED <<order, cart, delivery, case, events>>  BY DEF DisputeRow, ExceptJob
<1>8. PICK j : j = At(o, IF to = "OPEN" THEN "disputed" ELSE "resolved")  OBVIOUS
<1>9. j.id = o /\ j.pc = (IF to = "OPEN" THEN "disputed" ELSE "resolved") /\ j # Idle
  BY <1>8 DEF At, Idle
<1>10. order[o].status \notin Early \union {"CONFIRMED"} /\ case[o].status = "NONE"
  <2>1. CASE i.pc = "dispute"
    <3>1. order[o].status = "DELIVERED"  BY <1>4, <1>5, <2>1 DEF Stands, Knows
    <3>. QED  BY <1>1, <1>3, <3>1, CaseIsOver DEF Early
  <2>2. CASE i.pc = "resolve"
    <3>1. dispute[o] = "OPEN"  BY <1>4, <1>5, <2>2 DEF Stands, Knows
    <3>2. Agrees(o)  BY <1>4
    <3>. QED  BY <3>1, <3>2 DEF Agrees
  <2>. QED  BY <1>2, <2>1, <2>2
<1>11. ASSUME NEW p \in Orders PROVE Agrees(p)'
  <2>1. Agrees(p)  BY <1>4
  <2>2. p # o => dispute'[p] = dispute[p]  BY <1>4, <1>6 DEF TypeOK
  <2>. QED  BY <1>7, <1>10, <2>1, <2>2 DEF Agrees
<1>12. CartOf(j)' /\ CaseOf(j)'
  <2>1. Calm(j)  BY <1>9 DEF Calm
  <2>2. CartOf(j) /\ CaseOf(j)  BY <1>3, <1>4, <2>1, CalmStands DEF Stands
  <2>. QED  BY <1>7, <2>2 DEF CartOf, CaseOf, Paired, Pending
<1>13. Knows(j)'
  <2>1. dispute'[o] = to  BY <1>4, <1>6 DEF TypeOK
  <2>2. to = "OPEN" => order[o].status = "DELIVERED"
    BY <1>4, <1>5, <1>6 DEF Stands, Knows
  <2>. QED  BY <1>7, <1>9, <2>1, <2>2 DEF Knows
<1>14. CheckedOut' /\ EventsKnow'
  BY <1>7 DEF Serially, SerialIInv, CheckedOut, EventsKnow
<1>. QED  BY <1>6, <1>8, <1>9, <1>11, <1>12, <1>13, <1>14, OneMoves DEF Stands

\* The exception is raised, the payment is marked refunded, a courier is found.
LEMMA RowStands ==
  ASSUME Serially, NEW w \in Workers, Raise(w) \/ ReverseMark(w) \/ CreateDelivery(w)
  PROVE  SerialIInv'
<1>1. PICK i : i = job[w]  OBVIOUS
<1>2. i.pc \in {"raise", "reverseMark", "dispatch"}
  BY <1>1 DEF Raise, ReverseMark, CreateDelivery
<1>3. i # Idle /\ Calm(i)  BY <1>2 DEF Idle, Calm
<1>4. TypeOK /\ i \in FulfilJob /\ Knows(i) /\ \A o \in Orders : Agrees(o) /\ order[o] \in Order
  BY <1>1, <1>3, UnderWay DEF Stands
<1>5. PICK o \in Orders : o = i.id  BY <1>2, <1>4, JobShape
<1>6. Agrees(o) /\ order[o] \in Order  BY <1>4
<1>7. UNCHANGED <<cart, case, dispute, events>>
  BY DEF Raise, ReverseMark, CreateDelivery, ExceptOrder, ExceptJob, fulfilVars, rider
<1>8. \A p \in Orders \ {o} : delivery'[p] = delivery[p]
  BY <1>1, <1>4, <1>5 DEF Raise, ReverseMark, CreateDelivery, fulfilVars, rider, TypeOK
<1>9. case[o].status # "NONE" => order[o].status \in {"CANCELLED", "REFUNDED"}
  BY <1>1, <1>3, CaseIsOver
<1>i. Idle \in FulfilJob /\ Calm(Idle) /\ Knows(Idle)'  BY IdleIsJob DEF Calm, Knows, Idle
<1>10. CASE Raise(w)
  <2>1. order[o].status = "CONFIRMED"  BY <1>1, <1>4, <1>5, <1>10 DEF Raise, Knows
  <2>2. PICK e \in {"NONE", "OPEN", "RESOLVED"} : order' = [order EXCEPT ![o].exception = e]
    BY <1>1, <1>5, <1>6, <1>10 DEF Raise, Order
  <2>3. PICK new : new = [order[o] EXCEPT !.exception = e]  OBVIOUS
  <2>4. /\ new.status = order[o].status /\ new.pay = order[o].pay
        /\ new.method = order[o].method
    BY <1>6, <2>3 DEF Order
  <2>5. order' = [order EXCEPT ![o] = new]  BY <2>2, <2>3
  <2>6. order'[o] = new  BY <1>4, <2>5, WriteFrame
  <2>7. Respects(o, new)  BY <1>9, <2>1, <2>4 DEF Respects
  <2>8. delivery' = delivery /\ Become(w, Idle)  BY <1>10 DEF Raise, fulfilVars, rider
  <2>9. Agrees(o)'  BY <1>6, <1>7, <2>1, <2>4, <2>6, <2>8 DEF Agrees
  <2>. QED  BY <1>1, <1>3, <1>i, <1>7, <2>4, <2>5, <2>7, <2>8, <2>9, CalmWrites
<1>11. CASE ReverseMark(w)
  <2>1. /\ order[o].status = "CANCELLED" /\ order[o].method = "WALLET"
        /\ case[o].status # "NONE"
    BY <1>1, <1>4, <1>5, <1>11 DEF ReverseMark, Knows
  <2>2. PICK new : new = [order[o] EXCEPT !.pay = "REFUNDED"]  OBVIOUS
  <2>3. /\ new.status = order[o].status /\ new.pay = "REFUNDED"
        /\ new.method = order[o].method /\ new.exception = order[o].exception
    BY <1>6, <2>2 DEF Order
  <2>4. order' = [order EXCEPT ![o] = new]  BY <1>1, <1>5, <1>11, <2>2 DEF ReverseMark
  <2>5. order'[o] = new  BY <1>4, <2>4, WriteFrame
  <2>6. Respects(o, new)  BY <2>1, <2>3 DEF Respects
  <2>7. PICK j : j = [i EXCEPT !.pc = "closeCase"]  OBVIOUS
  <2>8. i \in [pc : {"reverseMark", "closeCase"}, id : Orders, applied : BOOLEAN]
    BY <1>1, <1>4, <1>11, JobShape DEF ReverseMark
  <2>9. /\ j \in [pc : {"reverseMark", "closeCase"}, id : Orders, applied : BOOLEAN]
        /\ j.pc = "closeCase" /\ j.id = o
    BY <1>5, <2>7, <2>8
  <2>10. j \in FulfilJob  BY <2>9 DEF FulfilJob
  <2>11. delivery' = delivery /\ Become(w, j)
    BY <1>1, <1>11, <2>7 DEF ReverseMark, fulfilVars, rider
  <2>12. Agrees(o)'  BY <1>6, <1>7, <2>1, <2>3, <2>5, <2>11 DEF Agrees, Early
  <2>13. Calm(j) /\ Knows(j)'  BY <1>7, <2>1, <2>3, <2>5, <2>9 DEF Calm, Knows
  <2>. QED
    BY <1>1, <1>3, <1>7, <2>3, <2>4, <2>6, <2>10, <2>11, <2>12, <2>13, CalmWrites
<1>12. CASE CreateDelivery(w)
  <2>1. order[o].status = "READY"  BY <1>1, <1>4, <1>5, <1>12 DEF CreateDelivery, Knows
  <2>2. PICK new : new = order[o]  OBVIOUS
  <2>3. order' = [order EXCEPT ![o] = new]
    BY <1>4, <1>12, <2>2 DEF CreateDelivery, ExceptJob, TypeOK
  <2>4. order'[o] = new  BY <1>4, <2>3, WriteFrame
  <2>5. Respects(o, new)  BY <1>9, <2>1, <2>2 DEF Respects
  <2>6. Agrees(o)'  BY <1>6, <1>7, <1>9, <2>1, <2>2, <2>4 DEF Agrees, Early
  <2>7. Become(w, Idle)  BY <1>12 DEF CreateDelivery
  <2>. QED  BY <1>1, <1>3, <1>i, <1>7, <1>8, <2>2, <2>3, <2>5, <2>6, <2>7, CalmWrites
<1>. QED  BY <1>10, <1>11, <1>12

\* The rider takes the order or hands it over, between handlers.
LEMMA RiderStands ==
  ASSUME Serially, NEW o \in Orders, RiderAccepts(o) \/ RiderDelivers(o)
  PROVE  SerialIInv'
<1>0. TypeOK /\ SerialIInv /\ OneAtATime  BY DEF Serially, IInv
<1>1. PICK from \in {"ASSIGNED", "ACCEPTED"}, to \in {"ACCEPTED", "DELIVERED"},
           status \in {"WITH_RIDER", "DELIVERED"} :
        RiderCall(o, from, to, status) /\ from # to
  BY DEF RiderAccepts, RiderDelivers
<1>2. UNCHANGED <<cart, job, dispute, case, events>>
  BY <1>1 DEF RiderCall, ExceptOrder
<1>3. Busy = {} /\ events = {} /\ Busy' = {}
  <2>1. delivery' # delivery  BY <1>0, <1>1 DEF RiderCall, TypeOK
  <2>. QED  BY <1>0, <1>2, <2>1 DEF OneAtATime, Quiet, Busy
<1>4. Agrees(o) /\ order[o] \in Order /\ delivery[o] # "NONE"
  BY <1>1, RowAgrees DEF RiderCall
<1>5. order[o].status \notin Early \union {"CONFIRMED"} /\ case[o].status = "NONE"
      /\ case[o].outcome # "REVERSAL_CONFIRMED"
  BY <1>4 DEF Agrees
<1>6. PICK new \in Order : new = [order[o] EXCEPT !.status = status]
  BY <1>4 DEF Order, Statuses
<1>7. new.status = status /\ new.pay = order[o].pay  BY <1>4, <1>6 DEF Order
<1>8. PICK r \in Order : /\ order' = [order EXCEPT ![o] = r]
                         /\ r.status = status /\ r.pay = order[o].pay
                         /\ r.exception = "OPEN" => r.status = "CONFIRMED"
  <2>1. Transition(o, new)  BY <1>1, <1>6 DEF RiderCall
  <2>. QED  BY <1>0, <1>7, <2>1, TransitionWrites
<1>9. order'[o] = r  BY <1>0, <1>8, WriteFrame
<1>10. Respects(o, r)  BY <1>5, <1>8 DEF Respects, Early
<1>11. Agrees(o)'  BY <1>2, <1>5, <1>8, <1>9 DEF Agrees, Early
<1>12. \A p \in Orders \ {o} : delivery'[p] = delivery[p] /\ dispute'[p] = dispute[p]
  BY <1>0, <1>1, <1>2 DEF RiderCall, TypeOK
<1>13. r.status = "PENDING" <=> order[o].status = "PENDING"  BY <1>5, <1>8 DEF Early
<1>14. Calm(Idle) /\ Knows(Idle)' /\ CartOf(Idle) /\ CaseOf(Idle)
  BY <1>0, <1>3 DEF SerialIInv, Stands, Calm, Knows, Idle
<1>15. (\A p \in Orders : Agrees(p)') /\ CartOf(Idle)' /\ CaseOf(Idle)' /\ CheckedOut'
  BY <1>0, <1>2, <1>8, <1>10, <1>11, <1>12, <1>13, <1>14, WriteStands
<1>. QED  BY <1>2, <1>3, <1>14, <1>15 DEF SerialIInv, Stands, EventsKnow

-------------------------------------------------------------------------------
\* A case is opened or goes on; no order changes.
LEMMA CaseMoves ==
  ASSUME Serially, NEW w \in Workers, job[w] # Idle, Calm(job[w]),
         UNCHANGED <<order, cart, delivery, dispute, events>>,
         NEW o \in Orders, NEW c, case' = [case EXCEPT ![o] = c], c.status # "NONE",
         case[o].status # "NONE" \/ order[o].status = "CONFIRMED",
         c.outcome = "REVERSAL_CONFIRMED" => order[o].method = "WALLET" /\ order[o].pay = "REFUNDED",
         NEW j, Become(w, j), Knows(j)',
         \/ Calm(j) /\ order[o].status = "CANCELLED"
         \/ j.pc = "cancelCase" /\ j.id = o
  PROVE  SerialIInv'
<1>1. PICK i : i = job[w]  OBVIOUS
<1>2. TypeOK /\ Stands(i) /\ Calm(i) /\ events = {} /\ CheckedOut /\ \A p \in Orders : Agrees(p)
  BY <1>1, UnderWay
<1>3. case'[o] = c /\ \A p \in Orders \ {o} : case'[p] = case[p]  BY <1>2 DEF TypeOK
<1>4. ASSUME NEW p \in Orders PROVE Agrees(p)'
  <2>1. CASE p = o
    <3>1. Agrees(o)  BY <1>2
    <3>2. order[o].status \notin Early /\ delivery[o] = "NONE" /\ dispute[o] = "NONE"
      BY <3>1 DEF Agrees, Early
    <3>. QED  BY <1>3, <2>1, <3>1, <3>2 DEF Agrees
  <2>2. CASE p # o
    <3>1. Agrees(p)  BY <1>2
    <3>. QED  BY <1>3, <2>2, <3>1 DEF Agrees
  <2>. QED  BY <2>1, <2>2
<1>5. CartOf(j)'
  <2>1. Paired'  BY <1>2 DEF Stands, CartOf, Calm, Paired, Pending
  <2>. QED  BY <2>1 DEF CartOf, Calm
<1>6. CaseOf(j)'
  <2>1. ASSUME NEW p \in Orders, case'[p].status # "NONE"
        PROVE  order[p].status \in {"CANCELLED", "REFUNDED"} \/ (j.pc = "cancelCase" /\ j.id = p)
    <3>1. CASE p = o  BY <3>1
    <3>2. CASE p # o  BY <1>2, <1>3, <2>1, <3>2 DEF Stands, CaseOf, Calm
    <3>. QED  BY <3>1, <3>2
  <2>. QED  BY <2>1 DEF CaseOf
<1>7. CheckedOut' /\ EventsKnow'  BY <1>2 DEF CheckedOut, EventsKnow
<1>. QED  BY <1>4, <1>5, <1>6, <1>7, OneMoves DEF Stands

LEMMA CaseStands ==
  ASSUME Serially, NEW w \in Workers, Claim(w) \/ CaseStatus(w) \/ Reverse(w) \/ CloseCase(w)
  PROVE  SerialIInv'
<1>1. PICK i : i = job[w]  OBVIOUS
<1>2. i.pc \in {"claim", "caseStatus", "reverse", "closeCase"}
  BY <1>1 DEF Claim, CaseStatus, Reverse, CloseCase
<1>3. i # Idle /\ Calm(i)  BY <1>2 DEF Idle, Calm
<1>4. TypeOK /\ i \in FulfilJob /\ Knows(i)
  BY <1>1, <1>3, UnderWay DEF Stands
<1>5. PICK o \in Orders : o = i.id  BY <1>2, <1>4, JobShape
<1>6. Agrees(o) /\ case[o] \in Case  BY <1>4, RowAgrees DEF TypeOK
<1>7. UNCHANGED <<order, cart, delivery, dispute, events>>
  BY DEF Claim, CaseStatus, Reverse, CloseCase, ExceptJob, rider
<1>i. Idle \in FulfilJob /\ Calm(Idle) /\ Knows(Idle) /\ Knows(Idle)'
  BY IdleIsJob DEF Calm, Knows, Idle
<1>8. CASE Claim(w)
  <2>1. order[o].status = "CONFIRMED"  BY <1>1, <1>4, <1>5, <1>8 DEF Claim, Knows
  <2>2. case[o].status = "NONE"  BY <1>1, <1>3, <2>1, CaseIsOver
  <2>3. PICK j : j = [i EXCEPT !.pc = "cancelCase"]  OBVIOUS
  <2>4. i \in [pc : {"claim", "cancelCase", "caseStatus"}, id : Orders, by : Actor,
               pay : Pays, method : Methods]
    BY <1>1, <1>4, <1>8, JobShape DEF Claim
  <2>5. j.pc = "cancelCase" /\ j.id = o  BY <1>5, <2>3, <2>4
  <2>6. PICK c : c = [case[o] EXCEPT !.status = "PENDING"]  OBVIOUS
  <2>7. c.status = "PENDING" /\ c.outcome = case[o].outcome  BY <1>6, <2>6 DEF Case
  <2>8. case' = [case EXCEPT ![o] = c] /\ Become(w, j)
    BY <1>1, <1>5, <1>8, <2>2, <2>3, <2>6 DEF Claim
  <2>9. c.outcome # "REVERSAL_CONFIRMED"  BY <1>6, <2>2, <2>7 DEF Agrees
  <2>10. Knows(j)'
    <3>1. case'[o].status # "NONE"  BY <1>4, <2>7, <2>8 DEF TypeOK
    <3>. QED  BY <1>7, <2>1, <2>5, <3>1 DEF Knows
  <2>. QED
    BY <1>1, <1>3, <1>7, <2>1, <2>5, <2>7, <2>8, <2>9, <2>10, CaseMoves
<1>9. CASE CaseStatus(w)
  <2>1. order[o].status = "CANCELLED" /\ case[o].status # "NONE"
    BY <1>1, <1>4, <1>5, <1>9 DEF CaseStatus, Knows
  <2>2. PICK s : s = StatusAfterCancellation(i.method, i.pay)  OBVIOUS
  <2>3. s # "NONE"  BY <2>2 DEF StatusAfterCancellation
  <2>4. PICK c : c = [case[o] EXCEPT !.status = s]  OBVIOUS
  <2>5. c.status = s /\ c.outcome = case[o].outcome  BY <1>6, <2>4 DEF Case
  <2>6. case' = [case EXCEPT ![o] = c]
    BY <1>1, <1>5, <1>9, <2>2, <2>4 DEF CaseStatus
  <2>7. c.outcome = "REVERSAL_CONFIRMED" => order[o].method = "WALLET" /\ order[o].pay = "REFUNDED"
    BY <1>6, <2>5 DEF Agrees
  <2>8. PICK j \in {At(o, "readReversal"), Idle} : Become(w, j)
    BY <1>1, <1>5, <1>9 DEF CaseStatus
  <2>9. Calm(j) /\ Knows(j)'  BY DEF Calm, Knows, At, Idle
  <2>. QED
    BY <1>1, <1>3, <1>7, <2>1, <2>3, <2>5, <2>6, <2>7, <2>8, <2>9, CaseMoves
<1>10. CASE Reverse(w)
  <2>1. /\ order[o].status = "CANCELLED" /\ case[o].status # "NONE"
        /\ order[o].method = "WALLET"
    BY <1>1, <1>4, <1>5, <1>10 DEF Reverse, Knows
  <2>2. PICK j : j = [pc |-> "reverseMark", id |-> o, applied |-> o \notin refunded]  OBVIOUS
  <2>3. j \in FulfilJob  BY <2>2 DEF FulfilJob
  <2>4. Calm(j) /\ Knows(j)  BY <2>1, <2>2 DEF Calm, Knows
  <2>5. PICK c : c = [status |-> "AWAITING_FINANCIAL_RETRY", outcome |-> "REVERSAL_FAILED"]
    OBVIOUS
  <2>6. \/ Become(w, j) /\ UNCHANGED case
        \/ Become(w, Idle) /\ case' = [case EXCEPT ![o] = c]
    BY <1>1, <1>5, <1>10, <2>2, <2>5 DEF Reverse
  <2>7. CASE Become(w, j) /\ UNCHANGED case
    <3>1. SameStates  BY <1>7, <2>7, Reading
    <3>. QED  BY <1>1, <1>3, <1>7, <2>3, <2>4, <2>7, <3>1, CalmGoes
  <2>8. CASE Become(w, Idle) /\ case' = [case EXCEPT ![o] = c]
    <3>1. c.status # "NONE" /\ c.outcome # "REVERSAL_CONFIRMED"  BY <2>5
    <3>. QED  BY <1>1, <1>3, <1>7, <1>i, <2>1, <2>8, <3>1, CaseMoves
  <2>. QED  BY <2>6, <2>7, <2>8
<1>11. CASE CloseCase(w)
  <2>1. /\ order[o].status = "CANCELLED" /\ case[o].status # "NONE"
        /\ order[o].method = "WALLET" /\ order[o].pay = "REFUNDED"
    BY <1>1, <1>4, <1>5, <1>11 DEF CloseCase, Knows
  <2>2. PICK c : c = [status |-> "CLOSED", outcome |-> "REVERSAL_CONFIRMED"]  OBVIOUS
  <2>3. case' = [case EXCEPT ![o] = c] /\ Become(w, Idle)
    BY <1>1, <1>5, <1>11, <2>2 DEF CloseCase
  <2>4. c.status # "NONE"  BY <2>2
  <2>. QED  BY <1>1, <1>3, <1>7, <1>i, <2>1, <2>3, <2>4, CaseMoves
<1>. QED  BY <1>8, <1>9, <1>10, <1>11

\* The recovery cancels the order whose case it has opened.
LEMMA CancelStands ==
  ASSUME Serially, NEW w \in Workers, CancelForRecovery(w)
  PROVE  SerialIInv'
<1>1. PICK i : i = job[w]  OBVIOUS
<1>2. i.pc = "cancelCase"  BY <1>1 DEF CancelForRecovery
<1>3. i # Idle  BY <1>2 DEF Idle
<1>4. /\ TypeOK /\ i \in FulfilJob /\ Stands(i) /\ events = {} /\ CheckedOut
      /\ \A p \in Orders : Agrees(p) /\ order[p] \in Order
  BY <1>1, <1>3, UnderWay
<1>5. PICK o \in Orders : o = i.id  BY <1>2, <1>4, JobShape
<1>6. UNCHANGED <<cart, case, delivery, dispute, events>>
  BY DEF CancelForRecovery, ExceptOrder, fulfilVars, rider
<1>7. order[o].status = "CONFIRMED" /\ case[o].status # "NONE"
  BY <1>2, <1>4, <1>5 DEF Stands, Knows
<1>8. PICK new \in Order : new = [order[o] EXCEPT !.status = "CANCELLED"]
  BY <1>4 DEF Order, Statuses
<1>9. new.status = "CANCELLED" /\ new.pay = order[o].pay /\ new.method = order[o].method
  BY <1>4, <1>8 DEF Order
<1>10. Transition(o, new)  BY <1>1, <1>5, <1>8 DEF CancelForRecovery
<1>11. PICK r \in Order : /\ order' = [order EXCEPT ![o] = r]
                          /\ r.status = "CANCELLED" /\ r.pay = order[o].pay
                          /\ r.method = order[o].method
                          /\ r.exception = "OPEN" => r.status = "CONFIRMED"
  BY <1>4, <1>9, <1>10, TransitionWrites
<1>12. /\ order'[o] = r /\ \A p \in Orders \ {o} : order'[p] = order[p]
  BY <1>4, <1>11, WriteFrame
<1>13. Pending' = Pending  BY <1>7, <1>11, <1>12 DEF Pending
<1>14. ASSUME NEW p \in Orders PROVE Agrees(p)'
  <2>0. Agrees(p)  BY <1>4
  <2>1. CASE p = o
    BY <1>6, <1>7, <1>11, <1>12, <2>0, <2>1 DEF Agrees, Early
  <2>2. CASE p # o  BY <1>6, <1>12, <2>0, <2>2 DEF Agrees
  <2>. QED  BY <2>1, <2>2
<1>15. PICK j : j = [i EXCEPT !.pc = "caseStatus"]  OBVIOUS
<1>16. i \in [pc : {"claim", "cancelCase", "caseStatus"}, id : Orders, by : Actor,
              pay : Pays, method : Methods]
  BY <1>2, <1>4, JobShape
<1>17. j.pc = "caseStatus" /\ j.id = o  BY <1>5, <1>15, <1>16
<1>18. Become(w, j)  BY <1>1, <1>15 DEF CancelForRecovery
<1>19. Knows(j)'  BY <1>6, <1>7, <1>11, <1>12, <1>17 DEF Knows
<1>20. CartOf(j)'
  <2>1. Paired  BY <1>2, <1>4 DEF Stands, CartOf
  <2>2. Paired'  BY <1>6, <1>13, <2>1 DEF Paired
  <2>. QED  BY <1>17, <2>2 DEF CartOf
<1>21. CaseOf(j)'
  <2>1. ASSUME NEW p \in Orders, case[p].status # "NONE"
        PROVE  order'[p].status \in {"CANCELLED", "REFUNDED"}
    <3>1. CASE p = o  BY <1>11, <1>12, <3>1
    <3>2. CASE p # o
      <4>1. order[p].status \in {"CANCELLED", "REFUNDED"}
        BY <1>4, <1>5, <2>1, <3>2 DEF Stands, CaseOf
      <4>. QED  BY <1>12, <3>2, <4>1
    <3>. QED  BY <3>1, <3>2
  <2>. QED  BY <1>6, <2>1 DEF CaseOf
<1>22. CheckedOut'
  <2>1. \A p \in Orders : /\ order[p].status \notin Early => order'[p].status \notin Early
                          /\ order'[p].pay = order[p].pay
    BY <1>11, <1>12 DEF Early
  <2>. QED  BY <1>4, <1>6, <2>1 DEF CheckedOut
<1>23. EventsKnow'  BY <1>4, <1>6 DEF EventsKnow
<1>. QED  BY <1>1, <1>3, <1>14, <1>18, <1>19, <1>20, <1>21, <1>22, <1>23, OneMoves DEF Stands

-------------------------------------------------------------------------------
LEMMA PaymentStepStands ==
  ASSUME Serially, NEW w \in Workers, PaymentStep(w), UNCHANGED fulfilVars
  PROVE  SerialIInv'
BY PaymentReads, PaymentWrites, HoldStands, ReleaseExpiredStands, CartStands DEF PaymentStep

LEMMA FulfilStepStands ==
  ASSUME Serially, NEW w \in Workers, FulfilStep(w)
  PROVE  SerialIInv'
BY FulfilReads, FulfilWrites, DisputeRowStands, RowStands, CaseStands, CancelStands DEF FulfilStep

\* While handlers do not overlap, none dies.
LEMMA SerialNext ==
  ASSUME IInv, SerialIInv, ~Overlap, [MCNext]_mcVars
  PROVE  SerialIInv'
<1>1. CASE MCNext
  <2>1. OneAtATime  BY <1>1 DEF MCNext, Scene
  <2>2. Serially  BY <2>1 DEF Serially
  <2>3. crashes' # crashes + 1
    <3>1. crashes \in Nat  BY PaymentsConfig DEF IInv, TypeOK
    <3>. QED  BY <2>1, <3>1 DEF OneAtATime
  <2>4. CASE PaymentNext /\ UNCHANGED fulfilVars
    BY <2>2, <2>3, <2>4, RequestStands, CleanupStands, PaymentStepStands, WorldStands
    DEF PaymentNext, Crash
  <2>5. ASSUME NEW w \in Workers, NEW o \in Orders,
               FulfilRequest(w, o) \/ HandleEvent(w, o) \/ OrderSweep(w, o)
        PROVE  SerialIInv'
    BY <2>2, <2>5, FulfilRequestStands, EventStands, SweepStands
  <2>6. ASSUME NEW w \in Workers, FulfilStep(w) PROVE SerialIInv'
    BY <2>2, <2>6, FulfilStepStands
  <2>7. ASSUME NEW o \in Orders, RiderAccepts(o) \/ RiderDelivers(o) \/ RiderConfirmsCash(o)
        PROVE  SerialIInv'
    BY <2>2, <2>7, RiderStands, WorldStands
  <2>8. CASE Restart  BY <2>3, <2>8 DEF Restart
  <2>9. Next  BY <1>1 DEF MCNext
  <2>. QED  BY <2>4, <2>5, <2>6, <2>7, <2>8, <2>9 DEF Next
<1>2. CASE UNCHANGED mcVars
  <2>1. UNCHANGED <<order, cart, job, delivery, dispute, case, events>>
    BY <1>2 DEF mcVars, vars, paymentVars, fulfilVars, rider
  <2>. QED
    BY <2>1 DEF SerialIInv, Busy, Agrees, Stands, Knows, CartOf, CaseOf, Paired, Pending,
                CheckedOut, EventsKnow
<1>. QED  BY <1>1, <1>2

LEMMA SerialInvariant == MCSpec => []MCIInv
<1>1. MCInit => MCIInv  BY InitSerial
<1>2. MCIInv /\ [MCNext]_mcVars => MCIInv'
  <2>. SUFFICES ASSUME MCIInv, [MCNext]_mcVars PROVE MCIInv'  OBVIOUS
  <2>1. [Next]_vars  BY DEF MCNext, mcVars
  <2>2. IInv'  BY <2>1, StepKeepsIInv DEF MCIInv
  <2>3. ~Overlap => SerialIInv'  BY SerialNext DEF MCIInv
  <2>. QED  BY <2>2, <2>3 DEF MCIInv
<1>. QED  BY <1>1, <1>2, PTL DEF MCSpec

\* checkout, cancelCustomerOrder, runCleanup and finalizeOrderConfirmation, of any number of
\* orders of one cart: each leaves it locked exactly when an order waits to be paid.
THEOREM CartsFollowOrders == MCSpec => []CartFollowsOrder
<1>1. MCIInv => CartFollowsOrder
  <2>. SUFFICES ASSUME MCIInv, ~Overlap, Quiet PROVE CartFollowsOrder  BY DEF CartFollowsOrder
  <2>1. Paired /\ CheckedOut
    BY DEF MCIInv, SerialIInv, Quiet, Stands, CartOf, Idle
  <2>2. Cardinality(Pending) = IF cart = "LOCKED" THEN 1 ELSE 0
    <3>1. CASE cart = "LOCKED"
      <4>1. PICK o \in Orders : Pending = {o}  BY <2>1, <3>1 DEF Paired
      <4>2. Cardinality({o}) = 1  BY FS_Singleton
      <4>. QED  BY <3>1, <4>1, <4>2
    <3>2. CASE cart # "LOCKED"
      <4>1. Pending = {}  BY <2>1, <3>2 DEF Paired
      <4>2. Cardinality({}) = 0  BY FS_EmptySet
      <4>. QED  BY <3>2, <4>1, <4>2
    <3>. QED  BY <3>1, <3>2
  <2>. QED  BY <2>1, <2>2 DEF CartFollowsOrder, Pending, CheckedOut, Early
<1>. QED  BY <1>1, SerialInvariant, PTL

\* transition, cancelForRecovery and recoverAutomatically: whatever becomes of an order, its
\* exception is open only while it is CONFIRMED, and a case is of a cancelled order.
THEOREM CasesFollowOrders == MCSpec => []CaseFollowsOrder
<1>1. MCIInv => CaseFollowsOrder
  <2>. SUFFICES ASSUME MCIInv, ~Overlap, Quiet PROVE CaseFollowsOrder  BY DEF CaseFollowsOrder
  <2>1. CaseOf(Idle) /\ \A o \in Orders : Agrees(o)
    BY DEF MCIInv, SerialIInv, Quiet, Stands
  <2>2. \A o \in Orders : case[o].status # "NONE" => order[o].status \in {"CANCELLED", "REFUNDED"}
    BY <2>1 DEF CaseOf, Idle
  <2>. QED  BY <2>1, <2>2 DEF CaseFollowsOrder, Agrees
<1>. QED  BY <1>1, SerialInvariant, PTL
===============================================================================
