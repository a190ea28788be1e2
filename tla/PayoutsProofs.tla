----------------------------- MODULE PayoutsProofs -----------------------------
(***************************************************************************)
(* For any number of requests and handlers, any amounts, debts and number  *)
(* of crashes: the bank is asked only for money that left the wallet,      *)
(* money comes back only where it is due, and when no handler died the     *)
(* status of a request tells where its money is.                           *)
(*                                                                         *)
(* The inductive invariant says who is responsible for a request at each   *)
(* stage. One handler at most carries it from its creation to the answer   *)
(* of the provider (OneCarrier); what that handler has not done yet nobody *)
(* has (NewIsUntouched, NotYetDebited, NotYetSent); whoever fails or       *)
(* refunds a request has a reason that stays one (ReasonsStand).           *)
(***************************************************************************)
EXTENDS Payouts, MCCommissionAccount, TLAPS

Early    == {"settle", "pay", "row"}
Undebited == Early \union {"debit"}
Unsent   == Undebited \union {"abandon", "initiate", "send"}
Carrying == Unsent \union {"answer"}

Carries(w, r) == job[w].pc \in Carrying /\ job[w].req = r

\* Why a request may be failed: the bank said so, initiate caught an exception, or the
\* call of the provider was never made and never will be.
Reason(r) ==
  \/ r \in unsure
  \/ transfer[r] \in {"refused", "returned"}
  \/ transfer[r] = "none" /\ \A w \in Workers : ~Carries(w, r)

\* When a refund is due without an operator.
Due(r) == Debited(r) /\ row[r].status = "FAILED" /\ Reason(r)

OneCarrier == \A r \in Requests : \A v, w \in Workers :
  Carries(v, r) /\ Carries(w, r) => v = w

NewIsUntouched == \A r \in Requests : row[r].status = "NONE" =>
  /\ ~Debited(r) /\ ~Refunded(r) /\ transfer[r] = "none"
  /\ \A w \in Workers : job[w].pc # "idle" /\ job[w].req = r => job[w].pc \in Early

EarlyIsNew == \A w \in Workers : job[w].pc \in Early => row[job[w].req].status = "NONE"

\* The debit may have thrown after it was posted: create gives the request up even so.
NotYetDebited == \A w \in Workers :
  /\ job[w].pc \in Undebited => ~Debited(job[w].req)
  /\ job[w].pc = "abandon" /\ crashes = 0 => ~Debited(job[w].req)

NotYetSent == \A w \in Workers : job[w].pc \in Unsent => transfer[job[w].req] = "none"

\* A handler past the debit knows of it, and one past the settlement of that.
DebitKnown == \A w \in Workers :
  /\ job[w].pc \in {"initiate", "send", "answer", "fail", "guard"} => Debited(job[w].req)
  /\ job[w].pc = "refund" /\ job[w].inTry => Debited(job[w].req)
  /\ job[w].pc = "pay" => <<"settlement", job[w].req>> \in posted

ReasonsStand ==
  /\ \A w \in Workers :
       /\ job[w].pc \in {"fail", "guard"} => Reason(job[w].req)
       /\ job[w].pc = "refund" => row[job[w].req].operator \/ Due(job[w].req)
  /\ \A r \in Requests : Refunded(r) => row[r].operator \/ Due(r)

SuccessIsPaid ==
  /\ \A w \in Workers : job[w].pc = "succeed" => transfer[job[w].req] \in {"paid", "returned"}
  /\ \A r \in Requests : row[r].status = "COMPLETED" /\ ~row[r].operator =>
       transfer[r] \in {"paid", "returned"}

\* While nobody died, a handler is on its way to whatever is still missing.
Refunding(r) == \E w \in Workers : job[w].pc = "refund" /\ job[w].req = r
Debiting(r)  == \E w \in Workers : job[w].pc \in {"debit", "abandon"} /\ job[w].req = r
NothingForgotten == crashes = 0 => \A r \in Requests :
  /\ row[r].status = "FAILED" =>
       \/ Refunded(r) \/ Refunding(r)
       \/ ~Debited(r) /\ \A w \in Workers : ~Carries(w, r)
  /\ row[r].status \in {"PENDING", "COMPLETED"} =>
       Debited(r) \/ row[r].operator \/ Debiting(r)

IInv ==
  /\ TypeOK /\ SentIsFunded
  /\ OneCarrier /\ NewIsUntouched /\ EarlyIsNew /\ NotYetDebited /\ NotYetSent
  /\ DebitKnown /\ ReasonsStand /\ SuccessIsPaid /\ NothingForgotten

-------------------------------------------------------------------------------
\* A handler's program counter tells the shape of its record.
LEMMA JobShape ==
  ASSUME NEW j \in Job
  PROVE  /\ j.pc = "idle" => j = Idle
         /\ j.pc # "idle" => j.req \in Requests
         /\ j.pc \in Early => j.owed \in Nat /\ j.payable \in Nat
         /\ j.pc = "guard" => j.seen \in Statuses
         /\ j.pc \in {"succeed", "fail", "guard", "refund"} => j.inTry \in BOOLEAN
         /\ j.pc \in Early =>
              j \in [pc : {"settle", "pay", "row"}, req : Requests, owed : Nat, payable : Nat]
BY DEF Job, Idle, Early

LEMMA AtIsJob ==
  ASSUME NEW r \in Requests,
         NEW pc \in {"debit", "abandon", "initiate", "send", "answer", "complete", "reject"}
  PROVE  At(r, pc) \in Job /\ At(r, pc).pc = pc /\ At(r, pc).req = r
BY DEF Job, At

LEMMA EndingIsJob ==
  ASSUME NEW r \in Requests, NEW pc \in {"succeed", "fail", "refund"}, NEW b \in BOOLEAN
  PROVE  /\ Ending(r, pc, b) \in Job
         /\ Ending(r, pc, b).pc = pc /\ Ending(r, pc, b).req = r /\ Ending(r, pc, b).inTry = b
BY DEF Job, Ending

\* The lesser of the debt and the amount is a natural number, no larger than either.
LEMMA TakenIsLess ==
  ASSUME NEW amount \in Nat, debt \in Nat
  PROVE  Taken(amount) \in Nat /\ Taken(amount) <= amount
<1>1. \E x \in {debt, amount} : \A y \in {debt, amount} : x <= y
  <2>1. CASE debt <= amount
    BY <2>1
  <2>2. CASE amount <= debt
    BY <2>2
  <2> QED
    BY <2>1, <2>2
<1>2. Taken(amount) \in {debt, amount} /\ \A y \in {debt, amount} : Taken(amount) <= y
  BY <1>1 DEF Taken, Min
<1> QED
  BY <1>2

LEMMA InitIInv == Init => IInv
<1> SUFFICES ASSUME Init PROVE IInv
  OBVIOUS
<1> USE ConfigOK
<1>1. TypeOK
  BY DEF Init, TypeOK, Row, Job, Statuses, Postings
<1>2. SentIsFunded
  BY DEF Init, SentIsFunded
<1>3. OneCarrier /\ EarlyIsNew /\ NotYetDebited /\ NotYetSent /\ DebitKnown
  BY DEF Init, Idle, OneCarrier, EarlyIsNew, NotYetDebited, NotYetSent, DebitKnown,
         Carries, Carrying, Unsent, Undebited, Early
<1>4. NewIsUntouched /\ ReasonsStand /\ SuccessIsPaid /\ NothingForgotten
  BY DEF Init, Idle, NewIsUntouched, ReasonsStand, SuccessIsPaid, NothingForgotten,
         Debited, Refunded
<1> QED
  BY <1>1, <1>2, <1>3, <1>4 DEF IInv

-------------------------------------------------------------------------------
\* A handler that goes on without touching a row or a transfer, and posts neither a
\* withdrawal nor a refund. What its next step needs must hold already.
Ready(w, j) ==
  /\ j.pc # "idle" /\ row[j.req].status = "NONE" => j.pc \in Early
  /\ j.pc \in Early => row[j.req].status = "NONE"
  /\ j.pc \in Carrying =>
       \/ Carries(w, j.req)
       \/ row[j.req].status = "NONE" /\ \A v \in Workers : ~Carries(v, j.req)
  /\ j.pc \in Undebited => ~Debited(j.req)
  /\ j.pc # "abandon"
  /\ j.pc \in Unsent => transfer[j.req] = "none"
  /\ j.pc \in {"initiate", "send", "answer", "fail", "guard"} => Debited(j.req)
  /\ j.pc = "pay" => <<"settlement", j.req>> \in posted'
  /\ j.pc \in {"fail", "guard"} =>
       \/ j.req \in unsure'
       \/ transfer[j.req] \in {"refused", "returned"}
       \/ transfer[j.req] = "none" /\ \A v \in Workers \ {w} : ~Carries(v, j.req)
  /\ j.pc # "refund"
  /\ j.pc = "succeed" => transfer[j.req] \in {"paid", "returned"}
  /\ job[w].pc \in {"refund", "debit", "abandon"} => crashes' # 0

LEMMA GoOn ==
  ASSUME IInv, NEW w \in Workers, NEW j \in Job, Become(w, j), Ready(w, j),
         UNCHANGED <<row, transfer>>, unsure \subseteq unsure',
         \A r \in Requests : /\ Debited(r)' = Debited(r) /\ Refunded(r)' = Refunded(r)
                             /\ <<"settlement", r>> \in posted => <<"settlement", r>> \in posted',
         crashes' = 0 => crashes = 0,
         TypeOK', SentIsFunded'
  PROVE  IInv'
<1>1. /\ job \in [Workers -> Job]
      /\ job'[w] = j /\ \A v \in Workers : v # w => job'[v] = job[v]
      /\ row' = row /\ transfer' = transfer
  BY DEF IInv, TypeOK, Become
<1>2. \A v \in Workers : job[v] \in Job /\ (job[v].pc # "idle" => job[v].req \in Requests)
  BY <1>1, JobShape
<1>3. j.pc # "idle" => j.req \in Requests
  BY JobShape
<1>4. Carrying \subseteq {"settle", "pay", "row", "debit", "abandon", "initiate", "send", "answer"}
  BY DEF Carrying, Unsent, Undebited, Early
<1>5. \A v \in Workers : v # w => \A r \in Requests : Carries(v, r)' = Carries(v, r)
  BY <1>1 DEF Carries
<1>6. \A r \in Requests : Carries(w, r)' =>
        Carries(w, r) \/ (row[r].status = "NONE" /\ \A v \in Workers : ~Carries(v, r))
  BY <1>1 DEF Carries, Ready
<1>7. OneCarrier'
  BY <1>5, <1>6 DEF IInv, OneCarrier
<1>8. NewIsUntouched'
  BY <1>1, <1>2, <1>3 DEF IInv, NewIsUntouched, Ready
<1>9. EarlyIsNew' /\ NotYetDebited' /\ NotYetSent' /\ DebitKnown'
  <2>1. ASSUME NEW v \in Workers, v # w
        PROVE  /\ job'[v].pc \in Early => row'[job'[v].req].status = "NONE"
               /\ job'[v].pc \in Undebited => ~Debited(job[v].req)'
               /\ job'[v].pc = "abandon" /\ crashes' = 0 => ~Debited(job[v].req)'
               /\ job'[v].pc = "refund" /\ job'[v].inTry => Debited(job[v].req)'
               /\ job'[v].pc \in Unsent => transfer'[job'[v].req] = "none"
               /\ job'[v].pc \in {"initiate", "send", "answer", "fail", "guard"} => Debited(job[v].req)'
               /\ job'[v].pc = "pay" => <<"settlement", job'[v].req>> \in posted'
    BY <2>1, <1>1, <1>2 DEF IInv, EarlyIsNew, NotYetDebited, NotYetSent, DebitKnown,
         Unsent, Undebited, Early
  <2> QED
    BY <2>1, <1>1, <1>3 DEF Ready, EarlyIsNew, NotYetDebited, NotYetSent, DebitKnown,
         Debited, Unsent, Undebited, Early
<1>10. \A r \in Requests : row[r].status # "NONE" /\ Reason(r) => Reason(r)'
  BY <1>1, <1>5, <1>6 DEF Reason
<1>11. \A r \in Requests : row[r].status # "NONE" /\ Due(r) => Due(r)'
  BY <1>1, <1>10 DEF Due
<1>12. ReasonsStand'
  <2>1. ASSUME NEW v \in Workers, v # w
        PROVE  /\ job'[v].pc \in {"fail", "guard"} => Reason(job[v].req)'
               /\ job'[v].pc = "refund" => row'[job'[v].req].operator \/ Due(job[v].req)'
    <3>1. job[v].pc \in {"fail", "guard", "refund"} => row[job[v].req].status # "NONE"
      BY <1>2 DEF IInv, NewIsUntouched, Early
    <3> QED
      BY <2>1, <3>1, <1>1, <1>2, <1>10, <1>11 DEF IInv, ReasonsStand
  <2>2. j.pc \in {"fail", "guard"} => Reason(j.req)'
    <3>1. j.pc \in {"fail", "guard"} => ~Carries(w, j.req)'
      BY <1>1, <1>4 DEF Carries
    <3> QED
      BY <3>1, <1>1, <1>3, <1>5 DEF Reason, Ready
  <2>3. \A r \in Requests : Refunded(r)' => row'[r].operator \/ Due(r)'
    BY <1>1, <1>11 DEF IInv, ReasonsStand, NewIsUntouched
  <2> QED
    BY <2>1, <2>2, <2>3, <1>1 DEF ReasonsStand, Ready, Reason, Due, Debited, Carries
<1>13. SuccessIsPaid'
  BY <1>1 DEF IInv, SuccessIsPaid, Ready
<1>14. NothingForgotten'
  <2> SUFFICES ASSUME crashes' = 0, NEW r \in Requests
               PROVE  /\ row[r].status = "FAILED" =>
                           \/ Refunded(r)' \/ Refunding(r)'
                           \/ ~Debited(r)' /\ \A v \in Workers : ~Carries(v, r)'
                      /\ row[r].status \in {"PENDING", "COMPLETED"} =>
                           Debited(r)' \/ row[r].operator \/ Debiting(r)'
    BY <1>1 DEF NothingForgotten
  <2>1. job[w].pc \notin {"refund", "debit", "abandon"}
    BY DEF Ready
  <2>2. Refunding(r) => Refunding(r)'
    BY <2>1, <1>1 DEF Refunding
  <2>3. Debiting(r) => Debiting(r)'
    BY <2>1, <1>1 DEF Debiting
  <2>4. row[r].status # "NONE" /\ (\A v \in Workers : ~Carries(v, r))
          => \A v \in Workers : ~Carries(v, r)'
    BY <1>5, <1>6
  <2> QED
    BY <2>2, <2>3, <2>4 DEF IInv, NothingForgotten
<1> QED
  BY <1>7, <1>8, <1>9, <1>12, <1>13, <1>14 DEF IInv

-------------------------------------------------------------------------------
\* The steps that only read, or post nothing a request depends on.
LEMMA FreshIsReady ==
  ASSUME IInv, NEW w \in Workers, NEW r \in Requests, job[w] = Idle, Fresh(r),
         NEW owed \in Nat, NEW payable \in Nat,
         Become(w, [pc |-> FirstStep(owed), req |-> r, owed |-> owed, payable |-> payable]),
         UNCHANGED <<row, money, dues, bank, crashes>>
  PROVE  IInv'
<1> DEFINE j == [pc |-> FirstStep(owed), req |-> r, owed |-> owed, payable |-> payable]
<1>1. j \in Job /\ j.pc \in {"settle", "row"} /\ j.req = r
  BY DEF Job, FirstStep
<1>2. \A v \in Workers : job[v].pc # "idle" => job[v].req # r
  BY DEF Fresh, Idle
<1>3. Ready(w, j)
  <2> HIDE DEF j
  <2> QED
    BY <1>1, <1>2 DEF Ready, IInv, NewIsUntouched, Fresh, Carries, Early, Undebited, Unsent,
       Carrying, Idle
<1>4. TypeOK' /\ SentIsFunded'
  BY <1>1 DEF IInv, TypeOK, SentIsFunded, Become, money, dues, bank, Debited
<1> HIDE DEF j
<1> QED
  BY <1>1, <1>3, <1>4, GoOn DEF j, money, dues, bank, Debited, Refunded

LEMMA CreateKeeps ==
  ASSUME IInv, NEW w \in Workers, NEW r \in Requests, NEW amount \in Amounts,
         Create(w, r, amount)
  PROVE  IInv'
<1> USE ConfigOK
<1>1. debt \in Nat /\ amount \in Nat
  BY DEF IInv, TypeOK
<1>2. Taken(amount) \in Nat /\ amount - Taken(amount) \in Nat
  <2>1. Taken(amount) \in Nat /\ Taken(amount) <= amount
    BY <1>1, TakenIsLess
  <2> QED
    BY <2>1, <1>1
<1> QED
  BY <1>2, FreshIsReady DEF Create

LEMMA SettleFromWalletKeeps ==
  ASSUME IInv, NEW w \in Workers, NEW r \in Requests, NEW amount \in Amounts,
         SettleFromWallet(w, r, amount)
  PROVE  IInv'
<1> USE ConfigOK
<1>1. Taken(amount) \in Nat
  BY TakenIsLess DEF IInv, TypeOK
<1> QED
  BY <1>1, FreshIsReady DEF SettleFromWallet

\* A handler that stops, or whose next step needs nothing but a request.
LEMMA StopKeeps ==
  ASSUME IInv, NEW w \in Workers, Become(w, Idle), UNCHANGED <<row, money, dues, bank>>,
         \/ crashes' = crashes /\ job[w].pc \notin {"refund", "debit", "abandon"}
         \/ crashes' = crashes + 1 /\ crashes' \in 0..MaxCrashes
  PROVE  IInv'
<1>1. Idle \in Job /\ Idle.pc = "idle"
  BY DEF Job, Idle
<1>2. crashes \in Nat /\ (crashes' = 0 => crashes = 0 /\ crashes' = crashes)
  BY ConfigOK DEF IInv, TypeOK
<1>3. Ready(w, Idle)
  BY <1>1, <1>2 DEF Ready, Early, Undebited, Unsent, Carrying
<1>4. TypeOK' /\ SentIsFunded'
  BY <1>1 DEF IInv, TypeOK, SentIsFunded, Become, money, dues, bank, Debited
<1> QED
  BY <1>1, <1>2, <1>3, <1>4, GoOn DEF money, dues, bank, Debited, Refunded

LEMMA TurnKeeps ==
  ASSUME IInv, NEW w \in Workers, NEW j \in Job, Become(w, j), Ready(w, j),
         UNCHANGED <<row, money, dues, transfer>>,
         crashes' \in 0..MaxCrashes, crashes' = 0 => crashes = 0,
         unsure \subseteq unsure', unsure' \subseteq Requests,
         heard' \subseteq Requests \X Outcomes
  PROVE  IInv'
<1>1. TypeOK' /\ SentIsFunded'
  BY DEF IInv, TypeOK, SentIsFunded, Become, money, dues, bank, Debited
<1> QED
  BY <1>1, GoOn DEF money, dues, Debited, Refunded

\* initiate has caught an exception: the request was debited, and the caught exception
\* is the reason its fail goes on with.
LEMMA ThrowsKeeps ==
  ASSUME IInv, NEW w \in Workers,
         job[w].pc \in {"succeed", "fail", "guard", "refund"}, Throws(w)
  PROVE  LET r == job[w].req
             j == Ending(r, "fail", FALSE)
         IN  /\ r \in Requests /\ row[r].status # "NONE" /\ Debited(r)
             /\ Become(w, j) /\ j \in Job /\ j.pc = "fail" /\ j.req = r
             /\ r \in unsure' /\ unsure \subseteq unsure' /\ unsure' \subseteq Requests
             /\ crashes' \in 0..MaxCrashes /\ crashes' # 0
<1> DEFINE r == job[w].req
<1>1. r \in Requests
  BY JobShape DEF IInv, TypeOK
<1>2. row[r].status # "NONE"
  BY <1>1 DEF IInv, NewIsUntouched, Early
<1>3. Debited(r)
  BY <1>1 DEF Throws, IInv, DebitKnown, SuccessIsPaid, SentIsFunded
<1>4. Become(w, Ending(r, "fail", FALSE)) /\ unsure' = unsure \union {r}
  BY DEF Throws
<1>5. crashes' \in 0..MaxCrashes /\ crashes' # 0
  BY ConfigOK DEF Throws, Fault, IInv, TypeOK
<1>6. unsure' \subseteq Requests
  BY <1>1, <1>4 DEF IInv, TypeOK
<1> QED
  BY <1>1, <1>2, <1>3, <1>4, <1>5, <1>6, EndingIsJob

LEMMA CaughtKeeps ==
  ASSUME IInv, NEW w \in Workers, Caught(w)
  PROVE  IInv'
<1> DEFINE r == job[w].req
           j == Ending(r, "fail", FALSE)
<1>1. /\ r \in Requests /\ row[r].status # "NONE" /\ Debited(r)
      /\ Become(w, j) /\ j \in Job /\ j.pc = "fail" /\ j.req = r
      /\ r \in unsure' /\ unsure \subseteq unsure' /\ unsure' \subseteq Requests
      /\ crashes' \in 0..MaxCrashes /\ crashes' # 0
  BY ThrowsKeeps DEF Caught
<1> HIDE DEF j
<1>2. Ready(w, j)
  BY <1>1 DEF Ready, Early, Undebited, Unsent, Carrying
<1>3. UNCHANGED <<row, money, dues, transfer>> /\ heard' \subseteq Requests \X Outcomes
  BY DEF Caught, IInv, TypeOK
<1> QED
  BY <1>1, <1>2, <1>3, TurnKeeps

LEMMA SettleKeeps ==
  ASSUME IInv, NEW w \in Workers, Settle(w)
  PROVE  IInv'
<1> DEFINE j == job[w]
           k == [j EXCEPT !.pc = "pay"]
<1>1. /\ j \in [pc : {"settle", "pay", "row"}, req : Requests, owed : Nat, payable : Nat]
      /\ j.pc = "settle" /\ j.pc \in Early
  BY JobShape DEF IInv, TypeOK, Settle, Early
<1>2. CASE ~Covers(j.owed)
  BY <1>1, <1>2, StopKeeps DEF Settle, money
<1>3. CASE Covers(j.owed)
  <2>1. k \in Job /\ k.pc = "pay" /\ k.req = j.req
    BY <1>1 DEF Job
  <2>2. /\ balance' = balance - j.owed /\ posted' = posted \union {<<"settlement", j.req>>}
        /\ Become(w, k) /\ UNCHANGED <<row, dues, bank, crashes>>
    BY <1>3 DEF Settle
  <2>3. balance' \in Nat
    BY <2>2, <1>1, <1>3 DEF IInv, TypeOK, Covers
  <2>4. posted' \subseteq Postings \X Requests
    BY <2>2, <1>1 DEF IInv, TypeOK, Postings
  <2>5. TypeOK'
    BY <2>1, <2>2, <2>3, <2>4 DEF IInv, TypeOK, Become, dues, bank
  <2>6. \A r \in Requests : Debited(r)' = Debited(r) /\ Refunded(r)' = Refunded(r)
    BY <2>2 DEF Debited, Refunded
  <2>7. SentIsFunded'
    BY <2>2 DEF IInv, SentIsFunded, Debited, dues, bank
  <2>8. Ready(w, k)
    <3>1. Carries(w, j.req)
      BY <1>1 DEF Carries, Carrying, Unsent, Undebited, Early
    <3>2. row[j.req].status = "NONE" /\ ~Debited(j.req) /\ transfer[j.req] = "none"
      BY <1>1 DEF IInv, EarlyIsNew, NotYetDebited, NotYetSent, Undebited, Unsent, Early
    <3> HIDE DEF k
    <3> QED
      BY <1>1, <2>1, <2>2, <3>1, <3>2 DEF Ready, Early, Undebited, Unsent
  <2> QED
    BY <2>1, <2>2, <2>5, <2>6, <2>7, <2>8, GoOn DEF dues, bank
<1> QED
  BY <1>2, <1>3

LEMMA PayKeeps ==
  ASSUME IInv, NEW w \in Workers, Pay(w)
  PROVE  IInv'
<1> DEFINE j == job[w]
           k == IF j.payable = 0 THEN Idle ELSE [j EXCEPT !.pc = "row"]
<1>1. /\ j \in [pc : {"settle", "pay", "row"}, req : Requests, owed : Nat, payable : Nat]
      /\ j.pc = "pay" /\ j.pc \in Early
  BY JobShape DEF IInv, TypeOK, Pay, Early
<1>2. CASE ~(debt >= j.owed)
  BY <1>1, <1>2, StopKeeps DEF Pay, dues
<1>3. CASE debt >= j.owed
  <2>1. k \in Job /\ (k = Idle \/ (k.pc = "row" /\ k.req = j.req))
    BY <1>1 DEF Job
  <2>2. /\ debt' = debt - j.owed /\ paid' = paid \union {j.req}
        /\ Become(w, k) /\ UNCHANGED <<row, money, bank, crashes>>
    BY <1>3 DEF Pay
  <2>3. debt' \in Nat
    BY <2>2, <1>1, <1>3 DEF IInv, TypeOK
  <2>4. TypeOK'
    BY <1>1, <2>1, <2>2, <2>3 DEF IInv, TypeOK, Become, money, bank
  <2>5. SentIsFunded'
    BY <2>2, <1>1 DEF IInv, DebitKnown, SentIsFunded, Debited, money, bank
  <2>6. Ready(w, k)
    <3>1. Carries(w, j.req)
      BY <1>1 DEF Carries, Carrying, Unsent, Undebited, Early
    <3>2. row[j.req].status = "NONE" /\ ~Debited(j.req) /\ transfer[j.req] = "none"
      BY <1>1 DEF IInv, EarlyIsNew, NotYetDebited, NotYetSent, Undebited, Unsent, Early
    <3> HIDE DEF k
    <3> QED
      BY <1>1, <2>1, <3>1, <3>2 DEF Ready, Early, Undebited, Unsent, Carrying, Idle
  <2> HIDE DEF k
  <2> QED
    BY <2>1, <2>2, <2>4, <2>5, <2>6, GoOn DEF money, bank, Debited, Refunded
<1> QED
  BY <1>2, <1>3

LEMMA InitiateKeeps ==
  ASSUME IInv, NEW w \in Workers, Initiate(w)
  PROVE  IInv'
<1> DEFINE r == job[w].req
<1>1. job[w].pc = "initiate" /\ r \in Requests
  BY JobShape DEF IInv, TypeOK, Initiate
<1>2. CASE row[r].status # "PENDING"
  BY <1>1, <1>2, StopKeeps DEF Initiate
<1>3. CASE row[r].status = "PENDING"
  <2>1. PICK j \in {At(r, "send"), Ending(r, "fail", FALSE)} : Become(w, j)
    BY <1>3 DEF Initiate
  <2>2. /\ Carries(w, r) /\ \A v \in Workers \ {w} : ~Carries(v, r)
        /\ transfer[r] = "none" /\ Debited(r)
    BY <1>1 DEF IInv, OneCarrier, NotYetSent, DebitKnown, Carries, Carrying, Unsent
  <2>3. j \in Job /\ j.pc \in {"send", "fail"} /\ j.req = r
    <3>1. CASE j = At(r, "send")
      BY <1>1, <3>1 DEF At, Job
    <3>2. CASE j = Ending(r, "fail", FALSE)
      BY <1>1, <3>2 DEF Ending, Job
    <3> QED
      BY <2>1, <3>1, <3>2
  <2>4. Ready(w, j)
    BY <1>1, <1>3, <2>2, <2>3 DEF Ready, Early, Undebited, Unsent, Carrying
  <2>5. /\ UNCHANGED <<row, money, dues, bank, crashes>>
        /\ crashes \in 0..MaxCrashes /\ unsure \subseteq Requests /\ heard \subseteq Requests \X Outcomes
    BY DEF Initiate, IInv, TypeOK
  <2> QED
    BY <2>1, <2>3, <2>4, <2>5, TurnKeeps DEF bank
<1> QED
  BY <1>2, <1>3

\* What the bank reports is a reason, and it reports only what it was sent.
LEMMA ReportsAreReasons ==
  ASSUME IInv, NEW r \in Requests, NEW says \in Reports(r)
  PROVE  /\ On(says) = "succeed" => transfer[r] \in {"paid", "returned"}
         /\ On(says) = "fail" => transfer[r] \in {"refused", "returned"}
         /\ On(says) \in {"succeed", "fail"} /\ says \in Outcomes
         /\ Debited(r) /\ row[r].status # "NONE"
<1>1. /\ On(says) = "succeed" => transfer[r] \in {"paid", "returned"}
      /\ On(says) = "fail" => transfer[r] \in {"refused", "returned"}
      /\ On(says) \in {"succeed", "fail"} /\ says \in Outcomes
      /\ transfer[r] # "none"
  <2>1. transfer[r] \in {"none", "sent", "paid", "refused", "returned"}
    BY DEF IInv, TypeOK
  <2> QED
    BY <2>1 DEF Reports, On, Outcomes
<1> QED
  BY <1>1 DEF IInv, SentIsFunded, NewIsUntouched

LEMMA AnswerKeeps ==
  ASSUME IInv, NEW w \in Workers, Answer(w)
  PROVE  IInv'
<1> DEFINE r == job[w].req
<1>1. job[w].pc = "answer" /\ r \in Requests
  BY JobShape DEF IInv, TypeOK, Answer
<1>2. Debited(r) /\ row[r].status # "NONE"
  BY <1>1 DEF IInv, DebitKnown, NewIsUntouched
<1>3. /\ UNCHANGED <<row, money, dues, transfer, heard, crashes>>
      /\ crashes \in 0..MaxCrashes /\ heard \subseteq Requests \X Outcomes
      /\ unsure \subseteq Requests
  BY DEF Answer, IInv, TypeOK
<1>4. CASE \E says \in Reports(r) : Become(w, Ending(r, On(says), TRUE)) /\ UNCHANGED unsure
  <2>1. PICK says \in Reports(r) : Become(w, Ending(r, On(says), TRUE)) /\ UNCHANGED unsure
    BY <1>4
  <2> DEFINE j == Ending(r, On(says), TRUE)
  <2>2. j \in Job /\ j.pc = On(says) /\ j.req = r
    <3>1. On(says) \in {"succeed", "fail"}
      BY <1>1, <2>1, ReportsAreReasons
    <3> QED
      BY <1>1, <3>1 DEF Ending, Job
  <2> HIDE DEF j
  <2>3. Ready(w, j)
    BY <1>1, <1>2, <2>1, <2>2, ReportsAreReasons DEF Ready, Early, Undebited, Unsent, Carrying
  <2> QED
    BY <1>3, <2>1, <2>2, <2>3, TurnKeeps DEF j
<1>5. CASE Become(w, Idle) /\ UNCHANGED unsure
  BY <1>1, <1>3, <1>5, StopKeeps DEF bank
<1>6. CASE unsure' = unsure \union {r} /\ Become(w, Ending(r, "fail", FALSE))
  <2> DEFINE j == Ending(r, "fail", FALSE)
  <2>1. j \in Job /\ j.pc = "fail" /\ j.req = r
    BY <1>1, EndingIsJob
  <2> HIDE DEF j
  <2>2. Ready(w, j)
    BY <1>1, <1>2, <1>6, <2>1 DEF Ready, Early, Undebited, Unsent, Carrying
  <2>3. unsure' \subseteq Requests /\ unsure \subseteq unsure'
    BY <1>1, <1>3, <1>6
  <2> QED
    BY <1>3, <1>6, <2>1, <2>2, <2>3, TurnKeeps DEF j
<1> QED
  BY <1>4, <1>5, <1>6 DEF Answer

LEMMA NotifyKeeps ==
  ASSUME IInv, NEW w \in Workers, NEW r \in Requests, NEW says \in Outcomes,
         Notify(w, r, says)
  PROVE  IInv'
<1>1. /\ job[w] = Idle /\ says \in Reports(r)
      /\ heard' \subseteq Requests \X Outcomes /\ unsure \subseteq Requests
      /\ crashes \in 0..MaxCrashes
      /\ UNCHANGED <<row, money, dues, transfer, unsure, crashes>>
  BY DEF Notify, IInv, TypeOK
<1> DEFINE k == Ending(r, On(says), FALSE)
<1>2. k \in Job /\ k.pc = On(says) /\ k.req = r
  <2>1. On(says) \in {"succeed", "fail"}
    BY <1>1, ReportsAreReasons
  <2> QED
    BY <2>1 DEF Ending, Job
<1>3. PICK j \in {k, Idle} : Become(w, j)
  BY DEF Notify
<1> HIDE DEF k
<1>4. j \in Job
  BY <1>2, <1>3 DEF Job
<1>5. Ready(w, j)
  BY <1>1, <1>2, <1>3, ReportsAreReasons DEF Ready, Early, Undebited, Unsent, Carrying, Idle
<1> QED
  BY <1>1, <1>3, <1>4, <1>5, TurnKeeps

LEMMA FailReadKeeps ==
  ASSUME IInv, NEW w \in Workers, FailRead(w)
  PROVE  IInv'
<1> DEFINE r == job[w].req
           j == [pc |-> "guard", req |-> r, inTry |-> job[w].inTry, seen |-> row[r].status]
<1>1. job[w].pc = "fail" /\ r \in Requests /\ job[w].inTry \in BOOLEAN
  BY JobShape DEF IInv, TypeOK, FailRead
<1>2. CASE row[r].status \notin Failable
  BY <1>1, <1>2, StopKeeps DEF FailRead
<1>3. CASE row[r].status \in Failable
  <2>1. Become(w, j) /\ UNCHANGED <<row, money, dues, bank, crashes>>
    BY <1>3 DEF FailRead
  <2>2. j \in Job /\ j.pc = "guard" /\ j.req = r
    BY <1>1 DEF IInv, TypeOK, Row, Job
  <2>3. Debited(r) /\ Reason(r) /\ row[r].status # "NONE"
    BY <1>1, <1>3 DEF IInv, DebitKnown, ReasonsStand, Failable
  <2>4. Ready(w, j)
    <3> HIDE DEF j
    <3> QED
      BY <1>1, <2>1, <2>2, <2>3 DEF Ready, Reason, Early, Undebited, Unsent, Carrying, bank
  <2>5. TypeOK' /\ SentIsFunded'
    <3> HIDE DEF j
    <3> QED
      BY <2>1, <2>2 DEF IInv, TypeOK, SentIsFunded, Become, money, dues, bank, Debited
  <2> HIDE DEF j
  <2> QED
    BY <2>1, <2>2, <2>4, <2>5, GoOn DEF money, dues, bank, Debited, Refunded
<1> QED
  BY <1>2, <1>3

LEMMA AdminKeeps ==
  ASSUME IInv, NEW w \in Workers, NEW r \in Requests,
         AdminComplete(w, r) \/ AdminFail(w, r)
  PROVE  IInv'
<1>1. PICK pc \in {"complete", "reject"} : Become(w, At(r, pc))
  BY DEF AdminComplete, AdminFail
<1>2. /\ job[w] = Idle /\ row[r].status = "PENDING"
      /\ UNCHANGED <<row, money, dues, bank, crashes>>
  BY DEF AdminComplete, AdminFail
<1>3. Ready(w, At(r, pc))
  BY <1>2 DEF Ready, At, Early, Undebited, Unsent, Carrying, Idle
<1>4. /\ At(r, pc) \in Job
      /\ crashes \in 0..MaxCrashes /\ unsure \subseteq Requests /\ heard \subseteq Requests \X Outcomes
  BY AtIsJob DEF IInv, TypeOK
<1> QED
  BY <1>1, <1>2, <1>3, <1>4, TurnKeeps DEF bank

-------------------------------------------------------------------------------
\* The steps that write a request that exists: its status, and whether an operator did.
LEMMA RowWritten ==
  ASSUME IInv, NEW w \in Workers, NEW r \in Requests, NEW j \in Job,
         job[w].pc \notin {"idle", "refund", "debit"}, job[w].req = r,
         row[r].status # "NONE", row' \in [Requests -> Row],
         \A q \in Requests : q # r => row'[q] = row[q],
         row'[r].status \in {"COMPLETED", "FAILED"}, row[r].operator => row'[r].operator,
         Become(w, j), UNCHANGED <<money, dues, transfer, heard>>,
         unsure \subseteq unsure', unsure' \subseteq Requests,
         crashes' \in 0..MaxCrashes, crashes' = 0 => crashes = 0,
         \/ j = Idle
         \/ /\ j.pc = "refund" /\ j.req = r /\ row'[r].status = "FAILED"
            /\ row'[r].operator \/ (Debited(r) /\ Reason(r))
            /\ j.inTry => Debited(r)
         \/ j.pc = "fail" /\ j.req = r /\ Debited(r) /\ r \in unsure',
         row[r].status = "FAILED" \/ Refunded(r) =>
           row'[r].operator \/ row'[r].status = "FAILED",
         row'[r].status = "COMPLETED" =>
           row'[r].operator \/ (transfer[r] \in {"paid", "returned"} /\ row[r].status = "PENDING"),
         row'[r].status = "FAILED" =>
           \/ crashes' # 0 \/ j.pc = "refund"
           \/ ~Debited(r) /\ \A v \in Workers \ {w} : ~Carries(v, r),
         job[w].pc = "abandon" => row'[r].status = "FAILED"
  PROVE  IInv'
<1>1. /\ job \in [Workers -> Job]
      /\ job'[w] = j /\ \A v \in Workers : v # w => job'[v] = job[v]
      /\ transfer' = transfer /\ posted' = posted
  BY DEF IInv, TypeOK, Become, money
<1>2. \A v \in Workers : job[v].pc # "idle" => job[v].req \in Requests
  BY <1>1, JobShape
<1>3. \A q \in Requests : Debited(q)' = Debited(q) /\ Refunded(q)' = Refunded(q)
  BY <1>1 DEF Debited, Refunded
<1>4. j.pc \in {"idle", "refund", "fail"} /\ (j.pc # "idle" => j.req = r)
  BY DEF Idle
<1>5. \A v \in Workers, q \in Requests : Carries(v, q)' => v # w /\ Carries(v, q)
  BY <1>1, <1>4 DEF Carries, Carrying, Unsent, Undebited, Early
<1>6. \A q \in Requests : Reason(q) => Reason(q)'
  BY <1>1, <1>5 DEF Reason
<1>7. TypeOK' /\ SentIsFunded'
  BY <1>1, <1>3 DEF IInv, TypeOK, SentIsFunded, Become, money, dues, bank
<1>8. OneCarrier'
  BY <1>5 DEF IInv, OneCarrier
<1>9. NewIsUntouched'
  BY <1>1, <1>3, <1>4 DEF IInv, NewIsUntouched
<1>10. EarlyIsNew' /\ NotYetDebited' /\ NotYetSent' /\ DebitKnown'
  <2>1. ASSUME NEW v \in Workers, v # w
        PROVE  job[v].pc \in Early => job[v].req # r
    BY <2>1 DEF IInv, EarlyIsNew
  <2>2. EarlyIsNew'
    BY <2>1, <1>1, <1>2, <1>4 DEF IInv, EarlyIsNew, Early
  <2>3. NotYetDebited' /\ NotYetSent' /\ DebitKnown'
    <3>1. /\ j.pc \notin Unsent /\ j.pc \notin Undebited
          /\ j.pc = "fail" \/ (j.pc = "refund" /\ j.inTry) => Debited(r)
      BY <1>4 DEF Unsent, Undebited, Early, Idle
    <3>2. ASSUME NEW v \in Workers, v # w
          PROVE  /\ job'[v].pc \in Undebited => ~Debited(job[v].req)'
                 /\ job'[v].pc = "abandon" /\ crashes' = 0 => ~Debited(job[v].req)'
                 /\ job'[v].pc = "refund" /\ job'[v].inTry => Debited(job[v].req)'
                 /\ job'[v].pc \in Unsent => transfer'[job'[v].req] = "none"
                 /\ job'[v].pc \in {"initiate", "send", "answer", "fail", "guard"} => Debited(job[v].req)'
                 /\ job'[v].pc = "pay" => <<"settlement", job'[v].req>> \in posted'
      <4>1. job'[v] = job[v] /\ (job[v].pc \in Undebited \union Unsent => job[v].pc # "idle")
        BY <3>2, <1>1 DEF Undebited, Unsent, Early
      <4> QED
        BY <4>1, <1>1, <1>2, <1>3 DEF IInv, NotYetDebited, NotYetSent, DebitKnown
    <3> QED
      <4>1. /\ job'[w] = j /\ (j.pc # "idle" => j.req = r) /\ j.pc \in {"idle", "refund", "fail"}
            /\ j.pc = "fail" \/ (j.pc = "refund" /\ j.inTry) => Debited(r)'
        BY <3>1, <1>1, <1>3, <1>4
      <4>2. /\ job'[w].pc \notin Unsent /\ job'[w].pc \notin Undebited /\ job'[w].pc # "abandon"
            /\ job'[w].pc \in {"initiate", "send", "answer", "fail", "guard"} => Debited(job[w].req)'
            /\ job'[w].pc = "refund" /\ job'[w].inTry => Debited(job[w].req)'
            /\ job'[w].pc # "pay"
        BY <4>1, <3>1 DEF Debited
      <4> QED
        BY <3>2, <4>2 DEF NotYetDebited, NotYetSent, DebitKnown, Debited
  <2> QED
    BY <2>2, <2>3
<1>11. ReasonsStand'
  <2>1. \A q \in Requests : row[q].operator \/ Due(q) => row'[q].operator \/ Due(q)'
    BY <1>3, <1>6 DEF Due
  <2>2. ASSUME NEW v \in Workers, v # w
        PROVE  /\ job'[v].pc \in {"fail", "guard"} => Reason(job[v].req)'
               /\ job'[v].pc = "refund" => row'[job[v].req].operator \/ Due(job[v].req)'
    BY <2>1, <2>2, <1>1, <1>2, <1>6 DEF IInv, ReasonsStand
  <2>3. j.pc = "refund" => row'[r].operator \/ Due(r)'
    BY <1>3, <1>6 DEF Due, Idle
  <2>5. j.pc = "fail" => Reason(r)'
    BY DEF Reason, Idle
  <2>4. \A q \in Requests : Refunded(q)' => row'[q].operator \/ Due(q)'
    BY <2>1, <1>3 DEF IInv, ReasonsStand
  <2> QED
    BY <2>2, <2>3, <2>4, <2>5, <1>1, <1>4 DEF ReasonsStand, Reason, Due, Debited, Carries
<1>12. SuccessIsPaid'
  BY <1>1, <1>4 DEF IInv, SuccessIsPaid
<1>13. NothingForgotten'
  <2> SUFFICES ASSUME crashes' = 0, NEW q \in Requests
               PROVE  /\ row'[q].status = "FAILED" =>
                           \/ Refunded(q)' \/ Refunding(q)'
                           \/ ~Debited(q)' /\ \A v \in Workers : ~Carries(v, q)'
                      /\ row'[q].status \in {"PENDING", "COMPLETED"} =>
                           Debited(q)' \/ row'[q].operator \/ Debiting(q)'
    BY DEF NothingForgotten
  <2>1. Refunding(q) => Refunding(q)'
    BY <1>1 DEF Refunding
  <2>2. Debiting(q) /\ q # r => Debiting(q)'
    BY <1>1 DEF Debiting
  <2>3. CASE q # r
    BY <2>1, <2>2, <2>3, <1>1, <1>3, <1>5 DEF IInv, NothingForgotten
  <2>4. CASE q = r
    <3>1. row'[r].status = "FAILED" =>
            Refunding(r)' \/ (~Debited(r)' /\ \A v \in Workers : ~Carries(v, r)')
      BY <1>1, <1>3, <1>4, <1>5 DEF Refunding
    <3>2. row'[r].status = "COMPLETED" /\ ~row'[r].operator => Debited(r)'
      BY <1>1, <1>3 DEF IInv, SentIsFunded
    <3> QED
      BY <2>4, <3>1, <3>2
  <2> QED
    BY <2>3, <2>4
<1> QED
  BY <1>7, <1>8, <1>9, <1>10, <1>11, <1>12, <1>13 DEF IInv

LEMMA AbandonKeeps ==
  ASSUME IInv, NEW w \in Workers, Abandon(w)
  PROVE  IInv'
<1> DEFINE r == job[w].req
<1>1. job[w].pc = "abandon" /\ r \in Requests
  BY JobShape DEF IInv, TypeOK, Abandon
<1>2. /\ row[r].status # "NONE" /\ (crashes = 0 => ~Debited(r))
      /\ \A v \in Workers \ {w} : ~Carries(v, r)
  BY <1>1 DEF IInv, NewIsUntouched, NotYetDebited, OneCarrier, Carries, Carrying, Unsent,
       Undebited, Early
<1>3. /\ row' \in [Requests -> Row] /\ row'[r].status = "FAILED"
      /\ row'[r].operator = row[r].operator /\ \A q \in Requests : q # r => row'[q] = row[q]
  BY <1>1 DEF Abandon, IInv, TypeOK, Row, Statuses
<1>4. /\ Become(w, Idle) /\ UNCHANGED <<money, dues, bank, crashes>> /\ Idle \in Job
      /\ unsure \subseteq Requests /\ crashes \in 0..MaxCrashes
  BY DEF Abandon, Job, IInv, TypeOK
<1> QED
  BY <1>1, <1>2, <1>3, <1>4, RowWritten DEF bank

LEMMA SucceedKeeps ==
  ASSUME IInv, NEW w \in Workers, Succeed(w)
  PROVE  IInv'
<1> DEFINE r == job[w].req
           k == Ending(r, "fail", FALSE)
<1>1. /\ job[w].pc = "succeed" /\ r \in Requests
      /\ UNCHANGED <<money, dues, transfer, heard>>
      /\ unsure \subseteq Requests /\ crashes \in 0..MaxCrashes
      /\ heard \subseteq Requests \X Outcomes
  BY JobShape DEF IInv, TypeOK, Succeed
<1>2. ASSUME Throws(w)
      PROVE  /\ Debited(r) /\ Become(w, k) /\ k \in Job /\ k.pc = "fail" /\ k.req = r
             /\ r \in unsure' /\ unsure \subseteq unsure' /\ unsure' \subseteq Requests
             /\ crashes' \in 0..MaxCrashes /\ crashes' # 0
  BY <1>1, <1>2, ThrowsKeeps
<1> HIDE DEF k
<1>3. CASE ~Still(r, "PENDING")
  <2>1. CASE Become(w, Idle) /\ UNCHANGED <<unsure, crashes>>
    BY <1>1, <1>3, <2>1, StopKeeps DEF Succeed, bank
  <2>2. CASE Throws(w)
    <3>1. row[r].status # "NONE" /\ UNCHANGED row
      BY <1>1, <1>3 DEF Succeed, IInv, NewIsUntouched, Early
    <3>2. Ready(w, k)
      BY <1>1, <1>2, <2>2, <3>1 DEF Ready, Early, Undebited, Unsent, Carrying
    <3> QED
      BY <1>1, <1>2, <2>2, <3>1, <3>2, TurnKeeps
  <2> QED
    BY <2>1, <2>2 DEF Succeed, Returns
<1>4. CASE Still(r, "PENDING")
  <2>1. /\ row' \in [Requests -> Row] /\ row'[r].status = "COMPLETED"
        /\ row'[r].operator = row[r].operator
        /\ \A q \in Requests : q # r => row'[q] = row[q]
    BY <1>1, <1>4 DEF Succeed, IInv, TypeOK, Row, Statuses
  <2>2. row[r].status = "PENDING" /\ transfer[r] \in {"paid", "returned"}
    BY <1>1, <1>4 DEF Still, IInv, SuccessIsPaid
  <2>3. Refunded(r) => row[r].operator
    BY <1>1, <2>2 DEF IInv, ReasonsStand, Due
  <2>4. CASE Become(w, Idle) /\ UNCHANGED <<unsure, crashes>>
    <3>1. Idle \in Job
      BY DEF Job
    <3> QED
      BY <1>1, <2>1, <2>2, <2>3, <2>4, <3>1, RowWritten
  <2>5. CASE Throws(w)
    BY <1>1, <1>2, <2>1, <2>2, <2>3, <2>5, RowWritten
  <2> QED
    BY <2>4, <2>5 DEF Succeed, Returns
<1> QED
  BY <1>3, <1>4

LEMMA FailWriteKeeps ==
  ASSUME IInv, NEW w \in Workers, FailWrite(w)
  PROVE  IInv'
<1> DEFINE r == job[w].req
<1>1. /\ job[w].pc = "guard" /\ r \in Requests /\ job[w].inTry \in BOOLEAN
      /\ unsure \subseteq Requests /\ crashes \in 0..MaxCrashes
  BY JobShape DEF IInv, TypeOK, FailWrite
<1> DEFINE k == Ending(r, "refund", job[w].inTry)
<1>2. CASE ~Still(r, job[w].seen)
  BY <1>1, <1>2, StopKeeps DEF FailWrite
<1>3. CASE Still(r, job[w].seen)
  <2>1. /\ row' = [row EXCEPT ![r].status = "FAILED"] /\ Become(w, k)
        /\ UNCHANGED <<money, dues, bank, crashes>>
    BY <1>3 DEF FailWrite
  <2>2. /\ row' \in [Requests -> Row] /\ row'[r].status = "FAILED"
        /\ row'[r].operator = row[r].operator
        /\ \A q \in Requests : q # r => row'[q] = row[q]
    BY <1>1, <2>1 DEF IInv, TypeOK, Row, Statuses
  <2>3. row[r].status # "NONE" /\ Debited(r) /\ Reason(r)
    BY <1>1 DEF IInv, NewIsUntouched, DebitKnown, ReasonsStand, Early
  <2>4. k \in Job /\ k.pc = "refund" /\ k.req = r
    BY <1>1, EndingIsJob
  <2> HIDE DEF k
  <2> QED
    BY <1>1, <2>1, <2>2, <2>3, <2>4, RowWritten DEF bank
<1> QED
  BY <1>2, <1>3

LEMMA CompleteKeeps ==
  ASSUME IInv, NEW w \in Workers, Complete(w)
  PROVE  IInv'
<1> DEFINE r == job[w].req
<1>1. job[w].pc = "complete" /\ r \in Requests
  BY JobShape DEF IInv, TypeOK, Complete
<1>2. row[r].status # "NONE"
  BY <1>1 DEF IInv, NewIsUntouched, Early
<1>3. /\ row' \in [Requests -> Row] /\ row'[r].status = "COMPLETED" /\ row'[r].operator
      /\ \A q \in Requests : q # r => row'[q] = row[q]
  BY <1>1 DEF Complete, Close, IInv, TypeOK, Row, Statuses
<1>4. /\ Become(w, Idle) /\ UNCHANGED <<money, dues, bank, crashes>> /\ Idle \in Job
      /\ unsure \subseteq Requests /\ crashes \in 0..MaxCrashes
  BY DEF Complete, Job, IInv, TypeOK
<1> QED
  BY <1>1, <1>2, <1>3, <1>4, RowWritten DEF bank

LEMMA RejectKeeps ==
  ASSUME IInv, NEW w \in Workers, Reject(w)
  PROVE  IInv'
<1> DEFINE r == job[w].req
<1>1. job[w].pc = "reject" /\ r \in Requests
  BY JobShape DEF IInv, TypeOK, Reject
<1>2. row[r].status # "NONE"
  BY <1>1 DEF IInv, NewIsUntouched, Early
<1>3. /\ row' \in [Requests -> Row] /\ row'[r].status = "FAILED" /\ row'[r].operator
      /\ \A q \in Requests : q # r => row'[q] = row[q]
  BY <1>1 DEF Reject, Close, IInv, TypeOK, Row, Statuses
<1> DEFINE k == Ending(r, "refund", FALSE)
<1>4. /\ Become(w, k) /\ UNCHANGED <<money, dues, bank, crashes>>
      /\ k \in Job /\ k.pc = "refund" /\ k.req = r /\ ~k.inTry
      /\ unsure \subseteq Requests /\ crashes \in 0..MaxCrashes
  BY <1>1, EndingIsJob DEF Reject, AfterReject, IInv, TypeOK
<1> HIDE DEF k
<1> QED
  BY <1>1, <1>2, <1>3, <1>4, RowWritten DEF bank

-------------------------------------------------------------------------------
\* The steps of a request's own handler that nobody else is concerned with: creation,
\* debit, the call of the provider.
LEMMA CarrierAlone ==
  ASSUME IInv, NEW w \in Workers, job[w].pc \in Carrying
  PROVE  /\ job[w].req \in Requests
         /\ \A v \in Workers \ {w} : ~Carries(v, job[w].req)
         /\ \A v \in Workers \ {w} : job[v].pc \in Carrying => job[v].req # job[w].req
<1>1. job[w].req \in Requests
  BY JobShape DEF IInv, TypeOK, Carrying, Unsent, Undebited, Early
<1> QED
  BY <1>1 DEF IInv, OneCarrier, Carries

LEMMA CreateRowKeeps ==
  ASSUME IInv, NEW w \in Workers, CreateRow(w)
  PROVE  IInv'
<1>r. PICK r \in Requests : r = job[w].req
  BY JobShape DEF IInv, TypeOK, CreateRow
<1> DEFINE j == At(r, "debit")
<1>1. /\ job[w].pc = "row" /\ r = job[w].req /\ job[w].payable \in Nat /\ j \in Job
      /\ j.pc = "debit" /\ j.req = r /\ job \in [Workers -> Job]
  BY <1>r, JobShape, AtIsJob DEF IInv, TypeOK, CreateRow, Early, At
<1>2. /\ row' = [row EXCEPT ![r] = [status |-> "PENDING", amount |-> job[w].payable,
                                    operator |-> FALSE]]
      /\ job'[w] = j /\ \A v \in Workers : v # w => job'[v] = job[v]
      /\ job' = [job EXCEPT ![w] = j]
      /\ UNCHANGED <<balance, posted, debt, paid, transfer, unsure, heard, crashes>>
  BY <1>1 DEF CreateRow, AfterRow, Become, money, dues, bank
<1>3. /\ row' \in [Requests -> Row] /\ row'[r].status = "PENDING" /\ ~row'[r].operator
      /\ \A q \in Requests : q # r => row'[q] = row[q]
  BY <1>1, <1>2 DEF IInv, TypeOK, Row, Statuses
<1>4. /\ row[r].status = "NONE" /\ ~Debited(r) /\ ~Refunded(r) /\ transfer[r] = "none"
      /\ \A v \in Workers : job[v].pc # "idle" /\ job[v].req = r => job[v].pc \in Early
  BY <1>1 DEF IInv, EarlyIsNew, NewIsUntouched, Early
<1>5. \A v \in Workers : v # w /\ job[v].pc # "idle" => job[v].req # r
  BY <1>1, <1>4, CarrierAlone DEF Carrying, Unsent, Undebited, Early
<1>6. \A q \in Requests : Debited(q)' = Debited(q) /\ Refunded(q)' = Refunded(q)
  BY <1>2 DEF Debited, Refunded
<1>7. \A v \in Workers, q \in Requests : Carries(v, q)' = Carries(v, q)
  BY <1>1, <1>2 DEF Carries, Carrying, Unsent, Undebited, Early
<1>8. TypeOK' /\ SentIsFunded'
  BY <1>1, <1>2, <1>3, <1>6 DEF IInv, TypeOK, SentIsFunded
<1>9. OneCarrier' /\ NewIsUntouched'
  BY <1>1, <1>2, <1>3, <1>6, <1>7 DEF IInv, OneCarrier, NewIsUntouched
<1>10. EarlyIsNew' /\ NotYetDebited' /\ NotYetSent' /\ DebitKnown'
  <2>1. ASSUME NEW v \in Workers, v # w, job[v].pc # "idle"
        PROVE  job'[v] = job[v] /\ job[v].req \in Requests \ {r}
    BY <2>1, <1>1, <1>2, <1>5, JobShape
  <2>2. ASSUME NEW v \in Workers
        PROVE  /\ job'[v].pc \in Early => row'[job'[v].req].status = "NONE"
               /\ job'[v].pc \in Undebited => ~Debited(job'[v].req)
               /\ job'[v].pc = "abandon" /\ crashes' = 0 => ~Debited(job'[v].req)
               /\ job'[v].pc = "refund" /\ job'[v].inTry => Debited(job'[v].req)
               /\ job'[v].pc \in Unsent => transfer[job'[v].req] = "none"
               /\ job'[v].pc \in {"initiate", "send", "answer", "fail", "guard"} => Debited(job'[v].req)
               /\ job'[v].pc = "pay" => <<"settlement", job'[v].req>> \in posted
    BY <2>1, <1>1, <1>2, <1>3, <1>4 DEF IInv, EarlyIsNew, NotYetDebited, NotYetSent, DebitKnown,
         Unsent, Undebited, Early
  <2> QED
    BY <2>2, <1>2 DEF EarlyIsNew, NotYetDebited, NotYetSent, DebitKnown, Debited
<1>11. \A q \in Requests : (Reason(q) => Reason(q)') /\ (q # r /\ Due(q) => Due(q)')
  BY <1>2, <1>3, <1>6, <1>7 DEF Reason, Due
<1>12. ReasonsStand'
  <2>1. ASSUME NEW v \in Workers, v # w
        PROVE  /\ job'[v].pc \in {"fail", "guard"} => Reason(job[v].req)'
               /\ job'[v].pc = "refund" => row'[job[v].req].operator \/ Due(job[v].req)'
    <3>1. job[v].pc # "idle" => job[v].req \in Requests /\ job[v].req # r
      BY <2>1, <1>1, <1>5, JobShape
    <3> QED
      BY <3>1, <2>1, <1>2, <1>3, <1>11 DEF IInv, ReasonsStand
  <2>2. \A q \in Requests : Refunded(q)' => row'[q].operator \/ Due(q)'
    BY <1>3, <1>4, <1>6, <1>11 DEF IInv, ReasonsStand
  <2> QED
    BY <2>1, <2>2, <1>1, <1>2 DEF ReasonsStand, Reason, Due, Debited, Carries
<1>13. SuccessIsPaid'
  BY <1>1, <1>2, <1>3 DEF IInv, SuccessIsPaid
<1>14. NothingForgotten'
  <2> SUFFICES ASSUME crashes' = 0, NEW q \in Requests
               PROVE  /\ row'[q].status = "FAILED" =>
                           \/ Refunded(q)' \/ Refunding(q)'
                           \/ ~Debited(q)' /\ \A v \in Workers : ~Carries(v, q)'
                      /\ row'[q].status \in {"PENDING", "COMPLETED"} =>
                           Debited(q)' \/ row'[q].operator \/ Debiting(q)'
    BY DEF NothingForgotten
  <2>1. Debiting(r)'
    BY <1>1, <1>2 DEF Debiting
  <2>2. (Refunding(q) => Refunding(q)') /\ (Debiting(q) => Debiting(q)')
    BY <1>1, <1>2 DEF Refunding, Debiting
  <2>3. CASE q = r
    BY <2>1, <2>3, <1>3
  <2>4. CASE q # r
    BY <2>2, <2>4, <1>2, <1>3, <1>6, <1>7 DEF IInv, NothingForgotten
  <2> QED
    BY <2>3, <2>4
<1> QED
  BY <1>8, <1>9, <1>10, <1>12, <1>13, <1>14 DEF IInv

LEMMA WithdrawKeeps ==
  ASSUME IInv, NEW w \in Workers, Withdraw(w)
  PROVE  IInv'
<1>r. PICK r \in Requests : r = job[w].req
  BY JobShape DEF IInv, TypeOK, Withdraw
<1>1. /\ job[w].pc = "debit" /\ r = job[w].req /\ row[r].amount \in Nat
      /\ job \in [Workers -> Job]
  BY <1>r DEF IInv, TypeOK, Withdraw, Row
<1>2. /\ row[r].status # "NONE" /\ ~Debited(r) /\ transfer[r] = "none"
      /\ \A v \in Workers \ {w} : job[v].pc \in Carrying => job[v].req # r
  BY <1>1, CarrierAlone DEF IInv, NewIsUntouched, NotYetDebited, NotYetSent, Carrying,
       Unsent, Undebited, Early
<1>3. PICK j \in {At(r, "initiate"), At(r, "abandon")} :
        /\ Become(w, j)
        /\ \/ /\ Covers(row[r].amount)
              /\ balance' = balance - row[r].amount
              /\ posted' = posted \union {<<"withdrawal", r>>}
              /\ (j = At(r, "initiate") /\ UNCHANGED crashes) \/ (j = At(r, "abandon") /\ Fault)
           \/ /\ j = At(r, "abandon") /\ UNCHANGED money
              /\ Fault \/ UNCHANGED crashes
  <2> USE <1>r
  <2>1. CASE /\ Covers(row[r].amount)
             /\ balance' = balance - row[r].amount
             /\ posted' = posted \union {<<"withdrawal", r>>}
             /\ Become(w, At(r, "initiate")) /\ UNCHANGED crashes
    BY <2>1
  <2>2. CASE /\ Covers(row[r].amount)
             /\ balance' = balance - row[r].amount
             /\ posted' = posted \union {<<"withdrawal", r>>}
             /\ Become(w, At(r, "abandon")) /\ Fault
    BY <2>2
  <2>3. CASE /\ Become(w, At(r, "abandon")) /\ UNCHANGED money
             /\ Fault \/ UNCHANGED crashes
    BY <2>3
  <2> QED
    BY <2>1, <2>2, <2>3 DEF Withdraw
<1>4. /\ j \in Job /\ j.req = r /\ j.pc \in {"initiate", "abandon"}
      /\ job' = [job EXCEPT ![w] = j]
      /\ job'[w] = j /\ \A v \in Workers : v # w => job'[v] = job[v]
      /\ UNCHANGED <<row, debt, paid, transfer, unsure, heard>>
  BY <1>1, <1>3, AtIsJob DEF Withdraw, Become, dues, bank
<1>5. /\ balance' \in Nat /\ posted' \subseteq Postings \X Requests
      /\ posted' = posted \union {<<"withdrawal", r>>} \/ posted' = posted
  BY <1>1, <1>3 DEF Covers, money, IInv, TypeOK, Postings
<1>c. /\ crashes' \in 0..MaxCrashes /\ (crashes' = 0 => crashes = 0)
      /\ j.pc = "abandon" /\ crashes' = 0 => posted' = posted
      /\ j.pc = "initiate" => posted' = posted \union {<<"withdrawal", r>>}
  <2>1. At(r, "initiate").pc = "initiate" /\ At(r, "abandon").pc = "abandon"
    BY DEF At
  <2>2. crashes \in 0..MaxCrashes /\ (Fault => crashes' \in 0..MaxCrashes /\ crashes' # 0)
    BY ConfigOK DEF Fault, IInv, TypeOK
  <2> QED
    BY <1>3, <2>1, <2>2 DEF money
<1>6. \A q \in Requests :
        /\ Refunded(q)' = Refunded(q) /\ (q # r => Debited(q)' = Debited(q))
        /\ Debited(q) => Debited(q)'
        /\ <<"settlement", q>> \in posted => <<"settlement", q>> \in posted'
  BY <1>5 DEF Debited, Refunded
<1>7. /\ j.pc = "initiate" => Debited(r)'
      /\ j.pc = "abandon" /\ crashes' = 0 => ~Debited(r)'
  BY <1>2, <1>c DEF Debited
<1>8. \A v \in Workers, q \in Requests : Carries(v, q)' = Carries(v, q)
  BY <1>1, <1>4 DEF Carries, Carrying, Unsent, Undebited, Early
<1>9. TypeOK'
  BY <1>4, <1>5, <1>c DEF IInv, TypeOK
<1>10. SentIsFunded'
  BY <1>4, <1>6 DEF IInv, SentIsFunded
<1>11. OneCarrier'
  BY <1>8 DEF IInv, OneCarrier
<1>12. NewIsUntouched'
  BY <1>2, <1>4, <1>6 DEF IInv, NewIsUntouched
<1>13. EarlyIsNew' /\ NotYetDebited' /\ NotYetSent' /\ DebitKnown'
  <2>1. ASSUME NEW v \in Workers, v # w
        PROVE  /\ job'[v].pc \in Early => row'[job'[v].req].status = "NONE"
               /\ job'[v].pc \in Undebited => ~Debited(job[v].req)'
               /\ job'[v].pc = "abandon" /\ crashes' = 0 => ~Debited(job[v].req)'
               /\ job'[v].pc = "refund" /\ job'[v].inTry => Debited(job[v].req)'
               /\ job'[v].pc \in Unsent => transfer'[job'[v].req] = "none"
               /\ job'[v].pc \in {"initiate", "send", "answer", "fail", "guard"} => Debited(job[v].req)'
               /\ job'[v].pc = "pay" => <<"settlement", job'[v].req>> \in posted'
    <3>1. job'[v] = job[v] /\ (job[v].pc # "idle" => job[v].req \in Requests)
      BY <2>1, <1>1, <1>4, JobShape
    <3>2. job[v].pc \in Undebited \union {"abandon"} => job[v].req # r /\ job[v].pc # "idle"
      BY <2>1, <1>2 DEF Carrying, Unsent, Undebited, Early
    <3> QED
      BY <3>1, <3>2, <1>4, <1>6, <1>c DEF IInv, EarlyIsNew, NotYetDebited, NotYetSent, DebitKnown,
           Unsent, Undebited, Early
  <2>2. /\ j.pc \notin Undebited /\ j.pc \notin Early /\ transfer'[r] = "none"
    BY <1>2, <1>4 DEF Undebited, Early
  <2> QED
    BY <2>1, <2>2, <1>4, <1>7 DEF EarlyIsNew, NotYetDebited, NotYetSent, DebitKnown, Debited
<1>14. \A q \in Requests : (Reason(q) => Reason(q)') /\ (Due(q) => Due(q)')
  BY <1>4, <1>6, <1>8 DEF Reason, Due
<1>15. ReasonsStand'
  <2>1. ASSUME NEW v \in Workers, v # w
        PROVE  /\ job'[v].pc \in {"fail", "guard"} => Reason(job[v].req)'
               /\ job'[v].pc = "refund" => row'[job[v].req].operator \/ Due(job[v].req)'
    <3>1. job'[v] = job[v] /\ (job[v].pc # "idle" => job[v].req \in Requests)
      BY <2>1, <1>1, <1>4, JobShape
    <3> QED
      BY <3>1, <1>4, <1>14 DEF IInv, ReasonsStand
  <2>2. \A q \in Requests : Refunded(q)' => row'[q].operator \/ Due(q)'
    BY <1>4, <1>6, <1>14 DEF IInv, ReasonsStand
  <2> QED
    BY <2>1, <2>2, <1>4 DEF ReasonsStand, Reason, Due, Debited, Carries
<1>16. SuccessIsPaid'
  BY <1>4 DEF IInv, SuccessIsPaid
<1>17. NothingForgotten'
  <2> SUFFICES ASSUME crashes' = 0, NEW q \in Requests
               PROVE  /\ row'[q].status = "FAILED" =>
                           \/ Refunded(q)' \/ Refunding(q)'
                           \/ ~Debited(q)' /\ \A v \in Workers : ~Carries(v, q)'
                      /\ row'[q].status \in {"PENDING", "COMPLETED"} =>
                           Debited(q)' \/ row'[q].operator \/ Debiting(q)'
    BY DEF NothingForgotten
  <2>1. Refunding(q) => Refunding(q)'
    BY <1>1, <1>4 DEF Refunding
  <2>2. q # r /\ Debiting(q) => Debiting(q)'
    BY <1>1, <1>4 DEF Debiting
  <2>3. Debited(r)' \/ Debiting(r)'
    BY <1>4, <1>7 DEF Debiting
  <2>4. Carries(w, r)
    BY <1>1 DEF Carries, Carrying, Unsent, Undebited
  <2>5. CASE q = r
    BY <2>1, <2>3, <2>4, <2>5, <1>4, <1>6, <1>c DEF IInv, NothingForgotten
  <2>6. CASE q # r
    BY <2>1, <2>2, <2>6, <1>4, <1>6, <1>8, <1>c DEF IInv, NothingForgotten
  <2> QED
    BY <2>5, <2>6
<1> QED
  BY <1>9, <1>10, <1>11, <1>12, <1>13, <1>15, <1>16, <1>17 DEF IInv

\* The bank takes a transfer, or decides on one: whoever gave a reason keeps it.
LEMMA TransferMoves ==
  ASSUME IInv, NEW r \in Requests,
         transfer' \in [Requests -> {"none", "sent", "paid", "refused", "returned"}],
         \A q \in Requests : q # r => transfer'[q] = transfer[q],
         UNCHANGED <<row, money, dues, unsure, heard, crashes>>,
         row[r].status # "NONE", Debited(r),
         Reason(r) => r \in unsure \/ transfer'[r] \in {"refused", "returned"},
         transfer[r] \in {"paid", "returned"} => transfer'[r] \in {"paid", "returned"},
         \/ job' = job /\ \A v \in Workers : job[v].pc \in Unsent => job[v].req # r
         \/ \E w \in Workers : /\ Carries(w, r) /\ Become(w, At(r, "answer"))
                               /\ job[w].pc = "send"
  PROVE  IInv'
<1>1. /\ row' = row /\ unsure' = unsure /\ posted' = posted /\ crashes' = crashes /\ paid' = paid
      /\ job \in [Workers -> Job]
  BY DEF IInv, TypeOK, money, dues
<1>2. \A q \in Requests : Debited(q)' = Debited(q) /\ Refunded(q)' = Refunded(q)
  BY <1>1 DEF Debited, Refunded
<1>3. ASSUME NEW v \in Workers
      PROVE  \/ job'[v] = job[v] /\ (job[v].pc \in Unsent => job[v].req # r)
             \/ job[v].pc = "send" /\ job[v].req = r /\ job'[v] = At(r, "answer")
  <2>1. CASE job' = job /\ \A u \in Workers : job[u].pc \in Unsent => job[u].req # r
    BY <2>1
  <2>2. CASE \E w \in Workers : Carries(w, r) /\ Become(w, At(r, "answer")) /\ job[w].pc = "send"
    <3>1. PICK w \in Workers : Carries(w, r) /\ Become(w, At(r, "answer")) /\ job[w].pc = "send"
      BY <2>2
    <3>2. v # w => job'[v] = job[v] /\ ~Carries(v, r)
      BY <3>1, <1>1 DEF Become, IInv, OneCarrier
    <3> QED
      BY <3>1, <3>2, <1>1 DEF Become, Carries, Carrying
  <2> QED
    BY <2>1, <2>2
<1>4. \A v \in Workers, q \in Requests : Carries(v, q)' = Carries(v, q)
  BY <1>3 DEF Carries, At, Carrying, Unsent
<1>5. \A v \in Workers : job[v].pc # "idle" => job[v].req \in Requests
  BY <1>1, JobShape
<1>6. TypeOK'
  <2>1. job' \in [Workers -> Job]
    BY <1>1, AtIsJob DEF Become
  <2> QED
    BY <2>1 DEF IInv, TypeOK, money, dues
<1>7. SentIsFunded'
  BY <1>1, <1>2 DEF IInv, SentIsFunded
<1>8. OneCarrier' /\ NewIsUntouched'
  <2>1. OneCarrier'
    BY <1>4 DEF IInv, OneCarrier
  <2>2. ASSUME NEW q \in Requests, row[q].status = "NONE"
        PROVE  /\ ~Debited(q)' /\ ~Refunded(q)' /\ transfer'[q] = "none"
               /\ \A v \in Workers : job'[v].pc # "idle" /\ job'[v].req = q => job'[v].pc \in Early
    <3>1. \A v \in Workers : job[v].req = q => job'[v] = job[v]
      BY <2>2, <1>3
    <3>2. \A v \in Workers : job'[v].req = q => job'[v] = job[v]
      BY <2>2, <1>3 DEF At
    <3> QED
      BY <2>2, <3>2, <1>2 DEF IInv, NewIsUntouched
  <2> QED
    BY <2>1, <2>2, <1>1 DEF NewIsUntouched
<1>9. EarlyIsNew' /\ NotYetDebited' /\ NotYetSent' /\ DebitKnown'
  <2>1. ASSUME NEW v \in Workers
        PROVE  /\ job'[v].pc \in Early => row[job'[v].req].status = "NONE"
               /\ job'[v].pc \in Undebited => ~Debited(job'[v].req)
               /\ job'[v].pc = "abandon" /\ crashes' = 0 => ~Debited(job'[v].req)
               /\ job'[v].pc = "refund" /\ job'[v].inTry => Debited(job'[v].req)
               /\ job'[v].pc \in Unsent => transfer'[job'[v].req] = "none"
               /\ job'[v].pc \in {"initiate", "send", "answer", "fail", "guard"} => Debited(job'[v].req)
               /\ job'[v].pc = "pay" => <<"settlement", job'[v].req>> \in posted
    <3>1. CASE job'[v] = job[v] /\ (job[v].pc \in Unsent => job[v].req # r)
      BY <3>1, <1>5 DEF IInv, EarlyIsNew, NotYetDebited, NotYetSent, DebitKnown,
         Unsent, Undebited, Early
    <3>2. CASE job'[v] = At(r, "answer")
      BY <3>2 DEF At, Unsent, Undebited, Early
    <3> QED
      BY <3>1, <3>2, <1>3
  <2> QED
    BY <2>1, <1>1 DEF EarlyIsNew, NotYetDebited, NotYetSent, DebitKnown, Debited
<1>10. \A q \in Requests : (Reason(q) => Reason(q)') /\ (Due(q) => Due(q)')
  BY <1>1, <1>2, <1>4 DEF Reason, Due
<1>11. ReasonsStand'
  <2>1. ASSUME NEW v \in Workers
        PROVE  /\ job'[v].pc \in {"fail", "guard"} => job'[v] = job[v] /\ Reason(job[v].req)
               /\ job'[v].pc = "refund" =>
                    job'[v] = job[v] /\ (row'[job[v].req].operator \/ Due(job[v].req))
    BY <1>1, <1>3 DEF IInv, ReasonsStand, At
  <2>2. ASSUME NEW v \in Workers, NEW q \in Requests, job'[v].req = q, job[v].req = q
        PROVE  /\ job'[v].pc \in {"fail", "guard"} => Reason(q)'
               /\ job'[v].pc = "refund" => row'[q].operator \/ Due(q)'
    BY <2>1, <2>2, <1>10
  <2>3. \A q \in Requests : Refunded(q)' => row'[q].operator \/ Due(q)'
    BY <1>1, <1>2, <1>10 DEF IInv, ReasonsStand
  <2> QED
    BY <2>1, <2>2, <2>3, <1>5 DEF ReasonsStand, Reason, Due, Debited, Carries
<1>12. SuccessIsPaid'
  <2>1. \A v \in Workers : job'[v].pc = "succeed" => job'[v] = job[v] /\ job[v].req \in Requests
    BY <1>3, <1>5 DEF At
  <2> QED
    BY <2>1, <1>1 DEF IInv, SuccessIsPaid
<1>13. NothingForgotten'
  <2> SUFFICES ASSUME crashes' = 0, NEW q \in Requests
               PROVE  /\ row'[q].status = "FAILED" =>
                           \/ Refunded(q)' \/ Refunding(q)'
                           \/ ~Debited(q)' /\ \A v \in Workers : ~Carries(v, q)'
                      /\ row'[q].status \in {"PENDING", "COMPLETED"} =>
                           Debited(q)' \/ row'[q].operator \/ Debiting(q)'
    BY DEF NothingForgotten
  <2>1. (Refunding(q) => Refunding(q)') /\ (Debiting(q) => Debiting(q)')
    BY <1>3 DEF Refunding, Debiting
  <2> QED
    BY <2>1, <1>1, <1>2, <1>4 DEF IInv, NothingForgotten
<1> QED
  BY <1>6, <1>7, <1>8, <1>9, <1>11, <1>12, <1>13 DEF IInv

LEMMA SendKeeps ==
  ASSUME IInv, NEW w \in Workers, Send(w)
  PROVE  IInv'
<1>r. PICK r \in Requests : r = job[w].req
  BY JobShape DEF IInv, TypeOK, Send
<1>1. job[w].pc = "send" /\ Carries(w, r)
  BY <1>r DEF Send, Carries, Carrying, Unsent
<1>2. Debited(r) /\ row[r].status # "NONE" /\ transfer[r] = "none"
  BY <1>1, <1>r DEF IInv, DebitKnown, NewIsUntouched, NotYetSent, Unsent
<1>3. Reason(r) => r \in unsure
  BY <1>1, <1>2 DEF Reason
<1>4. /\ transfer' \in [Requests -> {"none", "sent", "paid", "refused", "returned"}]
      /\ \A q \in Requests : q # r => transfer'[q] = transfer[q]
  BY <1>r DEF Send, IInv, TypeOK
<1>5. Become(w, At(r, "answer")) /\ UNCHANGED <<row, money, dues, unsure, heard, crashes>>
  BY <1>r DEF Send
<1> QED
  BY <1>1, <1>2, <1>3, <1>4, <1>5, TransferMoves

LEMMA BankDecidesKeeps ==
  ASSUME IInv, NEW r \in Requests, BankDecides(r)
  PROVE  IInv'
<1>1. /\ transfer[r] \in {"sent", "paid"}
      /\ transfer'[r] \in {"paid", "refused", "returned"}
      /\ transfer[r] = "paid" => transfer'[r] = "returned"
      /\ transfer' \in [Requests -> {"none", "sent", "paid", "refused", "returned"}]
      /\ \A q \in Requests : q # r => transfer'[q] = transfer[q]
  BY DEF BankDecides, IInv, TypeOK
<1>2. Debited(r) /\ row[r].status # "NONE"
  BY <1>1 DEF IInv, SentIsFunded, NewIsUntouched
<1>3. Reason(r) => r \in unsure
  BY <1>1 DEF Reason
<1>4. \A v \in Workers : job[v].pc \in Unsent => job[v].req # r
  BY <1>1 DEF IInv, NotYetSent
<1>5. job' = job /\ UNCHANGED <<row, money, dues, unsure, heard, crashes>>
  BY DEF BankDecides
<1> QED
  BY <1>1, <1>2, <1>3, <1>4, <1>5, TransferMoves

\* A refund is posted once, for a request whose refund is due.
LEMMA RefundKeeps ==
  ASSUME IInv, NEW w \in Workers, Refund(w)
  PROVE  IInv'
<1>r. PICK r \in Requests : r = job[w].req
  BY JobShape DEF IInv, TypeOK, Refund
<1>1. /\ job[w].pc = "refund" /\ row[r].amount \in Nat /\ row[r].status # "NONE"
      /\ row[r].operator \/ Due(r)
      /\ job \in [Workers -> Job] /\ unsure \subseteq Requests /\ crashes \in 0..MaxCrashes
      /\ Idle \in Job /\ Idle.pc = "idle"
  BY <1>r DEF Refund, IInv, TypeOK, Row, ReasonsStand, NewIsUntouched, Early, Job, Idle
<1> DEFINE k == Ending(r, "fail", FALSE)
<1>j. PICK j \in Job :
        /\ Become(w, j)
        /\ \/ j = Idle /\ UNCHANGED <<unsure, crashes>>
           \/ /\ j.pc = "fail" /\ j.req = r /\ Debited(r) /\ r \in unsure'
              /\ unsure \subseteq unsure' /\ unsure' \subseteq Requests
              /\ crashes' \in 0..MaxCrashes /\ crashes' # 0
  <2>1. CASE Become(w, Idle) /\ UNCHANGED <<unsure, crashes>>
    BY <1>1, <2>1
  <2>2. CASE Throws(w)
    <3>1. /\ Debited(r) /\ Become(w, k) /\ k \in Job /\ k.pc = "fail" /\ k.req = r
          /\ r \in unsure' /\ unsure \subseteq unsure' /\ unsure' \subseteq Requests
          /\ crashes' \in 0..MaxCrashes /\ crashes' # 0
      BY <1>r, <1>1, <2>2, ThrowsKeeps
    <3> QED
      BY <3>1
  <2> QED
    BY <2>1, <2>2 DEF Refund, Returns
<1>u. /\ unsure \subseteq unsure' /\ unsure' \subseteq Requests
      /\ crashes' \in 0..MaxCrashes /\ (crashes' = 0 => crashes = 0)
      /\ j.pc \in {"idle", "fail"} /\ (j.pc = "fail" => j.req = r /\ Debited(r) /\ r \in unsure')
  BY <1>1, <1>j
<1>2. /\ balance' \in Nat /\ posted' = posted \union {<<"reversal", r>>}
      /\ job'[w] = j /\ \A v \in Workers : v # w => job'[v] = job[v]
      /\ job' \in [Workers -> Job]
      /\ UNCHANGED <<row, debt, paid, transfer, heard>>
  BY <1>r, <1>1, <1>j DEF Refund, Become, money, dues, IInv, TypeOK
<1>3. \A q \in Requests :
        /\ Debited(q)' = Debited(q) /\ (Refunded(q)' <=> Refunded(q) \/ q = r)
        /\ <<"settlement", q>> \in posted' <=> <<"settlement", q>> \in posted
  BY <1>2 DEF Debited, Refunded
<1>4. \A v \in Workers, q \in Requests : Carries(v, q)' = Carries(v, q)
  BY <1>1, <1>2, <1>u DEF Carries, Carrying, Unsent, Undebited, Early
<1>5. \A v \in Workers : job'[v].pc # "idle" =>
        \/ v # w /\ job'[v] = job[v] /\ job[v].req \in Requests
        \/ v = w /\ job'[v].pc = "fail" /\ job'[v].req = r
  BY <1>1, <1>2, <1>u, JobShape
<1>6. TypeOK' /\ SentIsFunded'
  <2>1. posted' \subseteq Postings \X Requests
    BY <1>2 DEF IInv, TypeOK, Postings
  <2> QED
    BY <2>1, <1>2, <1>3, <1>u DEF IInv, TypeOK, SentIsFunded
<1>7. OneCarrier'
  BY <1>4 DEF IInv, OneCarrier
<1>8. NewIsUntouched'
  BY <1>1, <1>2, <1>3, <1>5 DEF IInv, NewIsUntouched
<1>9. EarlyIsNew' /\ NotYetDebited' /\ NotYetSent' /\ DebitKnown'
  <2>1. ASSUME NEW v \in Workers
        PROVE  /\ job'[v].pc \in Early => row[job'[v].req].status = "NONE"
               /\ job'[v].pc \in Undebited => ~Debited(job[v].req)'
               /\ job'[v].pc = "abandon" /\ crashes' = 0 => ~Debited(job[v].req)'
               /\ job'[v].pc = "refund" /\ job'[v].inTry => Debited(job[v].req)'
               /\ job'[v].pc \in Unsent => transfer[job'[v].req] = "none"
               /\ job'[v].pc \in {"initiate", "send", "answer", "fail", "guard"} => Debited(job[v].req)'
               /\ job'[v].pc = "pay" => <<"settlement", job'[v].req>> \in posted'
    <3>1. CASE job'[v].pc = "idle"
      BY <3>1 DEF Early, Undebited, Unsent
    <3>2. CASE v # w /\ job'[v] = job[v] /\ job[v].req \in Requests
      <4>1. PICK q \in Requests : q = job[v].req /\ job'[v] = job[v]
        BY <3>2
      <4>2. Debited(q)' = Debited(q)
        BY <1>3
      <4>3. /\ job[v].pc \in Early => row[q].status = "NONE"
            /\ job[v].pc \in Undebited => ~Debited(q)
            /\ job[v].pc = "abandon" /\ crashes = 0 => ~Debited(q)
            /\ job[v].pc = "refund" /\ job[v].inTry => Debited(q)
            /\ job[v].pc \in Unsent => transfer[q] = "none"
            /\ job[v].pc \in {"initiate", "send", "answer", "fail", "guard"} => Debited(q)
            /\ job[v].pc = "pay" => <<"settlement", q>> \in posted
        BY <4>1 DEF IInv, EarlyIsNew, NotYetDebited, NotYetSent, DebitKnown
      <4> QED
        BY <4>1, <4>2, <4>3, <1>3, <1>u DEF Debited
    <3>3. CASE v = w /\ job'[v].pc = "fail" /\ job'[v].req = r
      <4>1. Debited(job[v].req)'
        BY <3>3, <1>3, <1>u, <1>2 DEF Debited
      <4>2. job'[v].pc \notin Early /\ job'[v].pc \notin Undebited /\ job'[v].pc \notin Unsent
        BY <3>3 DEF Early, Undebited, Unsent
      <4> QED
        BY <3>3, <4>1, <4>2
    <3> QED
      BY <3>1, <3>2, <3>3, <1>5
  <2> QED
    BY <2>1, <1>2 DEF EarlyIsNew, NotYetDebited, NotYetSent, DebitKnown, Debited
<1>10. \A q \in Requests : (Reason(q) => Reason(q)') /\ (Due(q) => Due(q)')
  BY <1>2, <1>3, <1>4, <1>u DEF Reason, Due
<1>11. ReasonsStand'
  <2>1. ASSUME NEW v \in Workers, NEW q \in Requests, job'[v].req = q, job'[v].pc # "idle"
        PROVE  /\ job'[v].pc \in {"fail", "guard"} => Reason(q)'
               /\ job'[v].pc = "refund" => row'[q].operator \/ Due(q)'
    <3>1. CASE v # w /\ job'[v] = job[v] /\ job[v].req \in Requests
      BY <2>1, <3>1, <1>2, <1>10 DEF IInv, ReasonsStand
    <3>2. CASE v = w /\ job'[v].pc = "fail" /\ job'[v].req = r
      BY <2>1, <3>2, <1>2, <1>u DEF Reason
    <3> QED
      BY <2>1, <3>1, <3>2, <1>5
  <2>2. \A q \in Requests : Refunded(q)' => row'[q].operator \/ Due(q)'
    BY <1>1, <1>2, <1>3, <1>10 DEF IInv, ReasonsStand
  <2> QED
    BY <2>1, <2>2, <1>5 DEF ReasonsStand, Reason, Due, Debited, Carries
<1>12. SuccessIsPaid'
  BY <1>2, <1>5 DEF IInv, SuccessIsPaid
<1>13. NothingForgotten'
  <2> SUFFICES ASSUME crashes' = 0, NEW q \in Requests
               PROVE  /\ row'[q].status = "FAILED" =>
                           \/ Refunded(q)' \/ Refunding(q)'
                           \/ ~Debited(q)' /\ \A v \in Workers : ~Carries(v, q)'
                      /\ row'[q].status \in {"PENDING", "COMPLETED"} =>
                           Debited(q)' \/ row'[q].operator \/ Debiting(q)'
    BY DEF NothingForgotten
  <2>1. q # r /\ Refunding(q) => Refunding(q)'
    BY <1>r, <1>2 DEF Refunding
  <2>2. Debiting(q) => Debiting(q)'
    BY <1>1, <1>2 DEF Debiting
  <2> QED
    BY <2>1, <2>2, <1>2, <1>3, <1>4, <1>u DEF IInv, NothingForgotten
<1> QED
  BY <1>6, <1>7, <1>8, <1>9, <1>11, <1>12, <1>13 DEF IInv

-------------------------------------------------------------------------------
LEMMA StepKeeps == IInv /\ [Next]_vars => IInv'
<1> SUFFICES ASSUME IInv, [Next]_vars PROVE IInv'
  OBVIOUS
<1>1. ASSUME NEW w \in Workers, NEW r \in Requests, NEW amount \in Amounts,
             Create(w, r, amount) \/ SettleFromWallet(w, r, amount)
      PROVE  IInv'
  BY <1>1, CreateKeeps, SettleFromWalletKeeps
<1>2. ASSUME NEW w \in Workers, NEW r \in Requests, NEW says \in Outcomes, Notify(w, r, says)
      PROVE  IInv'
  BY <1>2, NotifyKeeps
<1>3. ASSUME NEW w \in Workers, NEW r \in Requests, AdminComplete(w, r) \/ AdminFail(w, r)
      PROVE  IInv'
  BY <1>3, AdminKeeps
<1>4. ASSUME NEW w \in Workers, Step(w)
      PROVE  IInv'
  BY <1>4, SettleKeeps, PayKeeps, CreateRowKeeps, WithdrawKeeps, AbandonKeeps,
     InitiateKeeps, SendKeeps, AnswerKeeps, SucceedKeeps, FailReadKeeps, FailWriteKeeps,
     CaughtKeeps, RefundKeeps, CompleteKeeps, RejectKeeps DEF Step
<1>5. ASSUME NEW w \in Workers, Crash(w)
      PROVE  IInv'
  <2>1. crashes' = crashes + 1 /\ crashes' \in 0..MaxCrashes
    BY <1>5, ConfigOK DEF Crash, Fault, IInv, TypeOK
  <2> QED
    BY <1>5, <2>1, StopKeeps DEF Crash
<1>6. ASSUME NEW r \in Requests, BankDecides(r)
      PROVE  IInv'
  BY <1>6, BankDecidesKeeps
<1>7. CASE UNCHANGED vars
  BY <1>7 DEF vars, money, dues, bank, IInv, TypeOK, SentIsFunded, OneCarrier, NewIsUntouched,
     EarlyIsNew, NotYetDebited, NotYetSent, DebitKnown, ReasonsStand, SuccessIsPaid,
     NothingForgotten, Carries, Debited, Refunded, Reason, Due, Refunding, Debiting
<1> QED
  BY <1>1, <1>2, <1>3, <1>4, <1>5, <1>6, <1>7 DEF Next

\* Every request, wherever it stands and whatever the bank, an operator or a crash did to
\* it, satisfies the inductive invariant.
THEOREM PayoutInvariant == Spec => []IInv
<1>1. IInv /\ [Next]_vars => IInv'
  BY StepKeeps
<1> QED
  BY InitIInv, <1>1, PTL DEF Spec

\* Rows, balances and handlers have their types: above all, neither the wallet nor the
\* commission debt is ever driven below zero (withdrawal.service.ts).
THEOREM PayoutTypes == Spec => []TypeOK
<1>1. IInv => TypeOK
  BY DEF IInv
<1> QED
  BY <1>1, PayoutInvariant, PTL

\* The bank is asked only for money that left the wallet, and a partner is credited only
\* for commission that left it (withdrawal.service.ts, payout-fulfillment.service.ts).
THEOREM NothingSentUnfunded == Spec => []SentIsFunded
<1>1. IInv => SentIsFunded
  BY DEF IInv
<1> QED
  BY <1>1, PayoutInvariant, PTL

\* Without an operator a refund is for a request that was debited and failed for good,
\* and that the bank did not pay unless initiate caught an exception, of the provider's
\* call or of what it did with the answer, a SUCCESS included (initiate, succeed,
\* fail and processProviderResult of payout-fulfillment.service.ts).
THEOREM RefundsAreDue == Spec => []RefundIsDue
<1>1. IInv => RefundIsDue
  <2> SUFFICES ASSUME IInv, NEW r \in Requests, Refunded(r), ~row[r].operator
               PROVE  /\ Debited(r) /\ row[r].status = "FAILED"
                      /\ transfer[r] = "paid" => r \in unsure
    BY DEF RefundIsDue
  <2>1. Due(r)
    BY DEF IInv, ReasonsStand
  <2> QED
    BY <2>1 DEF Due, Reason
<1> QED
  BY <1>1, PayoutInvariant, PTL

\* The status of a request tells where its money is: COMPLETED means that the bank paid,
\* and with no handler dead or in flight FAILED means refunded, PENDING and COMPLETED
\* debited (the whole of payout-fulfillment.service.ts).
THEOREM StatusTellsMoney == Spec => []StatusIsMoney
<1>1. IInv => StatusIsMoney
  <2> SUFFICES ASSUME IInv, NEW r \in Requests
               PROVE  /\ row[r].status = "COMPLETED" /\ ~row[r].operator =>
                           transfer[r] \in {"paid", "returned"}
                      /\ Unharmed /\ row[r].status = "FAILED" /\ Debited(r) => Refunded(r)
                      /\ Unharmed /\ row[r].status \in {"PENDING", "COMPLETED"}
                           /\ ~row[r].operator => Debited(r) /\ ~Refunded(r)
    BY DEF StatusIsMoney
  <2>1. Unharmed => ~Refunding(r) /\ ~Debiting(r) /\ crashes = 0
    BY DEF Unharmed, Quiet, Refunding, Debiting, Idle
  <2>2. ~row[r].operator /\ Refunded(r) => row[r].status = "FAILED"
    BY DEF IInv, ReasonsStand, Due
  <2> QED
    BY <2>1, <2>2 DEF IInv, SuccessIsPaid, NothingForgotten
<1> QED
  BY <1>1, PayoutInvariant, PTL

-------------------------------------------------------------------------------
(* The notices of the bank. *)

\* A notice tells what the bank did, and what it did is not undone.
HeardIsTold == \A r \in Requests :
  /\ <<r, "SUCCESS">> \in heard => transfer[r] \in {"paid", "returned"}
  /\ <<r, "FAILED">> \in heard  => transfer[r] \in {"refused", "returned"}

\* What a failing handler read could be failed, and no request becomes PENDING again.
GuardKnows == \A w \in Workers : job[w].pc = "guard" =>
  /\ job[w].seen \in Failable
  /\ job[w].seen = "COMPLETED" => row[job[w].req].status # "PENDING"

\* While nobody died, a notice is heeded already or a handler is at it.
Succeeding(r) == \E w \in Workers : job[w].pc = "succeed" /\ job[w].req = r
Failing(r) == \E w \in Workers : job[w].pc \in {"fail", "guard", "refund"} /\ job[w].req = r

NoticesHeld == crashes = 0 => \A r \in Requests :
  /\ <<r, "SUCCESS">> \in heard =>
       row[r].status # "PENDING" \/ row[r].operator \/ Succeeding(r)
  /\ <<r, "FAILED">> \in heard /\ transfer[r] = "refused" =>
       row[r].operator \/ Refunded(r) \/ Failing(r)

\* A request that exists keeps existing: it does not become PENDING again, and what an
\* operator closed stays his.
LEMMA RowMoves ==
  ASSUME IInv, [Next]_vars, NEW r \in Requests, row[r].status # "NONE"
  PROVE  /\ row'[r].status # "NONE"
         /\ row'[r].status = "PENDING" => row[r].status = "PENDING"
         /\ row[r].operator => row'[r].operator
<1>1. row \in [Requests -> Row]
  BY DEF IInv, TypeOK
<1>2. ASSUME NEW w \in Workers, CreateRow(w)
      PROVE  row'[r] = row[r]
  <2>1. job[w].req # r
    BY <1>2 DEF CreateRow, IInv, EarlyIsNew, Early
  <2> QED
    BY <1>1, <1>2, <2>1 DEF CreateRow
<1>3. ASSUME NEW w \in Workers,
             Abandon(w) \/ Succeed(w) \/ FailWrite(w) \/ Complete(w) \/ Reject(w)
      PROVE  row'[r] = row[r] \/ /\ row'[r].status \in {"COMPLETED", "FAILED"}
                                 /\ row[r].operator => row'[r].operator
  BY <1>1, <1>3 DEF Abandon, Succeed, FailWrite, Complete, Reject, Close, Row
<1>4. \/ row' = row
      \/ \E w \in Workers : CreateRow(w)
      \/ \E w \in Workers :
           Abandon(w) \/ Succeed(w) \/ FailWrite(w) \/ Complete(w) \/ Reject(w)
  BY DEF Next, Step, Create, SettleFromWallet, Settle, Pay, Withdraw, Initiate, Send, Answer,
     Notify, FailRead, Refund, Caught, AdminComplete, AdminFail, BankDecides, Crash, vars
<1> QED
  BY <1>2, <1>3, <1>4

\* The bank goes on from what it did; refunds and crashes are not undone.
LEMMA BankMoves ==
  ASSUME IInv, [Next]_vars, NEW r \in Requests
  PROVE  /\ transfer[r] \in {"paid", "returned"} => transfer'[r] \in {"paid", "returned"}
         /\ transfer[r] \in {"refused", "returned"} => transfer'[r] = transfer[r]
         /\ Refunded(r) => Refunded(r)'
         /\ crashes' = 0 => crashes = 0
<1>1. transfer \in [Requests -> {"none", "sent", "paid", "refused", "returned"}]
      /\ crashes \in Nat
  BY ConfigOK DEF IInv, TypeOK
<1>2. ASSUME NEW w \in Workers, Send(w)
      PROVE  transfer[r] = "none" \/ transfer'[r] = transfer[r]
  <2>1. transfer[job[w].req] = "none"
    BY <1>2 DEF Send, IInv, NotYetSent, Unsent
  <2> QED
    BY <1>1, <1>2, <2>1 DEF Send
<1>3. ASSUME NEW q \in Requests, BankDecides(q)
      PROVE  \/ transfer[r] \in {"sent", "paid"} /\ (transfer[r] = "paid" => transfer'[r] = "returned")
             \/ transfer'[r] = transfer[r]
  BY <1>1, <1>3 DEF BankDecides
<1>r. ASSUME NEW w \in Workers, NEW q \in Requests,
             \/ \E a \in Amounts : Create(w, q, a) \/ SettleFromWallet(w, q, a)
             \/ \E says \in Outcomes : Notify(w, q, says)
             \/ AdminComplete(w, q) \/ AdminFail(w, q)
      PROVE  UNCHANGED <<transfer, posted, crashes>>
  BY <1>r DEF Create, SettleFromWallet, Notify, AdminComplete, AdminFail, money, bank
<1>4. transfer' = transfer \/ (\E w \in Workers : Send(w)) \/ (\E q \in Requests : BankDecides(q))
  <2>1. ASSUME NEW w \in Workers, Step(w) \/ Crash(w)
        PROVE  transfer' = transfer \/ Send(w)
    BY <2>1 DEF Step, Settle, Pay, CreateRow, Withdraw, Abandon, Initiate, Answer, Succeed,
       FailRead, FailWrite, Refund, Caught, Complete, Reject, Crash, bank
  <2> QED
    BY <1>r, <2>1 DEF Next, vars, bank
<1>p. \/ UNCHANGED <<posted, crashes>>
      \/ \E w \in Workers :
           Settle(w) \/ Withdraw(w) \/ Succeed(w) \/ Refund(w) \/ Caught(w) \/ Crash(w)
  <2>1. ASSUME NEW w \in Workers, Step(w)
        PROVE  \/ UNCHANGED <<posted, crashes>>
               \/ Settle(w) \/ Withdraw(w) \/ Succeed(w) \/ Refund(w) \/ Caught(w)
    BY <2>1 DEF Step, Pay, CreateRow, Abandon, Initiate, Send, Answer, FailRead, FailWrite,
       Complete, Reject, money
  <2>2. ASSUME NEW q \in Requests, BankDecides(q) PROVE UNCHANGED <<posted, crashes>>
    BY <2>2 DEF BankDecides, money
  <2> QED
    BY <1>r, <2>1, <2>2 DEF Next, vars, money
<1>5. posted \subseteq posted'
  <2>1. ASSUME NEW w \in Workers,
               Settle(w) \/ Withdraw(w) \/ Succeed(w) \/ Refund(w) \/ Caught(w) \/ Crash(w)
        PROVE  posted \subseteq posted'
    BY <2>1 DEF Settle, Withdraw, Succeed, Refund, Caught, Crash, money
  <2> QED
    BY <1>p, <2>1
<1>6. crashes' = crashes \/ crashes' = crashes + 1
  <2>1. ASSUME NEW w \in Workers,
               Settle(w) \/ Withdraw(w) \/ Succeed(w) \/ Refund(w) \/ Caught(w) \/ Crash(w)
        PROVE  crashes' = crashes \/ crashes' = crashes + 1
    BY <2>1 DEF Settle, Withdraw, Succeed, Refund, Caught, Crash, Returns, Throws, Fault
  <2> QED
    BY <1>p, <2>1
<1>7. Refunded(r) => Refunded(r)'
  BY <1>5 DEF Refunded
<1>8. crashes' = 0 => crashes = 0
  BY <1>1, <1>6
<1> QED
  BY <1>1, <1>2, <1>3, <1>4, <1>7, <1>8

\* How a handler comes to be at a guard, and how it leaves what it has begun.
LEMMA HandlerMoves ==
  ASSUME IInv, [Next]_vars, NEW v \in Workers
  PROVE  /\ job'[v].pc = "guard" => job'[v] = job[v] \/ FailRead(v)
         /\ crashes' = 0 /\ job[v].pc \in {"succeed", "fail", "guard", "refund"} =>
              job'[v] = job[v] \/ Succeed(v) \/ FailRead(v) \/ FailWrite(v) \/ Refund(v)
<1>1. job \in [Workers -> Job] /\ crashes \in Nat
  BY ConfigOK DEF IInv, TypeOK
<1> DEFINE Good == /\ job'[v].pc = "guard" => job'[v] = job[v] \/ FailRead(v)
                   /\ crashes' = 0 /\ job[v].pc \in {"succeed", "fail", "guard", "refund"} =>
                        job'[v] = job[v] \/ Succeed(v) \/ FailRead(v) \/ FailWrite(v) \/ Refund(v)
<1>2. CASE job'[v] = job[v]
  BY <1>2
<1>3. ASSUME NEW w \in Workers, NEW r \in Requests, NEW amount \in Amounts,
             Create(w, r, amount) \/ SettleFromWallet(w, r, amount)
      PROVE  Good
  BY <1>1, <1>3 DEF Create, SettleFromWallet, Become, FirstStep, Idle
<1>4. ASSUME NEW w \in Workers, NEW r \in Requests,
             \/ \E says \in Outcomes : Notify(w, r, says)
             \/ AdminComplete(w, r) \/ AdminFail(w, r)
      PROVE  Good
  BY <1>1, <1>4 DEF Notify, AdminComplete, AdminFail, Become, At, Ending, On, Idle
<1>5. ASSUME NEW w \in Workers, Settle(w) \/ Pay(w)
      PROVE  Good
  <2>1. job[w].pc \in Early /\ job[w] \in Job
    BY <1>1, <1>5 DEF Settle, Pay, Early
  <2>2. job'[v] = job[v] \/ (v = w /\ job'[v].pc \in {"pay", "row", "idle"})
    BY <1>1, <1>5, <2>1, JobShape DEF Settle, Pay, Become, Idle
  <2> QED
    BY <2>1, <2>2 DEF Early
<1>6. ASSUME NEW w \in Workers, CreateRow(w) \/ Withdraw(w) \/ Abandon(w) \/ Initiate(w)
                                  \/ Send(w) \/ Answer(w) \/ Complete(w) \/ Reject(w)
      PROVE  Good
  BY <1>1, <1>6 DEF CreateRow, Withdraw, Abandon, Initiate, Send, Answer, Complete, Reject,
     Become, At, Ending, On, AfterRow, AfterReject, Idle
<1>7. ASSUME NEW w \in Workers,
             Succeed(w) \/ FailRead(w) \/ FailWrite(w) \/ Refund(w) \/ Caught(w)
      PROVE  Good
  BY <1>1, <1>7 DEF Succeed, FailRead, FailWrite, Refund, Caught, Returns, Throws, Fault,
     Become, Ending, Idle
<1>8. ASSUME NEW w \in Workers, Crash(w)
      PROVE  Good
  BY <1>1, <1>8 DEF Crash, Fault, Become, Idle
<1>9. ASSUME UNCHANGED vars \/ \E r \in Requests : BankDecides(r)
      PROVE  Good
  BY <1>2, <1>9 DEF vars, BankDecides
<1> HIDE DEF Good
<1>10. Good
  BY <1>3, <1>4, <1>5, <1>6, <1>7, <1>8, <1>9 DEF Next, Step
<1> QED
  BY <1>10 DEF Good

\* Only a delivery adds a notice.
LEMMA OnlyNotifyTells ==
  ASSUME [Next]_vars, NEW r \in Requests, NEW says \in Outcomes,
         <<r, says>> \in heard', <<r, says>> \notin heard
  PROVE  \E w \in Workers : Notify(w, r, says)
<1>1. \E w \in Workers, q \in Requests, s \in Outcomes : Notify(w, q, s)
  BY DEF Next, Step, Create, SettleFromWallet, Settle, Pay, CreateRow, Withdraw, Abandon,
     Initiate, Send, Answer, Succeed, FailRead, FailWrite, Refund, Caught, Throws,
     Returns, AdminComplete, AdminFail, Complete, Reject, Crash, BankDecides, vars, bank
<1>2. PICK w \in Workers, q \in Requests, s \in Outcomes : Notify(w, q, s)
  BY <1>1
<1>3. q = r /\ s = says
  BY <1>2 DEF Notify
<1> QED
  BY <1>2, <1>3

LEMMA HeardStep ==
  ASSUME IInv, HeardIsTold, [Next]_vars
  PROVE  HeardIsTold'
<1> SUFFICES ASSUME NEW r \in Requests, NEW says \in Outcomes, <<r, says>> \in heard'
             PROVE  transfer'[r] \in IF says = "SUCCESS" THEN {"paid", "returned"}
                                     ELSE {"refused", "returned"}
  BY DEF HeardIsTold, Outcomes
<1>1. transfer[r] \in IF says = "SUCCESS" THEN {"paid", "returned"} ELSE {"refused", "returned"}
  <2>1. CASE <<r, says>> \in heard
    BY <2>1 DEF HeardIsTold, Outcomes
  <2>2. CASE <<r, says>> \notin heard
    BY <2>2, OnlyNotifyTells DEF Notify, Reports, Outcomes
  <2> QED
    BY <2>1, <2>2
<1> QED
  BY <1>1, BankMoves

LEMMA GuardStep ==
  ASSUME IInv, GuardKnows, [Next]_vars
  PROVE  GuardKnows'
<1> SUFFICES ASSUME NEW w \in Workers, job'[w].pc = "guard"
             PROVE  /\ job'[w].seen \in Failable
                    /\ job'[w].seen = "COMPLETED" => row'[job'[w].req].status # "PENDING"
  BY DEF GuardKnows
<1>1. job[w] \in Job /\ job \in [Workers -> Job]
  BY DEF IInv, TypeOK
<1>2. CASE job'[w] = job[w]
  <2>1. job[w].req \in Requests
    BY <1>1, <1>2, JobShape
  <2>2. row[job[w].req].status # "NONE"
    BY <1>2, <2>1 DEF IInv, NewIsUntouched, Early
  <2> QED
    BY <1>2, <2>1, <2>2, RowMoves DEF GuardKnows
<1>3. CASE FailRead(w)
  BY <1>1, <1>3 DEF FailRead, Become, Idle
<1> QED
  BY <1>2, <1>3, HandlerMoves

\* A request the bank refused and nobody can fail any more is refunded or being refunded.
LEMMA RefusedIsRefunded ==
  ASSUME IInv, crashes = 0, NEW r \in Requests, transfer[r] = "refused", ~row[r].operator,
         row[r].status # "PENDING"
  PROVE  Refunded(r) \/ Refunding(r)
<1>1. Debited(r) /\ row[r].status \in {"COMPLETED", "FAILED"}
  BY DEF IInv, SentIsFunded, NewIsUntouched, TypeOK, Row, Statuses
<1>2. row[r].status = "FAILED"
  BY <1>1 DEF IInv, SuccessIsPaid
<1> QED
  BY <1>1, <1>2 DEF IInv, NothingForgotten

LEMMA NoticesStep ==
  ASSUME IInv, HeardIsTold, GuardKnows, NoticesHeld, [Next]_vars
  PROVE  NoticesHeld'
<1> SUFFICES ASSUME crashes' = 0, NEW r \in Requests
             PROVE  /\ <<r, "SUCCESS">> \in heard' =>
                         row'[r].status # "PENDING" \/ row'[r].operator \/ Succeeding(r)'
                    /\ <<r, "FAILED">> \in heard' /\ transfer'[r] = "refused" =>
                         row'[r].operator \/ Refunded(r)' \/ Failing(r)'
  BY DEF NoticesHeld
<1>1. /\ crashes = 0 /\ job \in [Workers -> Job] /\ row \in [Requests -> Row]
      /\ Refunded(r) => Refunded(r)'
  BY BankMoves DEF IInv, TypeOK
<1>2. row[r].status # "NONE" =>
        /\ row'[r].status = "PENDING" => row[r].status = "PENDING"
        /\ row[r].operator => row'[r].operator
  BY RowMoves
<1>3. ASSUME <<r, "SUCCESS">> \in heard', row'[r].status = "PENDING", ~row'[r].operator
      PROVE  Succeeding(r)'
  <2>1. CASE <<r, "SUCCESS">> \in heard
    <3>1. row[r].status # "NONE"
      BY <2>1 DEF HeardIsTold, IInv, NewIsUntouched
    <3>2. PICK w \in Workers : job[w].pc = "succeed" /\ job[w].req = r
      BY <1>1, <1>2, <1>3, <2>1, <3>1 DEF NoticesHeld, Succeeding
    <3>3. ~Succeed(w)
      BY <1>1, <1>2, <1>3, <3>1, <3>2 DEF Succeed, Still, Row
    <3>4. job'[w] = job[w]
      BY <3>2, <3>3, HandlerMoves DEF FailRead, FailWrite, Refund
    <3> QED
      BY <3>2, <3>4 DEF Succeeding
  <2>2. CASE <<r, "SUCCESS">> \notin heard
    <3>1. PICK w \in Workers : Notify(w, r, "SUCCESS")
      BY <1>3, <2>2, OnlyNotifyTells DEF Outcomes
    <3>2. job'[w] = Ending(r, "succeed", FALSE)
      BY <1>1, <1>3, <3>1 DEF Notify, Become, Completable, On
    <3> QED
      BY <3>2 DEF Succeeding, Ending
  <2> QED
    BY <2>1, <2>2
<1>4. ASSUME <<r, "FAILED">> \in heard', transfer'[r] = "refused", ~row'[r].operator
      PROVE  Refunded(r)' \/ Failing(r)'
  <2>1. transfer[r] = "refused"
    <3>1. CASE <<r, "FAILED">> \in heard
      BY <1>4, <3>1, BankMoves DEF HeardIsTold
    <3>2. CASE <<r, "FAILED">> \notin heard
      BY <1>4, <3>2, OnlyNotifyTells DEF Notify, bank, Outcomes
    <3> QED
      BY <3>1, <3>2
  <2>2. row[r].status # "NONE" /\ ~row[r].operator
    BY <1>2, <1>4, <2>1 DEF IInv, NewIsUntouched
  <2>3. ASSUME Refunding(r)
        PROVE  Refunded(r)' \/ Failing(r)'
    <3>1. PICK w \in Workers : job[w].pc = "refund" /\ job[w].req = r
      BY <2>3 DEF Refunding
    <3>2. Refund(w) => Refunded(r)'
      BY <3>1 DEF Refund, Refunded, money
    <3>3. ~Refund(w) => job'[w] = job[w]
      BY <3>1, HandlerMoves DEF FailRead, FailWrite, Succeed
    <3> QED
      BY <3>1, <3>2, <3>3 DEF Failing
  <2>4. row[r].status # "PENDING" => Refunded(r)' \/ Failing(r)'
    BY <1>1, <2>1, <2>2, <2>3, RefusedIsRefunded
  <2>5. CASE <<r, "FAILED">> \in heard
    <3>1. CASE Refunded(r) \/ Refunding(r)
      BY <1>1, <2>3, <3>1
    <3>2. CASE ~Refunded(r) /\ ~Refunding(r)
      <4>1. PICK w \in Workers : job[w].pc \in {"fail", "guard"} /\ job[w].req = r
        BY <1>1, <2>1, <2>2, <2>5, <3>2 DEF NoticesHeld, Failing, Refunding
      <4>2. CASE job'[w] = job[w]
        BY <4>1, <4>2 DEF Failing
      <4>3. CASE FailRead(w)
        <5>1. row[r].status \in Failable => job'[w].pc = "guard" /\ job'[w].req = r
          BY <1>1, <4>1, <4>3 DEF FailRead, Become
        <5> QED
          BY <2>4, <5>1 DEF Failing, Failable
      <4>4. CASE FailWrite(w)
        <5>1. CASE row[r].status = job[w].seen
          BY <1>1, <4>1, <4>4, <5>1 DEF FailWrite, Still, Become, Ending, Failing
        <5>2. CASE row[r].status # job[w].seen
          BY <2>4, <4>1, <4>4, <5>2 DEF FailWrite, GuardKnows, Failable
        <5> QED
          BY <5>1, <5>2
      <4> QED
        BY <1>1, <4>1, <4>2, <4>3, <4>4, HandlerMoves DEF Succeed, Refund
    <3> QED
      BY <3>1, <3>2
  <2>6. CASE <<r, "FAILED">> \notin heard
    <3>1. PICK w \in Workers : Notify(w, r, "FAILED")
      BY <1>4, <2>6, OnlyNotifyTells DEF Outcomes
    <3>2. row[r].status = "PENDING" => job'[w] = Ending(r, "fail", FALSE)
      BY <1>1, <3>1 DEF Notify, Become, Failable, On
    <3> QED
      BY <2>4, <3>2 DEF Failing, Ending
  <2> QED
    BY <2>5, <2>6
<1> QED
  BY <1>3, <1>4

\* Whatever else works on a request when the bank's notice comes, and however often it
\* comes: with no handler dead or in flight, a refusal that was delivered is refunded and
\* a success that was delivered no longer waits (processProviderResult, succeed and fail
\* of payout-fulfillment.service.ts).
THEOREM NoticesAreHeeded == Spec => []NoticeIsHeeded
<1> DEFINE Notices == HeardIsTold /\ GuardKnows /\ NoticesHeld
<1>1. Init => Notices
  BY DEF Init, Idle, HeardIsTold, GuardKnows, NoticesHeld
<1>2. IInv /\ Notices /\ [Next]_vars => Notices'
  BY HeardStep, GuardStep, NoticesStep
<1>3. IInv /\ Notices => NoticeIsHeeded
  <2> SUFFICES ASSUME NoticesHeld, NEW r \in Requests, Unharmed, ~row[r].operator
               PROVE  /\ <<r, "FAILED">> \in heard /\ transfer[r] = "refused" => Refunded(r)
                      /\ <<r, "SUCCESS">> \in heard => row[r].status # "PENDING"
    BY DEF NoticeIsHeeded
  <2>1. crashes = 0 /\ ~Succeeding(r) /\ ~Failing(r)
    BY DEF Unharmed, Quiet, Succeeding, Failing, Idle
  <2> QED
    BY <2>1 DEF NoticesHeld
<1> QED
  BY <1>1, <1>2, <1>3, PayoutInvariant, PTL DEF Spec

-------------------------------------------------------------------------------
(***************************************************************************)
(* The commission account a payout settles. For any number of handlers,    *)
(* any calls, limits and retries: the debt is its ledger, a reference is   *)
(* charged once and no payment exceeds what is owed. The inductive         *)
(* invariant adds what a handler knows of the account it read: while the   *)
(* version has not moved, neither have the balance and the ledger, so the  *)
(* checks it made still hold when its guard lets it write.                 *)
(***************************************************************************)

\* What a handler read is the account as it is or an older version of it.
SeenIsPast == \A h \in Handlers : task[h].pc \in {"check", "write"} =>
  /\ task[h].seen.version <= account.version
  /\ task[h].seen.version = account.version => task[h].seen.balance = account.balance

\* What a handler checked stays true until somebody else posts.
CheckedHolds == \A h \in Handlers :
  task[h].pc = "write" /\ task[h].seen.version = account.version =>
    /\ ~IsPosted(task[h].call.ref)
    /\ Covered(task[h].call, task[h].seen.balance)

Posts == BooksBalance /\ ReferencePostedOnce /\ PaymentsCovered

AccountIInv == AccountTypeOK /\ Posts /\ SeenIsPast /\ CheckedHolds

\* A comparison of integers is a Boolean.
LEMMA GreaterIsBoolean == \A a, b \in Int : (a > b) \in BOOLEAN
OBVIOUS

\* A handler's program counter tells the shape of its record.
LEMMA TaskShape ==
  ASSUME NEW j \in Task
  PROVE  /\ j.pc = "read" => j \in [pc : {"read"}, call : Calls]
         /\ j.pc \in {"check", "write"}
              => j \in [pc : {"check", "write"}, call : Calls, seen : Account]
         /\ j.pc = "recompute"
              => j \in [pc : {"recompute"}, seen : Account]
         /\ j.pc = "persist"
              => j \in [pc : {"persist"}, limit : Limits, blocked : BOOLEAN]
BY DEF Task, Free

\* A handler that does not get ready to write may change freely while the
\* account, its version and its ledger stand still.
LEMMA Bystanders ==
  ASSUME SeenIsPast, CheckedHolds, account'.version = account.version,
         account'.balance = account.balance, ledger' = ledger,
         NEW h \in Handlers, NEW j, task' = [task EXCEPT ![h] = j],
         task \in [Handlers -> Task], j.pc \notin {"check", "write"}
  PROVE  SeenIsPast' /\ CheckedHolds'
<1>1. \A v \in Handlers : v # h => task'[v] = task[v]
  OBVIOUS
<1>2. task'[h] = j
  OBVIOUS
<1> QED
  BY <1>1, <1>2 DEF SeenIsPast, CheckedHolds, IsPosted

THEOREM AccountInitIInv == AccountInit => AccountIInv
<1> SUFFICES ASSUME AccountInit PROVE AccountIInv
  OBVIOUS
<1> USE AccountConfigOK
<1>1. AccountTypeOK
  BY DEF AccountInit, AccountTypeOK, Account, Task
<1>2. Posts
  BY DEF AccountInit, Posts, BooksBalance, ReferencePostedOnce, PaymentsCovered, Before
<1>3. SeenIsPast /\ CheckedHolds
  BY DEF AccountInit, SeenIsPast, CheckedHolds, Free
<1> QED
  BY <1>1, <1>2, <1>3 DEF AccountIInv

-------------------------------------------------------------------------------
\* A commit whose guard held keeps the books and ages every other handler.
LEMMA WriteCommits ==
  ASSUME AccountIInv, NEW h \in Handlers, Write(h), GuardHolds(task[h])
  PROVE  AccountIInv'
<1> DEFINE j == task[h]
           k == j.call
           e == [call |-> k, after |-> j.seen.balance + k.delta]
<1> USE AccountConfigOK
<1>1. /\ j \in [pc : {"check", "write"}, call : Calls, seen : Account]
      /\ k \in Calls /\ k.delta \in Int /\ j.seen \in Account
      /\ account \in Account /\ ledger \in Seq(Entry) /\ task \in [Handlers -> Task]
  BY TaskShape DEF AccountIInv, AccountTypeOK, Write
<1>2. /\ j.seen.version = account.version /\ j.seen.balance = account.balance
      /\ ~IsPosted(k.ref) /\ Covered(k, j.seen.balance)
  BY <1>1 DEF AccountIInv, SeenIsPast, CheckedHolds, GuardHolds, Write
<1>3. /\ account' = [account EXCEPT !.balance = j.seen.balance + k.delta, !.version = @ + 1]
      /\ ledger' = Append(ledger, e)
      /\ task' = [task EXCEPT ![h] = [pc |-> "recompute", seen |-> account']]
      /\ UNCHANGED <<default, deaths>>
  BY DEF Write, GuardHolds, TurnsTo
<1>4. /\ account' \in Account
      /\ account'.balance = account.balance + k.delta /\ account'.version = account.version + 1
  <2>1. account.balance + k.delta \in Int /\ account.version + 1 \in Nat
    BY <1>1 DEF Account
  <2>2. account' = [account EXCEPT !.balance = account.balance + k.delta, !.version = account.version + 1]
    BY <1>1, <1>2, <1>3
  <2> QED
    BY <1>1, <2>1, <2>2 DEF Account
<1>5. e \in Entry
  BY <1>1, <1>2 DEF Entry, Account
<1>n. PICK n \in Nat \ {0} : n = Len(ledger) + 1
  BY <1>1
<1>6. /\ Len(ledger') = n /\ DOMAIN ledger' = 1..n
      /\ DOMAIN ledger = 1..(n - 1) /\ Len(ledger) = n - 1
      /\ ledger'[n] = e /\ \A i \in 1..(n - 1) : ledger'[i] = ledger[i]
      /\ ledger' \in Seq(Entry)
  <2> HIDE DEF e
  <2> QED
    BY <1>n, <1>1, <1>3, <1>5
<1>7. AccountTypeOK'
  <2>1. [pc |-> "recompute", seen |-> account'] \in Task
    BY <1>1, <1>4 DEF Task
  <2>2. task' \in [Handlers -> Task]
    BY <1>1, <1>3, <2>1
  <2> QED
    BY <1>3, <1>4, <1>6, <2>2 DEF AccountIInv, AccountTypeOK
<1>8. BooksBalance'
  <2>1. (n > 1 => ledger[n - 1].after = account.balance) /\ (n = 1 => account.balance = 0)
    BY <1>6 DEF AccountIInv, Posts, BooksBalance, Before
  <2>2. Before(n)' = account.balance
    BY <2>1, <1>6, <1>1 DEF AccountIInv, Posts, BooksBalance, Before
  <2>3. \A i \in 1..(n - 1) : Before(i)' = Before(i)
    BY <1>6 DEF Before
  <2>4. \A i \in 1..n : ledger'[i].after = Before(i)' + ledger'[i].call.delta
    BY <2>2, <2>3, <1>6, <1>2 DEF AccountIInv, Posts, BooksBalance
  <2>5. Before(n + 1)' = e.after
    BY <1>6 DEF Before
  <2>6. account.version = n - 1
    BY <1>6 DEF AccountIInv, Posts, BooksBalance
  <2> QED
    BY <2>4, <2>5, <2>6, <1>2, <1>4, <1>6, <1>1 DEF BooksBalance, Account
<1>9. ReferencePostedOnce'
  <2>1. k.ref = NoRef \/ \A i \in 1..(n - 1) : ledger[i].call.ref # k.ref
    BY <1>2, <1>6 DEF IsPosted
  <2> QED
    BY <2>1, <1>6 DEF AccountIInv, Posts, ReferencePostedOnce
<1>10. PaymentsCovered'
  BY <1>2, <1>6 DEF AccountIInv, Posts, PaymentsCovered, Covered
<1>11. ASSUME NEW v \in Handlers, task'[v].pc \in {"check", "write"}
       PROVE  task'[v].seen.version < account'.version
  <2>1. v # h /\ task'[v] = task[v]
    BY <1>1, <1>3, <1>11
  <2>2. task[v].seen.version <= account.version
    BY <2>1, <1>11 DEF AccountIInv, SeenIsPast
  <2>3. task[v].seen.version \in Nat /\ account.version \in Nat
    BY <2>1, <1>11, <1>1, TaskShape DEF Account
  <2> QED
    BY <2>1, <2>2, <2>3, <1>4
<1>12. ASSUME NEW v \in Handlers, task'[v].pc \in {"check", "write"}
       PROVE  task'[v].seen.version \in Nat /\ account'.version \in Nat
  BY <1>12, <1>7, TaskShape DEF AccountTypeOK, Account
<1>13. SeenIsPast' /\ CheckedHolds'
  BY <1>11, <1>12 DEF SeenIsPast, CheckedHolds
<1> QED
  BY <1>7, <1>8, <1>9, <1>10, <1>13 DEF AccountIInv, Posts

\* Whatever leaves balance, version and ledger alone and readies nobody to write.
LEMMA OtherSteps ==
  ASSUME AccountIInv, NEW h \in Handlers, NEW j, TurnsTo(h, j), AccountTypeOK',
         j.pc \notin {"check", "write"},
         account'.balance = account.balance, account'.version = account.version, ledger' = ledger
  PROVE  AccountIInv'
<1>1. SeenIsPast' /\ CheckedHolds'
  BY Bystanders DEF AccountIInv, AccountTypeOK, TurnsTo
<1>2. Posts'
  BY DEF AccountIInv, Posts, BooksBalance, ReferencePostedOnce, PaymentsCovered, Before
<1> QED
  BY <1>1, <1>2 DEF AccountIInv

LEMMA ReadKeeps ==
  ASSUME AccountIInv, NEW h \in Handlers, Read(h)
  PROVE  AccountIInv'
<1> DEFINE j == [pc |-> "check", call |-> task[h].call, seen |-> account]
<1>1. /\ task[h] \in [pc : {"read"}, call : Calls]
      /\ account \in Account /\ task \in [Handlers -> Task]
  BY TaskShape DEF AccountIInv, AccountTypeOK, Read
<1>2. /\ task' = [task EXCEPT ![h] = j]
      /\ UNCHANGED <<account, ledger, default, deaths>>
  BY DEF Read, TurnsTo
<1>3. j \in Task
  BY <1>1 DEF Task
<1>4. AccountTypeOK'
  BY <1>1, <1>2, <1>3 DEF AccountIInv, AccountTypeOK
<1>5. Posts'
  BY <1>2 DEF AccountIInv, Posts, BooksBalance, ReferencePostedOnce, PaymentsCovered, Before
<1>6. task'[h] = j /\ \A v \in Handlers : v # h => task'[v] = task[v]
  BY <1>1, <1>2
<1>7. SeenIsPast'
  BY <1>1, <1>2, <1>6 DEF AccountIInv, SeenIsPast, Account
<1>8. CheckedHolds'
  BY <1>2, <1>6 DEF AccountIInv, CheckedHolds, IsPosted
<1> QED
  BY <1>4, <1>5, <1>7, <1>8 DEF AccountIInv

LEMMA CheckKeeps ==
  ASSUME AccountIInv, NEW h \in Handlers, Check(h)
  PROVE  AccountIInv'
<1> DEFINE j == task[h]
<1>1. /\ j \in [pc : {"check", "write"}, call : Calls, seen : Account] /\ j.pc = "check"
      /\ task \in [Handlers -> Task]
  BY TaskShape DEF AccountIInv, AccountTypeOK, Check
<1>2. UNCHANGED <<account, ledger, default, deaths>>
  BY DEF Check
<1>3. ASSUME NEW i \in Task, task' = [task EXCEPT ![h] = i]
      PROVE  AccountTypeOK' /\ Posts'
  <2>1. AccountTypeOK'
    BY <1>1, <1>2, <1>3 DEF AccountIInv, AccountTypeOK
  <2>2. Posts'
    BY <1>2 DEF AccountIInv, Posts, BooksBalance, ReferencePostedOnce, PaymentsCovered, Before
  <2> QED
    BY <2>1, <2>2
<1>4. CASE ~IsPosted(j.call.ref) /\ Covered(j.call, j.seen.balance)
  <2> DEFINE i == [j EXCEPT !.pc = "write"]
  <2>1. task' = [task EXCEPT ![h] = i]
    BY <1>4 DEF Check, TurnsTo
  <2>2. i \in [pc : {"check", "write"}, call : Calls, seen : Account]
    BY <1>1
  <2>3. i \in Task
    BY <2>2 DEF Task
  <2>4. AccountTypeOK' /\ Posts'
    BY <1>3, <2>1, <2>3
  <2>5. task'[h] = i /\ \A v \in Handlers : v # h => task'[v] = task[v]
    BY <1>1, <2>1
  <2>6. i.seen = j.seen /\ i.call = j.call /\ i.pc = "write"
    BY <1>1
  <2>7. SeenIsPast'
    BY <1>1, <1>2, <2>5, <2>6 DEF AccountIInv, SeenIsPast
  <2>8. CheckedHolds'
    <3> SUFFICES ASSUME NEW v \in Handlers, task'[v].pc = "write",
                        task'[v].seen.version = account'.version
                 PROVE  /\ ~IsPosted(task[v].call.ref)'
                        /\ Covered(task[v].call, task[v].seen.balance)'
      BY DEF CheckedHolds
    <3>1. CASE v = h
      <4>1. task'[v].call = j.call /\ task'[v].seen = j.seen
        BY <3>1, <2>5, <2>6
      <4> QED
        BY <4>1, <1>2, <1>4 DEF IsPosted, Covered
    <3>2. CASE v # h
      <4>1. task'[v] = task[v]
        BY <3>2, <2>5
      <4> QED
        BY <4>1, <1>2 DEF AccountIInv, CheckedHolds, IsPosted, Covered
    <3> QED
      BY <3>1, <3>2
  <2> QED
    BY <2>4, <2>7, <2>8 DEF AccountIInv
<1>5. CASE ~(~IsPosted(j.call.ref) /\ Covered(j.call, j.seen.balance))
  <2>1. TurnsTo(h, Free)
    BY <1>5 DEF Check
  <2>2. Free \in Task /\ Free.pc \notin {"check", "write"}
    BY DEF Task, Free
  <2>3. AccountTypeOK'
    BY <1>3, <2>1, <2>2 DEF TurnsTo
  <2> QED
    BY <1>2, <2>1, <2>2, <2>3, OtherSteps
<1> QED
  BY <1>4, <1>5

\* The steps that move neither balance nor ledger, by the record they leave.
LEMMA QuietStep ==
  ASSUME AccountIInv, NEW h \in Handlers, NEW j \in Task, TurnsTo(h, j),
         j.pc \notin {"check", "write"}, ledger' = ledger,
         account' \in Account, account'.balance = account.balance, account'.version = account.version,
         default' = default, deaths' \in 0..MaxDeaths
  PROVE  AccountIInv'
<1>1. AccountTypeOK'
  BY DEF AccountIInv, AccountTypeOK, TurnsTo
<1> QED
  BY <1>1, OtherSteps

LEMMA AccountStepKeeps ==
  ASSUME AccountIInv, AccountNext
  PROVE  AccountIInv'
<1> USE AccountConfigOK
<1>1. /\ account \in Account /\ default \in Limits /\ deaths \in 0..MaxDeaths
      /\ task \in [Handlers -> Task] /\ deaths \in Nat
  BY DEF AccountIInv, AccountTypeOK
<1>2. Free \in Task /\ Free.pc = "idle"
  BY DEF Task, Free
<1>3. ASSUME NEW h \in Handlers, NEW k \in Calls, Begin(h, k)
      PROVE  AccountIInv'
  <2>1. [pc |-> "read", call |-> k] \in Task
    BY DEF Task
  <2> QED
    BY <1>1, <1>3, <2>1, QuietStep DEF Begin
<1>4. ASSUME NEW h \in Handlers, NEW l \in Limits \union {NoLimit}, Negotiate(h, l)
      PROVE  AccountIInv'
  <2>1. /\ account' \in Account /\ account'.balance = account.balance /\ account'.version = account.version
    BY <1>1, <1>4 DEF Negotiate, Account
  <2>2. [pc |-> "recompute", seen |-> account'] \in Task
    BY <2>1 DEF Task
  <2> QED
    BY <1>1, <1>4, <2>1, <2>2, QuietStep DEF Negotiate
<1>5. ASSUME NEW h \in Handlers, Write(h), ~GuardHolds(task[h])
      PROVE  AccountIInv'
  BY <1>1, <1>2, <1>5, QuietStep DEF Write
<1>6. ASSUME NEW h \in Handlers, Recompute(h)
      PROVE  AccountIInv'
  <2> DEFINE j == task[h]
             l == Effective(j.seen)
             i == [pc |-> "persist", limit |-> l,
                   blocked |-> ShouldBlock(j.seen, l)]
  <2>1. j \in [pc : {"recompute"}, seen : Account]
    BY <1>1, <1>6, TaskShape DEF Recompute
  <2>2. l \in Limits
    BY <1>1, <2>1 DEF Effective, Account
  <2>3. ShouldBlock(j.seen, l) \in BOOLEAN
    <3>1. j.seen \in Account
      BY <2>1
    <3>2. j.seen.balance \in Int /\ l \in Nat
      BY <2>2, <3>1 DEF Account
    <3>3. (j.seen.balance > 0) \in BOOLEAN /\ (j.seen.balance > l) \in BOOLEAN
      BY <3>2, GreaterIsBoolean
    <3> QED
      BY <3>3, Zenon DEF ShouldBlock
  <2>4. i \in Task
    BY <2>1, <2>2, <2>3 DEF Task
  <2>5. TurnsTo(h, Free) \/ TurnsTo(h, i)
    BY <1>6 DEF Recompute
  <2> QED
    BY <1>1, <1>2, <1>6, <2>4, <2>5, QuietStep DEF Recompute
<1>7. ASSUME NEW h \in Handlers, Persist(h)
      PROVE  AccountIInv'
  <2>1. task[h] \in [pc : {"persist"}, limit : Limits, blocked : BOOLEAN]
    BY <1>1, <1>7, TaskShape DEF Persist
  <2>2. account' \in Account /\ account'.balance = account.balance /\ account'.version = account.version
    BY <1>1, <1>7, <2>1 DEF Persist, Account
  <2> QED
    BY <1>1, <1>2, <1>7, <2>2, QuietStep DEF Persist
<1>8. ASSUME NEW h \in Handlers, Die(h)
      PROVE  AccountIInv'
  <2>1. deaths' \in 0..MaxDeaths
    BY <1>1, <1>8 DEF Die
  <2> QED
    BY <1>1, <1>2, <1>8, <2>1, QuietStep DEF Die
<1>9. ASSUME NEW l \in Limits, ChangeDefault(l)
      PROVE  AccountIInv'
  <2>1. default' \in Limits /\ UNCHANGED <<account, ledger, task, deaths>>
    BY <1>9 DEF ChangeDefault
  <2>2. AccountTypeOK'
    BY <2>1 DEF AccountIInv, AccountTypeOK
  <2>3. Posts' /\ SeenIsPast' /\ CheckedHolds'
    BY <2>1 DEF AccountIInv, Posts, BooksBalance, ReferencePostedOnce, PaymentsCovered, Before,
                SeenIsPast, CheckedHolds, IsPosted
  <2> QED
    BY <2>2, <2>3 DEF AccountIInv
<1> QED
  BY <1>3, <1>4, <1>5, <1>6, <1>7, <1>8, <1>9, ReadKeeps, CheckKeeps, WriteCommits DEF AccountNext

\* The invariant holds in every reachable state; TypeOK is its first part.
THEOREM AccountInvariant == AccountSpec => [](AccountTypeOK /\ Posts)
<1>1. AccountIInv /\ UNCHANGED accountVars => AccountIInv'
  BY DEF accountVars, AccountIInv, AccountTypeOK, Posts, BooksBalance, ReferencePostedOnce, PaymentsCovered,
         Before, SeenIsPast, CheckedHolds, IsPosted
<1>2. AccountIInv /\ [AccountNext]_accountVars => AccountIInv'
  BY <1>1, AccountStepKeeps
<1>3. AccountIInv => AccountTypeOK /\ Posts
  BY DEF AccountIInv
<1> QED
  BY AccountInitIInv, <1>2, <1>3, PTL DEF AccountSpec

\* The debt is its ledger for any number of concurrent handlers.
THEOREM DebtIsItsLedger == AccountSpec => []BooksBalance
<1>1. AccountTypeOK /\ Posts => BooksBalance
  BY DEF Posts
<1> QED
  BY AccountInvariant, <1>1, PTL

\* An order, a ride or a reversal is charged at most once under any retries.
THEOREM ChargedOnce == AccountSpec => []ReferencePostedOnce
<1>1. AccountTypeOK /\ Posts => ReferencePostedOnce
  BY DEF Posts
<1> QED
  BY AccountInvariant, <1>1, PTL

\* No payment, concurrent or retried, exceeds the debt it is taken from.
THEOREM PaymentsNeverExceedDebt == AccountSpec => []PaymentsCovered
<1>1. AccountTypeOK /\ Posts => PaymentsCovered
  BY DEF Posts
<1> QED
  BY AccountInvariant, <1>1, PTL

-------------------------------------------------------------------------------
\* The block state while handlers do not overlap. What a handler is about to decide,
\* or has decided, is decided on the account as it stands; and with no decision
\* under way, and none lost to a handler that died, the block follows the debt.
DebtDecides ==
  /\ account.blocked => account.balance > 0
  /\ account.balance > account.limit => account.blocked

BlockInForce ==
  /\ \A g, h \in Handlers : task[g] # Free /\ task[h] # Free => g = h
  /\ \A h \in Handlers : task[h].pc = "recompute" => task[h].seen = account
  /\ \A h \in Handlers :
       task[h].pc = "persist" => (task[h].blocked <=> ShouldBlock(account, task[h].limit))
  /\ deaths = 0 /\ (\A h \in Handlers : task[h].pc \notin {"recompute", "persist"})
       => DebtDecides

BlockIInv == AccountIInv /\ (~overlapped => BlockInForce)

Lifts == account.blocked /\ ~account'.blocked

\* With every other handler free, the invariant is about this one.
LEMMA AloneInForce ==
  ASSUME NEW h \in Handlers, NEW t, \A g \in Handlers : g # h => task'[g] = Free,
         task'[h] = t,
         t.pc = "recompute" => t.seen = account',
         t.pc = "persist" => (t.blocked <=> ShouldBlock(account', t.limit)),
         deaths' = 0 /\ t.pc \notin {"recompute", "persist"} => DebtDecides'
  PROVE  BlockInForce'
<1>1. Free.pc = "idle"
  BY DEF Free
<1> QED
  BY <1>1 DEF BlockInForce, ShouldBlock

\* A step of a handler that no other overlaps.
LEMMA BlockStep ==
  ASSUME AccountIInv, BlockInForce, AccountNext, NEW h \in Handlers,
         \A g \in Handlers : g # h => task[g] = Free /\ task'[g] = Free,
         \/ \E k \in Calls : Begin(h, k)
         \/ \E l \in Limits \union {NoLimit} : Negotiate(h, l)
         \/ Read(h) \/ Check(h) \/ Write(h) \/ Recompute(h) \/ Persist(h) \/ Die(h)
  PROVE  BlockInForce' /\ (Lifts => account'.balance <= 0)
<1> DEFINE t == task[h]
<1> USE AccountConfigOK
<1>1. /\ account \in Account /\ default \in Limits /\ deaths \in Nat
      /\ task \in [Handlers -> Task] /\ t \in Task
  BY DEF AccountIInv, AccountTypeOK
<1>2. Free.pc = "idle" /\ Free \in Task
  BY DEF Free, Task
<1>3. /\ t.pc = "recompute" => t.seen = account
      /\ t.pc = "persist" => (t.blocked <=> ShouldBlock(account, t.limit))
      /\ deaths = 0 /\ t.pc \notin {"recompute", "persist"} => DebtDecides
  <2>1. t.pc \notin {"recompute", "persist"}
          => \A g \in Handlers : task[g].pc \notin {"recompute", "persist"}
    BY <1>2
  <2> QED
    BY <2>1 DEF BlockInForce
<1>4. ASSUME NEW s, task' = [task EXCEPT ![h] = s], UNCHANGED account,
             s.pc \notin {"recompute", "persist"}, deaths' = 0 => DebtDecides
      PROVE  BlockInForce' /\ (Lifts => account'.balance <= 0)
  <2>1. task'[h] = s
    BY <1>1, <1>4
  <2>2. DebtDecides' <=> DebtDecides
    BY <1>4 DEF DebtDecides
  <2>3. BlockInForce'
    BY <1>4, <2>1, <2>2, AloneInForce
  <2> QED
    BY <1>4, <2>3 DEF Lifts
<1>5. ASSUME NEW k \in Calls, Begin(h, k)
      PROVE  BlockInForce' /\ (Lifts => account'.balance <= 0)
  BY <1>2, <1>3, <1>4, <1>5 DEF Begin, TurnsTo
<1>6. ASSUME Read(h) \/ Check(h)
      PROVE  BlockInForce' /\ (Lifts => account'.balance <= 0)
  <2>1. t.pc = "check" => t \in [pc : {"check", "write"}, call : Calls, seen : Account]
    BY <1>1, TaskShape
  <2> QED
    BY <1>2, <1>3, <1>4, <1>6, <2>1 DEF Read, Check, TurnsTo
<1>7. ASSUME Die(h)
      PROVE  BlockInForce' /\ (Lifts => account'.balance <= 0)
  <2>1. deaths' # 0 /\ UNCHANGED account /\ task' = [task EXCEPT ![h] = Free]
    BY <1>1, <1>7 DEF Die, TurnsTo
  <2> QED
    BY <1>2, <1>4, <2>1
<1>8. ASSUME task' = [task EXCEPT ![h] = [pc |-> "recompute", seen |-> account']],
             account'.blocked = account.blocked
      PROVE  BlockInForce' /\ (Lifts => account'.balance <= 0)
  <2> DEFINE s == [pc |-> "recompute", seen |-> account']
  <2>1. task'[h] = s /\ s.pc = "recompute" /\ s.seen = account'
    BY <1>1, <1>8
  <2>2. BlockInForce'
    BY <2>1, AloneInForce
  <2> QED
    BY <1>8, <2>2 DEF Lifts
<1>9. ASSUME NEW l \in Limits \union {NoLimit}, Negotiate(h, l)
      PROVE  BlockInForce' /\ (Lifts => account'.balance <= 0)
  <2>1. account'.blocked = account.blocked
    BY <1>1, <1>9 DEF Negotiate, Account
  <2> QED
    BY <1>8, <1>9, <2>1 DEF Negotiate, TurnsTo
<1>10. ASSUME Write(h), GuardHolds(t)
       PROVE  BlockInForce' /\ (Lifts => account'.balance <= 0)
  <2>1. account'.blocked = account.blocked
    BY <1>1, <1>10 DEF Write, Account
  <2> QED
    BY <1>8, <1>10, <2>1 DEF Write, TurnsTo
<1>11. ASSUME Write(h), ~GuardHolds(t)
       PROVE  BlockInForce' /\ (Lifts => account'.balance <= 0)
  BY <1>2, <1>3, <1>4, <1>11 DEF Write, TurnsTo
<1>12. ASSUME Recompute(h)
       PROVE  BlockInForce' /\ (Lifts => account'.balance <= 0)
  <2> DEFINE l == Effective(account)
             s == [pc |-> "persist", limit |-> l, blocked |-> ShouldBlock(account, l)]
  <2>1. t.seen = account /\ UNCHANGED <<account, deaths>>
    BY <1>3, <1>12 DEF Recompute
  <2>2. CASE Settled(account, l)
    <3>1. task' = [task EXCEPT ![h] = Free]
      BY <1>12, <2>1, <2>2 DEF Recompute, TurnsTo
    <3>2. account.balance \in Int /\ account.limit \in Nat
      BY <1>1 DEF Account
    <3>3. DebtDecides
      BY <2>2, <3>2 DEF Settled, ShouldBlock, DebtDecides
    <3> QED
      BY <1>2, <1>4, <2>1, <3>1, <3>3
  <2>3. CASE ~Settled(account, l)
    <3>1. task' = [task EXCEPT ![h] = s]
      BY <1>12, <2>1, <2>3 DEF Recompute, TurnsTo
    <3>2. task'[h] = s /\ s.pc = "persist" /\ s.limit = l
      BY <1>1, <3>1
    <3>3. ShouldBlock(account', l) <=> ShouldBlock(account, l)
      BY <2>1
    <3>4. s.blocked <=> ShouldBlock(account', s.limit)
      BY <3>3
    <3>5. BlockInForce'
      <4> HIDE DEF s
      <4> QED
        BY <3>2, <3>4, AloneInForce
    <3> QED
      BY <2>1, <3>5 DEF Lifts
  <2> QED
    BY <2>2, <2>3
<1>13. ASSUME Persist(h)
       PROVE  BlockInForce' /\ (Lifts => account'.balance <= 0)
  <2>1. t \in [pc : {"persist"}, limit : Limits, blocked : BOOLEAN]
    BY <1>1, <1>13, TaskShape DEF Persist
  <2>2. /\ account'.limit = t.limit /\ account'.blocked = t.blocked
        /\ account'.balance = account.balance /\ account.balance \in Int
        /\ t.limit \in Nat
    BY <1>1, <1>13, <2>1 DEF Persist, Account
  <2>3. t.blocked <=> ShouldBlock(account, t.limit)
    BY <1>3, <1>13 DEF Persist
  <2>4. DebtDecides' /\ (Lifts => account'.balance <= 0)
    BY <2>2, <2>3 DEF DebtDecides, Lifts, ShouldBlock
  <2>5. task'[h] = Free
    BY <1>1, <1>13 DEF Persist, TurnsTo
  <2> QED
    BY <1>2, <2>4, <2>5, AloneInForce
<1> QED
  BY <1>5, <1>6, <1>7, <1>9, <1>10, <1>11, <1>12, <1>13

\* What a step, with the watch on overlaps, keeps and never does.
LEMMA BlockKept ==
  ASSUME BlockIInv, MCNext
  PROVE  BlockIInv' /\ (~overlapped' => (Lifts => account'.balance <= 0))
<1>1. AccountIInv /\ AccountIInv'
  BY AccountStepKeeps DEF BlockIInv, MCNext
<1> SUFFICES ASSUME ~overlapped'
             PROVE  BlockInForce' /\ (Lifts => account'.balance <= 0)
  BY <1>1 DEF BlockIInv
<1>2. ~overlapped
  BY DEF MCNext, Watch
<1>3. \A g, h \in Handlers : task'[g] # Free /\ task'[h] # Free => g = h
  BY DEF MCNext, Watch
<1>4. BlockInForce /\ AccountNext /\ task \in [Handlers -> Task]
  BY <1>1, <1>2 DEF BlockIInv, MCNext, AccountIInv, AccountTypeOK
<1>5. ASSUME NEW l \in Limits, ChangeDefault(l)
      PROVE  BlockInForce' /\ (Lifts => account'.balance <= 0)
  BY <1>4, <1>5 DEF ChangeDefault, BlockInForce, DebtDecides, ShouldBlock, Lifts
<1>6. ASSUME NEW h \in Handlers,
             \/ \E k \in Calls : Begin(h, k)
             \/ \E l \in Limits \union {NoLimit} : Negotiate(h, l)
             \/ Read(h) \/ Check(h) \/ Write(h) \/ Recompute(h) \/ Persist(h) \/ Die(h)
      PROVE  BlockInForce' /\ (Lifts => account'.balance <= 0)
  <2>1. \A g \in Handlers : g # h => task'[g] = task[g]
    BY <1>4, <1>6 DEF Begin, Negotiate, Read, Check, Write, Recompute, Persist, Die, TurnsTo
  <2>2. task[h] # Free \/ task'[h] # Free
    BY <1>4, <1>6 DEF Begin, Negotiate, Read, Check, Write, Recompute, Persist, Die, TurnsTo,
                      Free
  <2>3. \A g \in Handlers : g # h => task[g] = Free /\ task'[g] = Free
    BY <1>3, <1>4, <2>1, <2>2 DEF BlockInForce
  <2> QED
    BY <1>1, <1>4, <1>6, <2>3, BlockStep
<1> QED
  BY <1>4, <1>5, <1>6 DEF AccountNext

\* Handlers that never overlap, however many they are and whatever the limits, leave
\* a block that follows the debt; no step of theirs releases a partner who still owes.
THEOREM BlocksFollowDebts == MCSpec => BlockFollowsDebt
<1> DEFINE Follows ==
      ~overlapped' => /\ OverLimitIsBlocked' /\ ClearedIsReleased'
                      /\ account.blocked /\ ~account'.blocked => account'.balance <= 0
<1>1. MCInit => BlockIInv
  <2> SUFFICES ASSUME MCInit PROVE BlockInForce
    BY AccountInitIInv DEF MCInit, BlockIInv
  <2> QED
    BY AccountConfigOK DEF MCInit, AccountInit, BlockInForce, DebtDecides, Free
<1>2. BlockIInv /\ [MCNext]_<<accountVars, overlapped>> => BlockIInv'
  <2>1. BlockIInv /\ UNCHANGED <<accountVars, overlapped>> => BlockIInv'
    BY DEF accountVars, BlockIInv, AccountIInv, AccountTypeOK, Posts, BooksBalance,
           ReferencePostedOnce, PaymentsCovered, Before, SeenIsPast, CheckedHolds,
           IsPosted, BlockInForce, DebtDecides, ShouldBlock
  <2> QED
    BY <2>1, BlockKept
<1>3. BlockIInv' /\ ~overlapped' => OverLimitIsBlocked' /\ ClearedIsReleased'
  <2> SUFFICES ASSUME BlockIInv', ~overlapped', AllFree'
               PROVE  DebtDecides'
               /\ account'.balance \in Int
    BY DEF OverLimitIsBlocked, ClearedIsReleased, DebtDecides
  <2> QED
    BY DEF BlockIInv, BlockInForce, AllFree, Free, AccountIInv, AccountTypeOK, Account
<1>4. BlockIInv /\ [MCNext]_<<accountVars, overlapped>>
        => [Follows]_<<accountVars, overlapped>>
  BY <1>2, <1>3, BlockKept DEF Lifts
<1>5. MCSpec => []BlockIInv
  BY <1>1, <1>2, PTL DEF MCSpec
<1> QED
  BY <1>4, <1>5, PTL DEF MCSpec, BlockFollowsDebt
===============================================================================
