-------------------------------- MODULE Payouts --------------------------------
(***************************************************************************)
(* wallet/withdrawal.service.ts and wallet/payout/*: one partner's wallet  *)
(* paid out to a bank. A request first takes what the partner owes in      *)
(* commission, writes a PENDING row, debits the wallet and announces       *)
(* itself; the announcement sends the transfer in the same process, the    *)
(* bank answers at once, later by webhook, both or not at all, and an      *)
(* operator may close the request by hand at any time.                     *)
(*                                                                         *)
(* Every await is a place where another handler may run, so a handler is   *)
(* a job that takes one step per statement that reads or writes. A wallet  *)
(* posting and a commission payment are one step each: WalletLedger and    *)
(* CommissionAccount show that they are all or nothing, once per           *)
(* reference. An amount, the PIN, the limits and the destination are       *)
(* checked before the first step.                                          *)
(***************************************************************************)
EXTENDS Integers, FiniteSets, FiniteSetsExt

CONSTANTS Requests,   \* withdrawal ids and settlement references
          Workers,
          Amounts,    \* amounts a partner may ask for
          Funds,      \* what the wallet holds at first
          Debts,      \* what the partner may owe at first
          MaxCrashes  \* bound: handlers that die half-way or meet an exception

ASSUME ConfigOK ==
  /\ Amounts \subseteq Nat \ {0}
  /\ Funds \in Nat /\ Debts \subseteq Nat /\ MaxCrashes \in Nat

VARIABLES row,       \* the withdrawal requests
          balance,   \* the wallet's spendable balance
          posted,    \* its postings: type and reference
          debt,      \* outstanding commission
          paid,      \* references of the commission payments recorded
          transfer,  \* what the bank did with each request
          unsure,    \* requests for which initiate caught an exception
          heard,     \* webhook notices delivered at least once
          job, crashes

money == <<balance, posted>>
dues  == <<debt, paid>>
bank  == <<transfer, unsure, heard>>
vars  == <<row, money, dues, bank, job, crashes>>

Statuses == {"NONE", "PENDING", "COMPLETED", "FAILED"}
Postings == {"settlement", "withdrawal", "reversal"}
Outcomes == {"SUCCESS", "FAILED"}

\* "operator" stands for processedByUserId; "inTry" for the try block of initiate, which
\* covers the call of the provider and the succeed or fail that follows it.
Row == [status : Statuses, amount : Nat, operator : BOOLEAN]

Idle == [pc |-> "idle"]
Job ==
  {Idle} \union [pc : {"settle", "pay", "row"}, req : Requests, owed : Nat, payable : Nat]
    \union [pc : {"debit", "abandon", "initiate", "send", "answer", "complete", "reject"},
            req : Requests]
    \union [pc : {"succeed", "fail", "refund"}, req : Requests, inTry : BOOLEAN]
    \union [pc : {"guard"}, req : Requests, inTry : BOOLEAN, seen : Statuses]

Become(w, j) == job' = [job EXCEPT ![w] = j]
At(r, pc)    == [pc |-> pc, req |-> r]
Ending(r, pc, inTry) == [pc |-> pc, req |-> r, inTry |-> inTry]

Init ==
  /\ row = [r \in Requests |-> [status |-> "NONE", amount |-> 0, operator |-> FALSE]]
  /\ balance = Funds /\ posted = {}
  /\ debt \in Debts /\ paid = {}
  /\ transfer = [r \in Requests |-> "none"] /\ unsure = {} /\ heard = {}
  /\ job = [w \in Workers |-> Idle]
  /\ crashes = 0

-------------------------------------------------------------------------------
\* Ids and settlement references come from randomUUID: a new one is unused.
Fresh(r) ==
  /\ row[r].status = "NONE" /\ <<"settlement", r>> \notin posted
  /\ \A w \in Workers : job[w] # Idle => job[w].req # r

\* What is owed comes out first, up to the amount asked for.
Taken(amount) == Min({debt, amount})

\* Wallet first, then the commission account.
FirstStep(owed) == IF owed > 0 THEN "settle" ELSE "row"

\* create, up to its first write.
Create(w, r, amount) ==
  /\ job[w] = Idle /\ Fresh(r)
  /\ LET owed == Taken(amount) IN
     Become(w, [pc |-> FirstStep(owed), req |-> r, owed |-> owed,
                payable |-> amount - owed])
  /\ UNCHANGED <<row, money, dues, bank, crashes>>

\* settleCommissionFromWallet: the same two movements without a payout.
SettleFromWallet(w, r, amount) ==
  /\ job[w] = Idle /\ Fresh(r) /\ debt > 0
  /\ LET owed == Taken(amount) IN
     Become(w, [pc |-> FirstStep(owed), req |-> r, owed |-> owed, payable |-> 0])
  /\ UNCHANGED <<row, money, dues, bank, crashes>>

\* debit: refused when the balance does not cover it.
Covers(amount) == balance >= amount
Settle(w) == LET j == job[w] IN
  /\ j.pc = "settle"
  /\ IF Covers(j.owed)
     THEN /\ balance' = balance - j.owed
          /\ posted' = posted \union {<<"settlement", j.req>>}
          /\ Become(w, [j EXCEPT !.pc = "pay"])
     ELSE Become(w, Idle) /\ UNCHANGED money
  /\ UNCHANGED <<row, dues, bank, crashes>>

\* recordPayment: refused when it exceeds the debt.
Pay(w) == LET j == job[w] IN
  /\ j.pc = "pay"
  /\ IF debt >= j.owed
     THEN /\ debt' = debt - j.owed
          /\ paid' = paid \union {j.req}
          /\ Become(w, IF j.payable = 0 THEN Idle ELSE [j EXCEPT !.pc = "row"])
     ELSE Become(w, Idle) /\ UNCHANGED dues
  /\ UNCHANGED <<row, money, bank, crashes>>

AfterRowAnnounced == "initiate"  \* mutant: announced before it is debited
AfterRow == "debit"
CreateRow(w) == LET j == job[w] IN
  /\ j.pc = "row"
  /\ row' = [row EXCEPT ![j.req] = [status |-> "PENDING", amount |-> j.payable,
                                    operator |-> FALSE]]
  /\ Become(w, At(j.req, AfterRow))
  /\ UNCHANGED <<money, dues, bank, crashes>>

\* A statement throws, before or after what it writes is committed.
Fault == crashes < MaxCrashes /\ crashes' = crashes + 1

\* The debit and, once it is posted, the event that starts the transfer. create
\* catches whatever the debit throws: a refusal, or a fault on either side of the
\* posting, and marks the request FAILED in each case.
Withdraw(w) == LET r == job[w].req IN
  /\ job[w].pc = "debit"
  /\ \/ /\ Covers(row[r].amount)
        /\ balance' = balance - row[r].amount
        /\ posted' = posted \union {<<"withdrawal", r>>}
        /\ \/ Become(w, At(r, "initiate")) /\ UNCHANGED crashes
           \/ Become(w, At(r, "abandon")) /\ Fault
     \/ /\ Become(w, At(r, "abandon")) /\ UNCHANGED money
        /\ IF Covers(row[r].amount) THEN Fault ELSE UNCHANGED crashes
  /\ UNCHANGED <<row, dues, bank>>

Abandon(w) == LET r == job[w].req IN
  /\ job[w].pc = "abandon"
  /\ row' = [row EXCEPT ![r].status = "FAILED"]
  /\ Become(w, Idle)
  /\ UNCHANGED <<money, dues, bank, crashes>>

-------------------------------------------------------------------------------
\* initiate: the destination may be gone, unconfirmed or without a provider.
Initiate(w) == LET r == job[w].req IN
  /\ job[w].pc = "initiate"
  /\ IF row[r].status = "PENDING"
     THEN \E j \in {At(r, "send"), Ending(r, "fail", FALSE)} : Become(w, j)
     ELSE Become(w, Idle)
  /\ UNCHANGED <<row, money, dues, bank, crashes>>

\* The call of the provider reaches the bank, or does not.
Send(w) == LET r == job[w].req IN
  /\ job[w].pc = "send"
  /\ \E t \in {"none", "sent"} : transfer' = [transfer EXCEPT ![r] = t]
  /\ Become(w, At(r, "answer"))
  /\ UNCHANGED <<row, money, dues, unsure, heard, crashes>>

\* What the bank may report of a request; a report may be late or repeated. An
\* unknown or pending status is no report (mapStatus).
Reports(r) ==
  CASE transfer[r] = "paid"     -> {"SUCCESS"}
    [] transfer[r] = "returned" -> {"SUCCESS", "FAILED"}
    [] transfer[r] = "refused"  -> {"FAILED"}
    [] OTHER                    -> {}

On(says) == IF says = "SUCCESS" THEN "succeed" ELSE "fail"

\* The answer, or an exception: a rejection, a timeout, a broken connection.
Answer(w) == LET r == job[w].req IN
  /\ job[w].pc = "answer"
  /\ \/ /\ \E says \in Reports(r) : Become(w, Ending(r, On(says), TRUE))
        /\ UNCHANGED unsure
     \/ /\ transfer[r] # "none"
        /\ Become(w, Idle)
        /\ UNCHANGED unsure
     \/ /\ unsure' = unsure \union {r}
        /\ Become(w, Ending(r, "fail", FALSE))
  /\ UNCHANGED <<row, money, dues, transfer, heard, crashes>>

\* What a success and a failure may still change.
Completable == {"PENDING"}
FailableOnlyPaid == {"COMPLETED"}  \* mutant: every failure is taken for a return
Failable == {"PENDING", "COMPLETED"}

\* processProviderResult, for a webhook delivered once or again.
Notify(w, r, says) ==
  /\ job[w] = Idle /\ says \in Reports(r)
  /\ LET open == IF says = "SUCCESS" THEN Completable ELSE Failable IN
     Become(w, IF row[r].status \in open THEN Ending(r, On(says), FALSE) ELSE Idle)
  /\ heard' = heard \union {<<r, says>>}
  /\ UNCHANGED <<row, money, dues, transfer, unsure, crashes>>

StillAlways(r, seen) == TRUE  \* mutant: updated by id alone
Still(r, seen) == row[r].status = seen

\* What succeed or fail throws under initiate is caught there, and taken for a failed
\* payout: even what follows a SUCCESS of the bank. In any other handler it is a Crash.
Throws(w) == LET r == job[w].req IN
  /\ job[w].inTry /\ Fault
  /\ unsure' = unsure \union {r}
  /\ Become(w, Ending(r, "fail", FALSE))

Caught(w) ==
  /\ job[w].pc \in {"succeed", "fail", "guard", "refund"}
  /\ Throws(w)
  /\ UNCHANGED <<row, money, dues, transfer, heard>>

\* The last write of a handler: it returns, or throws although the write is committed.
Returns(w) ==
  \/ Become(w, Idle) /\ UNCHANGED <<unsure, crashes>>
  \/ Throws(w)

\* succeed
Succeed(w) == LET r == job[w].req IN
  /\ job[w].pc = "succeed"
  /\ row' = IF Still(r, "PENDING") THEN [row EXCEPT ![r].status = "COMPLETED"]
            ELSE row
  /\ Returns(w)
  /\ UNCHANGED <<money, dues, transfer, heard>>

\* fail: a read, a guarded update, and a credit of its own.
FailRead(w) == LET r == job[w].req IN
  /\ job[w].pc = "fail"
  /\ Become(w, IF row[r].status \in Failable
               THEN [pc |-> "guard", req |-> r, inTry |-> job[w].inTry,
                     seen |-> row[r].status]
               ELSE Idle)
  /\ UNCHANGED <<row, money, dues, bank, crashes>>

FailWrite(w) == LET j == job[w] IN
  /\ j.pc = "guard"
  /\ IF Still(j.req, j.seen)
     THEN /\ row' = [row EXCEPT ![j.req].status = "FAILED"]
          /\ Become(w, Ending(j.req, "refund", j.inTry))
     ELSE Become(w, Idle) /\ UNCHANGED row
  /\ UNCHANGED <<money, dues, bank, crashes>>

Refund(w) == LET r == job[w].req IN
  /\ job[w].pc = "refund"
  /\ IF <<"reversal", r>> \in posted THEN UNCHANGED money
     ELSE /\ balance' = balance + row[r].amount
          /\ posted' = posted \union {<<"reversal", r>>}
  /\ Returns(w)
  /\ UNCHANGED <<row, dues, transfer, heard>>

-------------------------------------------------------------------------------
\* adminComplete and adminFail: the status is read, then written by id alone.
AdminComplete(w, r) ==
  /\ job[w] = Idle /\ row[r].status = "PENDING"
  /\ Become(w, At(r, "complete"))
  /\ UNCHANGED <<row, money, dues, bank, crashes>>

AdminFail(w, r) ==
  /\ job[w] = Idle /\ row[r].status = "PENDING"
  /\ Become(w, At(r, "reject"))
  /\ UNCHANGED <<row, money, dues, bank, crashes>>

Close(r, status) == row' = [row EXCEPT ![r].status = status, ![r].operator = TRUE]

Complete(w) == LET r == job[w].req IN
  /\ job[w].pc = "complete"
  /\ Close(r, "COMPLETED")
  /\ Become(w, Idle)
  /\ UNCHANGED <<money, dues, bank, crashes>>

AfterRejectNothing(r) == Idle  \* mutant: the failed request is not refunded
AfterReject(r) == Ending(r, "refund", FALSE)
Reject(w) == LET r == job[w].req IN
  /\ job[w].pc = "reject"
  /\ Close(r, "FAILED")
  /\ Become(w, AfterReject(r))
  /\ UNCHANGED <<money, dues, bank, crashes>>

\* The bank pays or refuses what it was sent, and may return what it paid.
BankDecides(r) ==
  /\ \/ /\ transfer[r] = "sent"
        /\ \E t \in {"paid", "refused"} : transfer' = [transfer EXCEPT ![r] = t]
     \/ /\ transfer[r] = "paid"
        /\ transfer' = [transfer EXCEPT ![r] = "returned"]
  /\ UNCHANGED <<row, money, dues, unsure, heard, job, crashes>>

\* The process ends between two awaits, or a statement throws that nothing catches.
Crash(w) ==
  /\ job[w] # Idle /\ Fault
  /\ Become(w, Idle)
  /\ UNCHANGED <<row, money, dues, bank>>

Step(w) ==
  \/ Settle(w) \/ Pay(w) \/ CreateRow(w) \/ Withdraw(w) \/ Abandon(w)
  \/ Initiate(w) \/ Send(w) \/ Answer(w)
  \/ Succeed(w) \/ FailRead(w) \/ FailWrite(w) \/ Refund(w) \/ Caught(w)
  \/ Complete(w) \/ Reject(w)

Next ==
  \/ \E w \in Workers :
       \/ \E r \in Requests :
            \/ \E a \in Amounts : Create(w, r, a) \/ SettleFromWallet(w, r, a)
            \/ \E says \in Outcomes : Notify(w, r, says)
            \/ AdminComplete(w, r) \/ AdminFail(w, r)
       \/ Step(w) \/ Crash(w)
  \/ \E r \in Requests : BankDecides(r)

Spec == Init /\ [][Next]_vars

-------------------------------------------------------------------------------
\* Rows, balances and handlers have their types: no balance, debt or payable
\* amount is negative.
TypeOK ==
  /\ row \in [Requests -> Row]
  /\ balance \in Nat /\ posted \subseteq Postings \X Requests
  /\ debt \in Nat /\ paid \subseteq Requests
  /\ transfer \in [Requests -> {"none", "sent", "paid", "refused", "returned"}]
  /\ unsure \subseteq Requests /\ heard \subseteq Requests \X Outcomes
  /\ job \in [Workers -> Job]
  /\ crashes \in 0..MaxCrashes

Debited(r)  == <<"withdrawal", r>> \in posted
Refunded(r) == <<"reversal", r>> \in posted

\* Money leaves only after it was taken. "A failure to record the payment cannot
\* leave a partner credited for money that never left their balance": a commission
\* payment has its debit. "Prevents a customer from spending the same naira twice":
\* the bank is asked only for money that left the wallet before.
SentIsFunded == \A r \in Requests :
  /\ r \in paid => <<"settlement", r>> \in posted
  /\ transfer[r] # "none" => Debited(r)

\* Unless an operator closed the request, what is refunded was debited, the row
\* says FAILED for good, and a transfer the bank paid is refunded only if initiate
\* caught an exception, of the provider's call or of what it did with the answer (the
\* code then refunds even after a SUCCESS). Reports of the bank, in any order and
\* number, and handlers that overlap or die do not refund what was paid.
RefundIsDue == \A r \in Requests :
  Refunded(r) /\ ~row[r].operator =>
    /\ Debited(r) /\ row[r].status = "FAILED"
    /\ transfer[r] = "paid" => r \in unsure

\* COMPLETED without an operator means that the bank did pay. When no handler died or
\* met an exception and none is in flight, a FAILED request has given the money back, and every
\* other one has taken it and not given it back unless an operator's decision
\* overtook another's.
Quiet == \A w \in Workers : job[w] = Idle
Unharmed == crashes = 0 /\ Quiet
StatusIsMoney == \A r \in Requests :
  /\ row[r].status = "COMPLETED" /\ ~row[r].operator => transfer[r] \in {"paid", "returned"}
  /\ Unharmed /\ row[r].status = "FAILED" /\ Debited(r) => Refunded(r)
  /\ Unharmed /\ row[r].status \in {"PENDING", "COMPLETED"} /\ ~row[r].operator =>
       Debited(r) /\ ~Refunded(r)

\* What the bank has told is not lost, although the notice may come while another
\* handler works on the request: when no handler died or met an exception and none is
\* in flight, a refused transfer whose refusal was delivered is refunded, and a request
\* whose success was delivered no longer waits. (A transfer returned while the notice of its success is
\* still worked on is not covered: its refund is refused for good.)
NoticeIsHeeded == \A r \in Requests : Unharmed /\ ~row[r].operator =>
  /\ <<r, "FAILED">> \in heard /\ transfer[r] = "refused" => Refunded(r)
  /\ <<r, "SUCCESS">> \in heard => row[r].status # "PENDING"

===============================================================================
