-------------------------------- MODULE Utilities --------------------------------
(***************************************************************************)
(* utilities/utilities.service.ts and the payment sweep: a customer buys   *)
(* airtime or electricity with the wallet or by card. The money is taken   *)
(* first and the provider asked afterwards; it takes no idempotency key    *)
(* and tells nobody later what it did, so a purchase it did not answer     *)
(* stays PENDING until an operator gives a verdict.                        *)
(*                                                                         *)
(* A paid card purchase is taken up by whoever comes first: the customer   *)
(* on the way back, the webhook of the gateway, the sweep or the operator. *)
(* All of them read the row, ask the gateway and claim the row under a     *)
(* guard; every later write is by id alone. A handler is job[w] of the     *)
(* worker w that runs it and takes one step per statement.                 *)
(***************************************************************************)
EXTENDS Integers, FiniteSets

CONSTANTS Purchases, Workers,
          MaxCrashes  \* bound: handlers that die half-way

ASSUME UtilitiesConfig == MaxCrashes \in Nat

VARIABLES row,       \* the purchase rows
          taken,     \* purchases whose money is in: debited, or charged at the gateway
          refunded,  \* purchases with the reversal in the wallet's ledger
          provider,  \* what became of each purchase at the provider
          calls,     \* history: how often the provider was asked for it
          judged,    \* history: purchases an operator gave a verdict on
          contested, \* history: ... which were PENDING because they were in flight
          denied,    \* history: purchases the provider answered FAILED
          early,     \* history: ... before it had decided, or after it delivered
          job, crashes

ledger  == <<taken, refunded>>
answers == <<denied, early>>
history == <<calls, judged, contested, answers>>
vars    == <<row, ledger, provider, history, job, crashes>>

Statuses == {"NONE", "AWAITING_PAYMENT", "PENDING", "SUCCESSFUL", "REVERSED"}

\* "due": past the grace of the sweep; "old": past what it looks back to.
Row == [status : Statuses, card : BOOLEAN, age : {"fresh", "due", "old"}]
NoRow == [status |-> "NONE", card |-> FALSE, age |-> "fresh"]

\* What a handler is at: the statement, what it is for, and the rest of the sweep.
Verdicts == {"SUCCESSFUL", "REVERSED"}
Idle == [pc |-> "idle"]
SweepJob == [pc : {"sweep"}, todo : SUBSET Purchases]
After == {Idle} \union SweepJob
Buying == {"debit", "ask", "answer"}
Closing == {"succeed", "reverse", "reversed"}
Task == [pc : {"verify", "claim"} \union Buying \union Closing, id : Purchases,
         plan : {"buy"} \union Verdicts, then : After]
Job == After \union Task

Become(w, j) == job' = [job EXCEPT ![w] = j]
GoTo(w, pc) == Become(w, [job[w] EXCEPT !.pc = pc])
Done(w) == Become(w, job[w].then)
SetStatus(p, status) == row' = [row EXCEPT ![p].status = status]

Init ==
  /\ row = [p \in Purchases |-> NoRow]
  /\ taken = {} /\ refunded = {}
  /\ provider = [p \in Purchases |-> "none"]
  /\ calls = [p \in Purchases |-> 0] /\ judged = {} /\ contested = {}
  /\ denied = {} /\ early = {}
  /\ job = [w \in Workers |-> Idle] /\ crashes = 0

-------------------------------------------------------------------------------
\* initiatePurchase: by card the row waits for the gateway; from the wallet it is
\* PENDING before the debit, which may be refused.
BuyByCard(w, p) ==
  /\ job[w] = Idle /\ row[p] = NoRow
  /\ row' = [row EXCEPT ![p] = [NoRow EXCEPT !.status = "AWAITING_PAYMENT", !.card = TRUE]]
  /\ UNCHANGED <<ledger, provider, history, job, crashes>>

BuyFromWallet(w, p) ==
  /\ job[w] = Idle /\ row[p] = NoRow
  /\ SetStatus(p, "PENDING")
  /\ Become(w, [pc |-> "debit", id |-> p, plan |-> "buy", then |-> Idle])
  /\ UNCHANGED <<ledger, provider, history, crashes>>

AfterRefusalAsk(w) == GoTo(w, "ask")  \* mutant: the refusal is swallowed
AfterRefusal(w) == Done(w)
Debit(w) ==
  /\ job[w].pc = "debit"
  /\ \/ taken' = taken \union {job[w].id} /\ GoTo(w, "ask")
     \/ AfterRefusal(w) /\ UNCHANGED taken
  /\ UNCHANGED <<row, refunded, provider, history, crashes>>

\* The customer pays on the page of the gateway.
CustomerPays(p) ==
  /\ row[p].card /\ p \notin taken
  /\ taken' = taken \union {p}
  /\ UNCHANGED <<row, refunded, provider, history, job, crashes>>

-------------------------------------------------------------------------------
\* confirmCardPurchase, called by the customer, by the webhook and by the sweep.
Verifying(p, plan, then) == [pc |-> "verify", id |-> p, plan |-> plan, then |-> then]
Confirm(w, p) ==
  /\ job[w] = Idle /\ row[p].status = "AWAITING_PAYMENT"
  /\ Become(w, Verifying(p, "buy", Idle))
  /\ UNCHANGED <<row, ledger, provider, history, crashes>>

\* runSweep: a list (fewer than UTILITY_PAYMENT_SWEEP_BATCH are due), one after another.
\* What a confirmation throws is caught.
InSweep(j) == j.pc = "sweep" \/ (j.pc \notin {"idle", "sweep"} /\ j.then # Idle)
SweptYoung(p) == row[p].status = "AWAITING_PAYMENT" /\ row[p].age = "fresh"  \* mutant
Swept(p) == row[p].status = "AWAITING_PAYMENT" /\ row[p].age = "due"
BeginSweep(w) ==
  /\ job[w] = Idle /\ \A v \in Workers : ~InSweep(job[v])
  /\ \E p \in Purchases : Swept(p)
  /\ Become(w, [pc |-> "sweep", todo |-> {p \in Purchases : Swept(p)}])
  /\ UNCHANGED <<row, ledger, provider, history, crashes>>

SweepNext(w) == LET j == job[w] IN
  /\ j.pc = "sweep"
  /\ \/ \E p \in j.todo : LET rest == [j EXCEPT !.todo = @ \ {p}] IN
          Become(w, IF row[p].status = "AWAITING_PAYMENT" THEN Verifying(p, "buy", rest) ELSE rest)
     \/ j.todo = {} /\ Become(w, Idle)
  /\ UNCHANGED <<row, ledger, provider, history, crashes>>

\* verifyPayment of the gateway.
PaidAtGateway(p) == p \in taken
Verify(w) ==
  /\ job[w].pc = "verify"
  /\ IF PaidAtGateway(job[w].id) THEN GoTo(w, "claim") ELSE Done(w)
  /\ UNCHANGED <<row, ledger, provider, history, crashes>>

\* The claim of confirmCardPurchase and of resolvePendingPurchase.
ClaimableAlways(p) == TRUE  \* mutant: updated by id alone
Claimable(p) == row[p].status = "AWAITING_PAYMENT"
On(plan) == CASE plan = "buy" -> "ask" [] plan = "REVERSED" -> "reverse" [] OTHER -> "succeed"
Claim(w) == LET j == job[w] IN
  /\ j.pc = "claim"
  /\ \/ /\ Claimable(j.id)
        /\ SetStatus(j.id, "PENDING") /\ GoTo(w, On(j.plan))
        /\ judged' = IF j.plan = "buy" THEN judged ELSE judged \union {j.id}
     \/ ~Claimable(j.id) /\ Done(w) /\ UNCHANGED <<row, judged>>
  /\ UNCHANGED <<ledger, provider, calls, contested, answers, crashes>>

-------------------------------------------------------------------------------
\* fulfil. The request goes out, unless it fails before.
Ask(w) == LET p == job[w].id IN
  /\ job[w].pc = "ask"
  /\ \/ provider' = [provider EXCEPT ![p] = "asked"]
     \/ UNCHANGED provider
  /\ calls' = [calls EXCEPT ![p] = @ + 1]
  /\ GoTo(w, "answer")
  /\ UNCHANGED <<row, ledger, judged, contested, answers, crashes>>

\* The provider delivers or refuses, in time for its answer or later.
ProviderDecides(p) ==
  /\ provider[p] = "asked"
  /\ \E d \in {"delivered", "refused"} : provider' = [provider EXCEPT ![p] = d]
  /\ UNCHANGED <<row, ledger, history, job, crashes>>

\* PeyflexProvider.purchase. SUCCESS is taken at its word. Every other word is FAILED,
\* in the body of an error too: it may be a refusal, but also one such as PENDING for what
\* is delivered later. No word at all (a timeout, a server error, an answer that cannot be
\* read) is UNKNOWN. What is thrown before the request goes out may be FAILED as well.
Answers(p) ==
  {"UNKNOWN", "FAILED"} \union IF provider[p] = "delivered" THEN {"SUCCESS"} ELSE {}
OnAnswerTwoValued(says) == IF says = "SUCCESS" THEN "succeed" ELSE "reverse"  \* mutant
OnAnswer(says) ==
  CASE says = "SUCCESS" -> "succeed" [] says = "FAILED" -> "reverse" [] OTHER -> "leave"
Answer(w) == LET p == job[w].id IN
  /\ job[w].pc = "answer"
  /\ \E says \in Answers(p) :
       /\ IF OnAnswer(says) = "leave" THEN Done(w) ELSE GoTo(w, OnAnswer(says))
       /\ denied' = IF says = "FAILED" THEN denied \union {p} ELSE denied
       /\ early' = IF says = "FAILED" /\ provider[p] \in {"asked", "delivered"}
                  THEN early \union {p} ELSE early
  /\ UNCHANGED <<row, ledger, provider, calls, judged, contested, crashes>>

Succeed(w) ==
  /\ job[w].pc = "succeed"
  /\ SetStatus(job[w].id, "SUCCESSFUL") /\ Done(w)
  /\ UNCHANGED <<ledger, provider, history, crashes>>

\* reverse: the credit, posted once under its reference, and then the row.
Refund(w) ==
  /\ job[w].pc = "reverse"
  /\ refunded' = refunded \union {job[w].id}
  /\ GoTo(w, "reversed")
  /\ UNCHANGED <<row, taken, provider, history, crashes>>

Reversed(w) ==
  /\ job[w].pc = "reversed"
  /\ SetStatus(job[w].id, "REVERSED") /\ Done(w)
  /\ UNCHANGED <<ledger, provider, history, crashes>>

-------------------------------------------------------------------------------
\* resolvePendingPurchase: an operator's word on a purchase that is stuck.
\* PENDING, but not stuck: a handler works on it, or died between refund and row.
WorksOn(v, p) == job[v].pc \in Buying \union Closing /\ job[v].id = p
InFlight(p) == (\E v \in Workers : WorksOn(v, p)) \/ p \in refunded
Resolve(w, p, verdict) ==
  /\ job[w] = Idle
  /\ \/ /\ row[p].status = "AWAITING_PAYMENT"
        /\ Become(w, Verifying(p, verdict, Idle))
        /\ UNCHANGED <<judged, contested>>
     \/ /\ row[p].status = "PENDING"
        /\ Become(w, [pc |-> On(verdict), id |-> p, plan |-> verdict, then |-> Idle])
        /\ judged' = judged \union {p}
        /\ contested' = IF InFlight(p) THEN contested \union {p} ELSE contested
  /\ UNCHANGED <<row, ledger, provider, calls, answers, crashes>>

\* UTILITY_PAYMENT_SWEEP_GRACE_MS and UTILITY_PAYMENT_SWEEP_MAX_AGE_MS go by; later nobody
\* asks for the age of a row.
Ages(p, from, to) ==
  /\ row[p].status = "AWAITING_PAYMENT" /\ row[p].age = from
  /\ row' = [row EXCEPT ![p].age = to]
  /\ UNCHANGED <<ledger, provider, history, job, crashes>>

\* The process ends, or a statement throws; the sweep catches what a confirmation throws.
Crash(w) ==
  /\ job[w] # Idle /\ crashes < MaxCrashes
  /\ crashes' = crashes + 1
  /\ Become(w, Idle) \/ (job[w] \in Task /\ Done(w))
  /\ UNCHANGED <<row, ledger, provider, history>>

Step(w) ==
  \/ Debit(w) \/ SweepNext(w) \/ Verify(w) \/ Claim(w) \/ Ask(w) \/ Answer(w)
  \/ Succeed(w) \/ Refund(w) \/ Reversed(w)

Next ==
  \/ \E w \in Workers :
       \/ \E p \in Purchases :
            \/ BuyByCard(w, p) \/ BuyFromWallet(w, p) \/ Confirm(w, p)
            \/ \E verdict \in Verdicts : Resolve(w, p, verdict)
       \/ BeginSweep(w) \/ Step(w) \/ Crash(w)
  \/ \E p \in Purchases :
       \/ CustomerPays(p) \/ ProviderDecides(p)
       \/ Ages(p, "fresh", "due") \/ Ages(p, "due", "old")

Spec == Init /\ [][Next]_vars

\* A handler that started goes on, the grace goes by, and the timer of the sweep fires
\* again and again whatever requests keep the workers busy. Nobody has to come back, no
\* webhook has to arrive, the provider need not answer and no operator has to look.
Sweep == \E w \in Workers : BeginSweep(w)
LiveSpec ==
  /\ Spec
  /\ \A w \in Workers : WF_vars(Step(w))
  /\ \A p \in Purchases : WF_vars(Ages(p, "fresh", "due"))
  /\ SF_vars(Sweep)

-------------------------------------------------------------------------------
\* Rows, ledger and handlers have their types.
TypeOK ==
  /\ row \in [Purchases -> Row]
  /\ taken \subseteq Purchases /\ refunded \subseteq Purchases
  /\ provider \in [Purchases -> {"none", "asked", "delivered", "refused"}]
  /\ calls \in [Purchases -> Nat] /\ judged \subseteq Purchases /\ contested \subseteq Purchases
  /\ denied \subseteq Purchases /\ early \subseteq Purchases
  /\ job \in [Workers -> Job] /\ crashes \in 0..MaxCrashes

\* "Debit first, provider second", and "a purchase already past AWAITING_PAYMENT is
\* returned as it stands rather than bought a second time": whoever confirms, and
\* however often, the provider is asked at most once, for money that is in.
BoughtOnce == \A p \in Purchases :
  /\ calls[p] <= 1
  /\ calls[p] = 1 => p \in taken

\* "A provider UNKNOWN is never reversed": what no operator judged is refunded only if the
\* money was in and the provider said FAILED; if it had decided by then, it has not
\* delivered and never will. (A FAILED that came early is refunded too and may be delivered
\* all the same: to this code every word but SUCCESS is final.) It is SUCCESSFUL only if the
\* provider delivered. "The gateway is asked before an AWAITING_PAYMENT row can be touched":
\* of card purchases even an operator refunds only what was charged.
RefundHasGround == \A p \in Purchases :
  /\ p \in refunded /\ p \notin judged =>
       /\ p \in taken /\ p \in denied
       /\ p \notin early => provider[p] \in {"none", "refused"}
  /\ p \in refunded /\ row[p].card => p \in taken
  /\ row[p].status = "SUCCESSFUL" /\ p \notin judged => provider[p] = "delivered"

\* "SUCCESSFUL and REVERSED have already had their money moved": a REVERSED row was
\* refunded and a SUCCESSFUL one was not, although the operator, the webhook, the customer and the sweep may
\* all be after it; unless an operator took a purchase that was still being worked on
\* for one that is stuck, since both are PENDING.
OneVerdict == \A p \in Purchases :
  /\ row[p].status = "REVERSED" => p \in refunded
  /\ p \notin contested => ~(row[p].status = "SUCCESSFUL" /\ p \in refunded)

\* What was paid by card does not stay AWAITING_PAYMENT although nobody comes back, no
\* webhook arrives and handlers die: the sweep takes it up before it is too old for it.
PaidMovesOn == \A p \in Purchases :
  row[p].card /\ p \in taken ~> row[p].status # "AWAITING_PAYMENT" \/ row[p].age = "old"

===============================================================================
