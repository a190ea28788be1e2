----------------------------- MODULE UtilityProofs -----------------------------
(***************************************************************************)
(* For any number of purchases, handlers and crashes: the provider is      *)
(* asked at most once and for money that is in, fulfil refunds only on a   *)
(* FAILED, and a purchase that no operator met in flight has one verdict.  *)
(*                                                                         *)
(* Nothing relates two purchases, so the invariant is stated of one: what  *)
(* nobody has claimed nobody has touched (Untouched), what a handler takes *)
(* for granted about its purchase holds (Knows), one handler at most is on *)
(* its way to the provider (OneBuyer), and as long as no operator overtook *)
(* it, one at most works on the purchase at all, which is PENDING          *)
(* (OneWorker).                                                            *)
(***************************************************************************)
EXTENDS Utilities, TLAPS

About(v, p) == job[v].pc \notin {"idle", "sweep"} /\ job[v].id = p
Started(p) == row[p].status \notin {"NONE", "AWAITING_PAYMENT"}

\* Why fulfil refunds, and what then stays true.
Ground(p) ==
  /\ p \in taken /\ calls[p] = 1 /\ p \in denied
  /\ p \notin early => provider[p] \in {"none", "refused"}

Untouched(p) ==
  /\ ~Started(p) =>
       /\ calls[p] = 0 /\ provider[p] = "none"
       /\ p \notin refunded /\ p \notin judged /\ p \notin contested
       /\ \A v \in Workers : ~WorksOn(v, p)
  /\ row[p].status = "NONE" => ~row[p].card /\ \A v \in Workers : ~About(v, p)
  /\ row[p].status = "AWAITING_PAYMENT" => row[p].card
  /\ Started(p) /\ row[p].card => p \in taken

Knows(v, p) == About(v, p) =>
  /\ job[v].pc \in {"verify", "claim"} => row[p].card
  /\ job[v].pc = "claim" => p \in taken
  /\ job[v].pc \in {"debit", "ask"} => calls[p] = 0
  /\ job[v].pc = "ask" => p \in taken
  /\ job[v].pc = "answer" => calls[p] = 1
  /\ job[v].pc = "succeed" => p \in judged \/ provider[p] = "delivered"
  /\ job[v].pc = "reverse" => p \in judged \/ Ground(p)
  /\ job[v].pc = "reversed" => p \in refunded

OneBuyer(p) == \A v, w \in Workers :
  About(v, p) /\ About(w, p) /\ job[v].pc \in Buying /\ job[w].pc \in Buying => v = w

OneWorker(p) == p \notin contested =>
  /\ \A v, w \in Workers : WorksOn(v, p) /\ WorksOn(w, p) => v = w
  /\ \A v \in Workers : WorksOn(v, p) =>
       row[p].status = "PENDING" /\ (job[v].pc # "reversed" => p \notin refunded)

Fair(p) ==
  /\ calls[p] <= 1 /\ (calls[p] = 1 => p \in taken) /\ (calls[p] = 0 => provider[p] = "none")
  /\ p \in refunded /\ p \notin judged => Ground(p)
  /\ row[p].status = "SUCCESSFUL" /\ p \notin judged => provider[p] = "delivered"
  /\ row[p].status = "REVERSED" => p \in refunded
  /\ p \notin contested => ~(row[p].status = "SUCCESSFUL" /\ p \in refunded)

Good(p) ==
  Untouched(p) /\ (\A v \in Workers : Knows(v, p)) /\ OneBuyer(p) /\ OneWorker(p) /\ Fair(p)
IInv == TypeOK /\ \A p \in Purchases : Good(p)

-------------------------------------------------------------------------------
\* A handler's program counter tells the shape of its record.
LEMMA JobShape ==
  ASSUME NEW j \in Job
  PROVE  /\ j.pc \notin {"idle", "sweep"} => j \in Task
         /\ j.pc = "sweep" => j \in SweepJob
         /\ j.pc = "idle" => j = Idle
BY DEF Job, After, SweepJob, Task, Idle, Buying, Closing

LEMMA AfterShape ==
  ASSUME NEW j \in After
  PROVE  j \in Job /\ j.pc \in {"idle", "sweep"}
BY DEF Job, After, SweepJob, Idle

\* A handler at pc on its purchase.
LEMMA NextShape ==
  ASSUME NEW j \in Task, NEW pc \in {"verify", "claim"} \union Buying \union Closing
  PROVE  LET k == [j EXCEPT !.pc = pc]
         IN  k \in Job /\ k.pc = pc /\ k.id = j.id /\ k.plan = j.plan
BY DEF Job, Task

LEMMA InitIInv == Init => IInv
<1> SUFFICES ASSUME Init PROVE IInv
  OBVIOUS
<1>1. \A v \in Workers : job[v] = Idle /\ job[v].pc = "idle"
  BY DEF Init, Idle
<1>2. TypeOK
  <2>1. NoRow \in Row /\ Idle \in Job /\ 0 \in 0..MaxCrashes
    BY UtilitiesConfig DEF NoRow, Row, Statuses, Job, After
  <2> QED
    BY <2>1 DEF Init, TypeOK
<1>3. ASSUME NEW p \in Purchases PROVE Good(p)
  <2>1. row[p].status = "NONE" /\ ~row[p].card
    BY DEF Init, NoRow
  <2>2. \A v \in Workers : ~About(v, p) /\ ~WorksOn(v, p)
    BY <1>1 DEF About, WorksOn, Buying, Closing
  <2> QED
    BY <2>1, <2>2 DEF Init, Good, Untouched, Started, Knows, OneBuyer, OneWorker, Fair
<1> QED
  BY <1>2, <1>3 DEF IInv

-------------------------------------------------------------------------------
\* What a step leaves alone stays good: no handler comes to the purchase that was not
\* there, and what changes is at most that it is paid for.
LEMMA Elsewhere ==
  ASSUME NEW p \in Purchases, Good(p),
         row'[p].status = row[p].status, row'[p].card = row[p].card,
         p \in taken => p \in taken', p \in refunded' <=> p \in refunded,
         provider'[p] = provider[p], calls'[p] = calls[p],
         p \in judged' <=> p \in judged, p \in contested' <=> p \in contested,
         p \in denied' <=> p \in denied, p \in early' <=> p \in early,
         \A v \in Workers : job'[v] = job[v] \/ ~About(v, p)'
  PROVE  Good(p)'
<1>1. \A v \in Workers : (About(v, p)' => job'[v] = job[v] /\ About(v, p))
                          /\ (WorksOn(v, p)' => job'[v] = job[v] /\ WorksOn(v, p))
  BY DEF About, WorksOn, Buying, Closing
<1>2. (Started(p)' <=> Started(p)) /\ (Ground(p) => Ground(p)')
  BY DEF Started, Ground
<1>3. Untouched(p)'
  BY <1>1, <1>2 DEF Good, Untouched
<1>4. \A v \in Workers : Knows(v, p)'
  BY <1>1, <1>2 DEF Good, Knows
<1>5. OneBuyer(p)' /\ OneWorker(p)'
  BY <1>1 DEF Good, OneBuyer, OneWorker
<1>6. Fair(p)'
  BY <1>2 DEF Good, Fair
<1> QED
  BY <1>3, <1>4, <1>5, <1>6 DEF Good

\* The handler w, at work on p, goes on to another statement or is done.
LEMMA StepShape ==
  ASSUME TypeOK, NEW w \in Workers, job[w].pc \notin {"idle", "sweep"},
         NEW pc \in {"verify", "claim"} \union Buying \union Closing,
         GoTo(w, pc) \/ Done(w)
  PROVE  /\ job[w].id \in Purchases /\ job[w].plan \in {"buy"} \union Verdicts
         /\ job' \in [Workers -> Job]
         /\ \A v \in Workers : v # w => job'[v] = job[v]
         /\ GoTo(w, pc) => /\ job'[w].pc = pc /\ job'[w].id = job[w].id
                           /\ job'[w].plan = job[w].plan
         /\ Done(w) => job'[w].pc \in {"idle", "sweep"}
<1>1. job \in [Workers -> Job] /\ job[w] \in Task
  BY JobShape DEF TypeOK
<1>2. job[w].id \in Purchases /\ job[w].plan \in {"buy"} \union Verdicts /\ job[w].then \in After
  BY <1>1 DEF Task
<1>3. CASE GoTo(w, pc)
  <2> DEFINE k == [job[w] EXCEPT !.pc = pc]
  <2>1. k \in Job /\ k.pc = pc /\ k.id = job[w].id /\ k.plan = job[w].plan
    BY <1>1, NextShape
  <2>2. job' = [job EXCEPT ![w] = k]
    BY <1>3 DEF GoTo, Become
  <2>3. pc \notin {"idle", "sweep"}
    BY DEF Buying, Closing
  <2>4. ~Done(w)
    <3>1. SUFFICES ASSUME Done(w) PROVE FALSE
      OBVIOUS
    <3>2. job'[w] = job[w].then
      BY <3>1, <1>1 DEF Done, Become
    <3> QED
      BY <3>2, <2>1, <2>2, <2>3, <1>1, <1>2, AfterShape
  <2> HIDE DEF k
  <2> QED
    BY <1>1, <1>2, <2>1, <2>2, <2>4
<1>4. CASE Done(w)
  <2>1. job' = [job EXCEPT ![w] = job[w].then]
    BY <1>4 DEF Done, Become
  <2>2. job[w].then \in Job /\ job[w].then.pc \in {"idle", "sweep"}
    BY <1>2, AfterShape
  <2>3. GoTo(w, pc) => FALSE
    <3>1. SUFFICES ASSUME GoTo(w, pc) PROVE FALSE
      OBVIOUS
    <3>2. job'[w] = [job[w] EXCEPT !.pc = pc]
      BY <3>1, <1>1 DEF GoTo, Become
    <3>3. job'[w].pc = pc
      BY <3>2, <1>1, NextShape
    <3> QED
      BY <3>3, <2>1, <2>2, <1>1 DEF Buying, Closing
  <2> QED
    BY <1>1, <1>2, <2>1, <2>2, <2>3
<1> QED
  BY <1>3, <1>4

\* The other purchases when w goes on with p or is done with it.
LEMMA OthersStay ==
  ASSUME IInv, NEW w \in Workers, NEW p \in Purchases,
         \A v \in Workers : v # w => job'[v] = job[v],
         job'[w].pc \in {"idle", "sweep"} \/ job'[w].id = p,
         \A q \in Purchases \ {p} :
           /\ row'[q] = row[q] /\ provider'[q] = provider[q] /\ calls'[q] = calls[q]
           /\ q \in taken' <=> q \in taken
           /\ q \in refunded' <=> q \in refunded
           /\ q \in judged' <=> q \in judged
           /\ q \in contested' <=> q \in contested
           /\ q \in denied' <=> q \in denied
           /\ q \in early' <=> q \in early
  PROVE  \A q \in Purchases \ {p} : Good(q)'
<1> SUFFICES ASSUME NEW q \in Purchases \ {p} PROVE Good(q)'
  OBVIOUS
<1>1. \A v \in Workers : job'[v] = job[v] \/ ~About(v, q)'
  BY DEF About
<1> QED
  BY <1>1, Elsewhere DEF IInv

\* Nothing changes but that a handler leaves its purchase, or takes a list.
LEMMA Leaves ==
  ASSUME IInv, NEW w \in Workers, NEW j \in After, Become(w, j),
         UNCHANGED <<row, ledger, provider, history>>, crashes' \in 0..MaxCrashes
  PROVE  IInv'
<1>1. job \in [Workers -> Job] /\ j \in Job /\ j.pc \in {"idle", "sweep"}
  BY AfterShape DEF IInv, TypeOK
<1>2. TypeOK'
  BY <1>1 DEF IInv, TypeOK, Become, ledger, history, answers
<1>3. \A v \in Workers : job'[v] = job[v] \/ job'[v].pc \in {"idle", "sweep"}
  BY <1>1 DEF Become
<1>4. \A p \in Purchases : Good(p)'
  BY <1>3, Elsewhere DEF IInv, About, ledger, history, answers
<1> QED
  BY <1>2, <1>4 DEF IInv

-------------------------------------------------------------------------------
\* One lemma per action.
LEMMA BuyByCardKeeps ==
  ASSUME IInv, NEW w \in Workers, NEW p \in Purchases, BuyByCard(w, p)
  PROVE  IInv'
<1> USE DEF BuyByCard
<1> DEFINE r == [NoRow EXCEPT !.status = "AWAITING_PAYMENT", !.card = TRUE]
<1>1. r \in Row /\ r.status = "AWAITING_PAYMENT" /\ r.card
  BY DEF Row, NoRow, Statuses
<1>2. row \in [Purchases -> Row] /\ row' = [row EXCEPT ![p] = r] /\ row[p].status = "NONE"
  BY DEF IInv, TypeOK, NoRow
<1> HIDE DEF r
<1>3. TypeOK'
  BY <1>1, <1>2 DEF IInv, TypeOK, ledger, history, answers
<1>4. Good(p)'
  <2>1. Good(p) /\ ~Started(p)
    BY <1>2 DEF IInv, Started
  <2>2. /\ row'[p].status = "AWAITING_PAYMENT" /\ row'[p].card
        /\ \A v \in Workers : ~About(v, p)' /\ ~WorksOn(v, p)'
    BY <2>1, <1>1, <1>2 DEF Good, Untouched, About, WorksOn
  <2> QED
    BY <2>1, <2>2 DEF Good, Untouched, Started, Knows, OneBuyer, OneWorker, Fair,
       ledger, history, answers
<1>5. \A q \in Purchases \ {p} : Good(q)'
  BY <1>2, Elsewhere DEF IInv, ledger, history, answers
<1> QED
  BY <1>3, <1>4, <1>5 DEF IInv

\* A handler that takes up a purchase.
LEMMA TaskShape ==
  ASSUME TypeOK, NEW w \in Workers, NEW p \in Purchases, NEW then \in After,
         NEW pc \in {"verify", "claim"} \union Buying \union Closing,
         NEW plan \in {"buy"} \union Verdicts,
         Become(w, [pc |-> pc, id |-> p, plan |-> plan, then |-> then])
  PROVE  /\ job' \in [Workers -> Job]
         /\ job'[w].pc = pc /\ job'[w].id = p /\ job'[w].plan = plan
         /\ \A v \in Workers : v # w => job'[v] = job[v]
<1> DEFINE k == [pc |-> pc, id |-> p, plan |-> plan, then |-> then]
<1>1. k \in Job /\ k.pc = pc /\ k.id = p /\ k.plan = plan
  BY DEF Job, Task
<1>2. job' = [job EXCEPT ![w] = k] /\ job \in [Workers -> Job]
  BY DEF Become, TypeOK
<1> HIDE DEF k
<1> QED
  BY <1>1, <1>2

LEMMA BuyFromWalletKeeps ==
  ASSUME IInv, NEW w \in Workers, NEW p \in Purchases, BuyFromWallet(w, p)
  PROVE  IInv'
<1> USE DEF BuyFromWallet
<1>1. /\ job' \in [Workers -> Job]
      /\ job'[w].pc = "debit" /\ job'[w].id = p /\ job'[w].plan = "buy"
      /\ \A v \in Workers : v # w => job'[v] = job[v]
  BY TaskShape DEF IInv, After, Buying, Become
<1>2. /\ row \in [Purchases -> Row] /\ row' = [row EXCEPT ![p].status = "PENDING"]
      /\ row[p].status = "NONE"
  BY DEF IInv, TypeOK, NoRow, SetStatus
<1>3. row' \in [Purchases -> Row]
  BY <1>2 DEF Row, Statuses
<1>4. TypeOK'
  BY <1>1, <1>3 DEF IInv, TypeOK, ledger, history, answers
<1>5. row'[p].status = "PENDING" /\ row'[p].card = row[p].card
  BY <1>2 DEF Row
<1>6. Good(p)'
  <2>1. Good(p) /\ ~Started(p) /\ ~row[p].card /\ \A v \in Workers : ~About(v, p) /\ ~WorksOn(v, p)
    BY <1>2 DEF IInv, Good, Untouched, Started
  <2>2. \A v \in Workers : v # w => ~About(v, p)' /\ ~WorksOn(v, p)'
    BY <2>1, <1>1 DEF About, WorksOn
  <2> QED
    BY <2>1, <2>2, <1>1, <1>5 DEF Good, Untouched, Started, Knows, OneBuyer, OneWorker, Fair,
       ledger, history, answers
<1>7. \A q \in Purchases \ {p} : Good(q)'
  BY <1>1, <1>2, OthersStay DEF ledger, history, answers
<1> QED
  BY <1>4, <1>6, <1>7 DEF IInv

\* Facts about the purchase a handler is at.
LEMMA AtWork ==
  ASSUME IInv, NEW w \in Workers, job[w].pc \notin {"idle", "sweep"}
  PROVE  \E p \in Purchases :
           /\ p = job[w].id /\ Good(p) /\ About(w, p) /\ Knows(w, p)
           /\ job[w].plan \in {"buy"} \union Verdicts
           /\ job[w].pc \in Buying \union Closing => WorksOn(w, p) /\ Started(p)
<1>1. job[w].id \in Purchases /\ job[w].plan \in {"buy"} \union Verdicts
  BY JobShape DEF IInv, TypeOK, Task
<1> QED
  BY <1>1 DEF IInv, Good, Untouched, About, WorksOn

\* The other handlers are where they were.
LEMMA OthersWork ==
  ASSUME NEW w \in Workers, NEW p \in Purchases,
         \A v \in Workers : v # w => job'[v] = job[v]
  PROVE  \A v \in Workers : v # w => /\ About(v, p)' <=> About(v, p)
                                     /\ WorksOn(v, p)' <=> WorksOn(v, p)
                                     /\ job'[v].pc = job[v].pc
BY DEF About, WorksOn

LEMMA DebitKeeps ==
  ASSUME IInv, NEW w \in Workers, Debit(w)
  PROVE  IInv'
<1>1. CASE Done(w) /\ UNCHANGED taken
  <2>1. job[w].then \in After
    BY JobShape DEF IInv, TypeOK, Debit, Task
  <2> QED
    BY <1>1, <2>1, Leaves DEF Debit, Done, ledger, IInv, TypeOK
<1>2. CASE taken' = taken \union {job[w].id} /\ GoTo(w, "ask")
  <2> USE DEF Debit
  <2>1. PICK p \in Purchases : /\ p = job[w].id /\ Good(p) /\ About(w, p) /\ Knows(w, p)
                               /\ WorksOn(w, p) /\ Started(p)
    BY AtWork DEF Buying
  <2>2. /\ job' \in [Workers -> Job] /\ job'[w].pc = "ask" /\ job'[w].id = p
        /\ \A v \in Workers : v # w => job'[v] = job[v]
    BY <1>2, <2>1, StepShape DEF IInv, Buying
  <2>3. TypeOK'
    BY <1>2, <2>1, <2>2 DEF IInv, TypeOK, history, answers
  <2>4. Good(p)'
    <3>1. \A v \in Workers : v # w => /\ About(v, p)' <=> About(v, p)
                                      /\ WorksOn(v, p)' <=> WorksOn(v, p)
                                      /\ job'[v].pc = job[v].pc
      BY <2>2, OthersWork
    <3>2. Untouched(p)'
      BY <1>2, <2>1 DEF Good, Untouched, Started, history, answers
    <3>3. \A v \in Workers : Knows(v, p)'
      BY <1>2, <2>1, <2>2, <3>1 DEF Good, Knows, Ground, history, answers
    <3>4. OneBuyer(p)' /\ OneWorker(p)'
      BY <1>2, <2>1, <2>2, <3>1 DEF Good, OneBuyer, OneWorker, history, answers, WorksOn, Buying
    <3>5. Fair(p)'
      BY <1>2, <2>1 DEF Good, Fair, Ground, history, answers
    <3> QED
      BY <3>2, <3>3, <3>4, <3>5 DEF Good
  <2>5. \A q \in Purchases \ {p} : Good(q)'
    BY <1>2, <2>1, <2>2, OthersStay DEF history, answers
  <2> QED
    BY <2>3, <2>4, <2>5 DEF IInv
<1> QED
  BY <1>1, <1>2 DEF Debit, AfterRefusal

LEMMA CustomerPaysKeeps ==
  ASSUME IInv, NEW p \in Purchases, CustomerPays(p)
  PROVE  IInv'
<1> USE DEF CustomerPays
<1>1. TypeOK'
  BY DEF IInv, TypeOK, history, answers
<1>2. \A q \in Purchases : Good(q)'
  BY Elsewhere DEF IInv, history, answers
<1> QED
  BY <1>1, <1>2 DEF IInv

LEMMA AgesKeeps ==
  ASSUME IInv, NEW p \in Purchases, NEW from, NEW to \in {"due", "old"}, Ages(p, from, to)
  PROVE  IInv'
<1> USE DEF Ages
<1>1. /\ row \in [Purchases -> Row] /\ row' = [row EXCEPT ![p].age = to]
      /\ row' \in [Purchases -> Row]
  BY DEF IInv, TypeOK, Row
<1>2. \A q \in Purchases : row'[q].status = row[q].status /\ row'[q].card = row[q].card
  BY <1>1 DEF Row
<1>3. TypeOK'
  BY <1>1 DEF IInv, TypeOK, ledger, history, answers
<1>4. \A q \in Purchases : Good(q)'
  BY <1>2, Elsewhere DEF IInv, ledger, history, answers
<1> QED
  BY <1>3, <1>4 DEF IInv

LEMMA ProviderDecidesKeeps ==
  ASSUME IInv, NEW p \in Purchases, ProviderDecides(p)
  PROVE  IInv'
<1> USE DEF ProviderDecides
<1>1. PICK d \in {"delivered", "refused"} : provider' = [provider EXCEPT ![p] = d]
  OBVIOUS
<1>2. TypeOK'
  BY <1>1 DEF IInv, TypeOK, ledger, history, answers
<1>3. provider'[p] = d /\ provider[p] = "asked"
  BY <1>1 DEF IInv, TypeOK
<1>4. Good(p)'
  <2>1. /\ \A v \in Workers : /\ About(v, p)' <=> About(v, p)
                              /\ WorksOn(v, p)' <=> WorksOn(v, p)
        /\ Started(p)' <=> Started(p)
        /\ Ground(p) => Ground(p)'
    BY <1>3 DEF About, WorksOn, Started, Ground, ledger, history, answers
  <2> QED
    BY <1>3, <2>1 DEF IInv, Good, Untouched, Knows, OneBuyer, OneWorker, Fair,
       ledger, history, answers
<1>5. \A q \in Purchases \ {p} : Good(q)'
  <2>1. \A q \in Purchases \ {p} : provider'[q] = provider[q]
    BY <1>1
  <2> QED
    BY <2>1, Elsewhere DEF IInv, ledger, history, answers
<1> QED
  BY <1>2, <1>4, <1>5 DEF IInv

LEMMA BeginSweepKeeps ==
  ASSUME IInv, NEW w \in Workers, BeginSweep(w)
  PROVE  IInv'
<1>1. [pc |-> "sweep", todo |-> {p \in Purchases : Swept(p)}] \in After
  BY DEF After, SweepJob
<1> QED
  BY <1>1, Leaves DEF BeginSweep, IInv, TypeOK

LEMMA CrashKeeps ==
  ASSUME IInv, NEW w \in Workers, Crash(w)
  PROVE  IInv'
<1>1. crashes' \in 0..MaxCrashes
  BY UtilitiesConfig DEF Crash, IInv, TypeOK
<1>2. Idle \in After
  BY DEF After
<1>3. job[w] \in Task => job[w].then \in After
  BY DEF Task
<1> QED
  BY <1>1, <1>2, <1>3, Leaves DEF Crash, Done

\* A handler that takes up a card purchase to ask the gateway about it.
LEMMA VerifyingKeeps ==
  ASSUME IInv, NEW w \in Workers, NEW p \in Purchases, NEW then \in After,
         NEW plan \in {"buy"} \union Verdicts,
         row[p].status = "AWAITING_PAYMENT", Become(w, Verifying(p, plan, then)),
         UNCHANGED <<row, ledger, provider, history, crashes>>
  PROVE  IInv'
<1>1. /\ job' \in [Workers -> Job] /\ job'[w].pc = "verify" /\ job'[w].id = p
      /\ \A v \in Workers : v # w => job'[v] = job[v]
  BY TaskShape DEF IInv, Verifying
<1>2. TypeOK'
  BY <1>1 DEF IInv, TypeOK, ledger, history, answers
<1>3. Good(p)'
  <2>1. \A v \in Workers : v # w => /\ About(v, p)' <=> About(v, p)
                                    /\ WorksOn(v, p)' <=> WorksOn(v, p)
                                    /\ job'[v].pc = job[v].pc
    BY <1>1, OthersWork
  <2>2. ~WorksOn(w, p)'
    BY <1>1 DEF WorksOn, Buying, Closing
  <2>3. Untouched(p)'
    BY <2>1, <2>2 DEF IInv, Good, Untouched, Started, ledger, history, answers
  <2>4. \A v \in Workers : Knows(v, p)'
    BY <1>1, <2>1 DEF IInv, Good, Knows, Untouched, Ground, ledger, history, answers
  <2>5. OneBuyer(p)' /\ OneWorker(p)'
    BY <1>1, <2>1, <2>2 DEF IInv, Good, OneBuyer, OneWorker, ledger, history, answers, Buying
  <2>6. Fair(p)'
    BY DEF IInv, Good, Fair, Ground, ledger, history, answers
  <2> QED
    BY <2>3, <2>4, <2>5, <2>6 DEF Good
<1>4. \A q \in Purchases \ {p} : Good(q)'
  BY <1>1, OthersStay DEF ledger, history, answers
<1> QED
  BY <1>2, <1>3, <1>4 DEF IInv

LEMMA ConfirmKeeps ==
  ASSUME IInv, NEW w \in Workers, NEW p \in Purchases, Confirm(w, p)
  PROVE  IInv'
BY VerifyingKeeps DEF Confirm, After

LEMMA SweepNextKeeps ==
  ASSUME IInv, NEW w \in Workers, SweepNext(w)
  PROVE  IInv'
<1>1. job[w] \in SweepJob
  BY JobShape DEF SweepNext, IInv, TypeOK
<1>2. \A p \in job[w].todo : p \in Purchases /\ [job[w] EXCEPT !.todo = @ \ {p}] \in After
  BY <1>1 DEF SweepJob, After
<1>3. CASE job[w].todo = {} /\ Become(w, Idle)
  BY <1>3, Leaves DEF SweepNext, After, IInv, TypeOK
<1>4. ASSUME NEW p \in job[w].todo, row[p].status = "AWAITING_PAYMENT",
             Become(w, Verifying(p, "buy", [job[w] EXCEPT !.todo = @ \ {p}]))
      PROVE  IInv'
  BY <1>2, <1>4, VerifyingKeeps DEF SweepNext
<1>5. ASSUME NEW p \in job[w].todo, Become(w, [job[w] EXCEPT !.todo = @ \ {p}])
      PROVE  IInv'
  BY <1>2, <1>5, Leaves DEF SweepNext, IInv, TypeOK
<1> QED
  BY <1>3, <1>4, <1>5 DEF SweepNext

\* The handler is done with its purchase.
LEMMA DoneKeeps ==
  ASSUME IInv, NEW w \in Workers, job[w].pc \notin {"idle", "sweep"}, Done(w),
         UNCHANGED <<row, ledger, provider, history, crashes>>
  PROVE  IInv'
<1>1. job[w].then \in After
  BY JobShape DEF IInv, TypeOK, Task
<1> QED
  BY <1>1, Leaves DEF Done, IInv, TypeOK

\* The handler goes on with its purchase, whose row it leaves alone.
LEMMA GoToKeeps ==
  ASSUME IInv, NEW w \in Workers, NEW p \in Purchases, p = job[w].id,
         NEW pc \in {"claim"} \union Closing, GoTo(w, pc),
         UNCHANGED <<row, ledger, provider, calls, judged, contested, crashes>>,
         denied' \in {denied, denied \union {p}}, early' \in {early, early \union {p}},
         \/ job[w].pc = "verify" /\ pc = "claim" /\ p \in taken
         \/ job[w].pc = "answer" /\ pc = "succeed" /\ provider[p] = "delivered"
         \/ /\ job[w].pc = "answer" /\ pc = "reverse" /\ p \in denied'
            /\ p \notin early' => provider[p] \in {"none", "refused"}
  PROVE  IInv'
<1>1. Good(p) /\ About(w, p) /\ Knows(w, p) /\ (pc # "claim" => WorksOn(w, p))
  BY AtWork DEF Buying
<1>2. /\ job' \in [Workers -> Job] /\ job'[w].pc = pc /\ job'[w].id = p
      /\ \A v \in Workers : v # w => job'[v] = job[v]
  BY StepShape DEF IInv
<1>3. TypeOK'
  BY <1>2 DEF IInv, TypeOK, ledger
<1>4. Good(p)'
  <2>1. \A v \in Workers : v # w => /\ About(v, p)' <=> About(v, p)
                                    /\ WorksOn(v, p)' <=> WorksOn(v, p)
                                    /\ job'[v].pc = job[v].pc
    BY <1>2, OthersWork
  <2>2. WorksOn(w, p)' => WorksOn(w, p) /\ pc # "reversed" /\ job[w].pc # "reversed"
    BY <1>1, <1>2 DEF WorksOn, Buying, Closing
  <2>3. Untouched(p)'
    BY <1>1, <2>1, <2>2 DEF Good, Untouched, Started, ledger
  <2>4. \A v \in Workers : Knows(v, p)'
    <3>1. Ground(p) => Ground(p)'
      BY DEF Ground, ledger
    <3>2. \A v \in Workers : v # w => Knows(v, p)'
      BY <1>1, <2>1, <3>1 DEF Good, Knows, ledger
    <3>3. Knows(w, p)'
      BY <1>1, <1>2 DEF Good, Knows, Fair, Ground, ledger
    <3> QED
      BY <3>2, <3>3
  <2>5. OneBuyer(p)' /\ OneWorker(p)'
    BY <1>1, <1>2, <2>1, <2>2 DEF Good, OneBuyer, OneWorker, ledger, Buying, Closing
  <2>6. Fair(p)'
    BY <1>1 DEF Good, Fair, Ground, ledger
  <2> QED
    BY <2>3, <2>4, <2>5, <2>6 DEF Good
<1>5. \A q \in Purchases \ {p} : Good(q)'
  BY <1>2, OthersStay DEF ledger
<1> QED
  BY <1>3, <1>4, <1>5 DEF IInv

LEMMA VerifyKeeps ==
  ASSUME IInv, NEW w \in Workers, Verify(w)
  PROVE  IInv'
<1>1. PICK p \in Purchases : p = job[w].id
  BY AtWork DEF Verify
<1> QED
  BY <1>1, DoneKeeps, GoToKeeps DEF Verify, PaidAtGateway, history, answers

LEMMA AnswerKeeps ==
  ASSUME IInv, NEW w \in Workers, Answer(w)
  PROVE  IInv'
<1>1. PICK p \in Purchases : p = job[w].id
  BY AtWork DEF Answer
<1>2. PICK says \in Answers(p) :
        /\ IF OnAnswer(says) = "leave" THEN Done(w) ELSE GoTo(w, OnAnswer(says))
        /\ denied' = IF says = "FAILED" THEN denied \union {p} ELSE denied
        /\ early' = IF says = "FAILED" /\ provider[p] \in {"asked", "delivered"}
                   THEN early \union {p} ELSE early
  BY <1>1 DEF Answer
<1>3. /\ says \in {"UNKNOWN", "SUCCESS", "FAILED"}
      /\ says = "SUCCESS" => provider[p] = "delivered"
      /\ provider[p] \in {"none", "asked", "delivered", "refused"}
  BY <1>1 DEF Answers, IInv, TypeOK
<1>4. CASE says = "UNKNOWN"
  BY <1>2, <1>4, DoneKeeps DEF Answer, OnAnswer, history, answers
<1>5. CASE says = "SUCCESS"
  BY <1>1, <1>2, <1>3, <1>5, GoToKeeps DEF Answer, OnAnswer, Closing
<1>6. CASE says = "FAILED"
  <2>1. /\ GoTo(w, "reverse") /\ p \in denied' /\ denied' = denied \union {p}
        /\ early' \in {early, early \union {p}}
        /\ p \notin early' => provider[p] \in {"none", "refused"}
    BY <1>2, <1>3, <1>6 DEF OnAnswer
  <2> QED
    BY <1>1, <2>1, GoToKeeps DEF Answer, Closing
<1> QED
  BY <1>3, <1>4, <1>5, <1>6

LEMMA ClaimKeeps ==
  ASSUME IInv, NEW w \in Workers, Claim(w)
  PROVE  IInv'
<1> USE DEF Claim
<1>1. PICK p \in Purchases : /\ p = job[w].id /\ Good(p) /\ About(w, p) /\ Knows(w, p)
                             /\ job[w].plan \in {"buy"} \union Verdicts
  BY AtWork
<1>2. CASE ~Claimable(p) /\ Done(w) /\ UNCHANGED <<row, judged>>
  BY <1>2, DoneKeeps DEF ledger, history, answers
<1>3. CASE /\ Claimable(p) /\ SetStatus(p, "PENDING") /\ GoTo(w, On(job[w].plan))
           /\ judged' = IF job[w].plan = "buy" THEN judged ELSE judged \union {p}
  <2>1. /\ job[w].plan = "buy" => On(job[w].plan) = "ask"
        /\ job[w].plan # "buy" => On(job[w].plan) \in {"reverse", "succeed"}
    BY <1>1 DEF On, Verdicts
  <2>2. /\ job' \in [Workers -> Job] /\ job'[w].pc = On(job[w].plan) /\ job'[w].id = p
        /\ \A v \in Workers : v # w => job'[v] = job[v]
    BY <1>1, <1>3, <2>1, StepShape DEF IInv, Buying, Closing
  <2>3. /\ row \in [Purchases -> Row] /\ row' = [row EXCEPT ![p].status = "PENDING"]
        /\ row[p].status = "AWAITING_PAYMENT"
    BY <1>3 DEF IInv, TypeOK, SetStatus, Claimable
  <2>4. row' \in [Purchases -> Row]
    BY <2>3 DEF Row, Statuses
  <2>5. row'[p].status = "PENDING" /\ row'[p].card = row[p].card
    BY <2>3 DEF Row
  <2>6. TypeOK'
    BY <1>1, <1>3, <2>2, <2>4 DEF IInv, TypeOK, ledger, answers
  <2>7. Good(p)'
    <3>1. ~Started(p) /\ \A v \in Workers : ~WorksOn(v, p)
      BY <1>1, <2>3 DEF Good, Untouched, Started
    <3>2. \A v \in Workers : v # w => /\ About(v, p)' <=> About(v, p)
                                      /\ ~WorksOn(v, p)'
                                      /\ job'[v].pc = job[v].pc
      BY <2>2, <3>1, OthersWork
    <3>3. \A v \in Workers : v # w /\ About(v, p)' => job'[v].pc \in {"verify", "claim"}
      <4>1. \A v \in Workers :
              job[v].pc \in {"verify", "claim", "idle", "sweep"} \union Buying \union Closing
        BY JobShape DEF IInv, TypeOK, Task
      <4> QED
        BY <3>1, <3>2, <4>1 DEF About, WorksOn
    <3>4. p \in taken /\ p \notin refunded /\ calls[p] = 0 /\ row[p].card
      BY <1>1, <3>1 DEF Good, Untouched, Knows
    <3>5. Untouched(p)'
      BY <2>5, <3>4 DEF Untouched, Started, ledger, answers
    <3>6. \A v \in Workers : Knows(v, p)'
      BY <1>3, <2>1, <2>2, <2>5, <3>3, <3>4 DEF Knows, ledger, answers
    <3>7. OneBuyer(p)' /\ OneWorker(p)'
      BY <2>1, <2>2, <2>5, <3>2, <3>3, <3>4 DEF OneBuyer, OneWorker, Buying, ledger, answers
    <3>8. Fair(p)'
      BY <1>1, <1>3, <2>5, <3>4 DEF Good, Fair, Ground, ledger, answers
    <3> QED
      BY <3>5, <3>6, <3>7, <3>8 DEF Good
  <2>8. \A q \in Purchases \ {p} : Good(q)'
    BY <1>1, <1>3, <2>2, <2>3, OthersStay DEF ledger, answers
  <2> QED
    BY <2>6, <2>7, <2>8 DEF IInv
<1> QED
  BY <1>1, <1>2, <1>3

LEMMA AskKeeps ==
  ASSUME IInv, NEW w \in Workers, Ask(w)
  PROVE  IInv'
<1> USE DEF Ask
<1>1. PICK p \in Purchases : /\ p = job[w].id /\ Good(p) /\ About(w, p) /\ Knows(w, p)
                             /\ WorksOn(w, p) /\ Started(p)
  BY AtWork DEF Buying
<1>2. /\ job' \in [Workers -> Job] /\ job'[w].pc = "answer" /\ job'[w].id = p
      /\ \A v \in Workers : v # w => job'[v] = job[v]
  BY <1>1, StepShape DEF IInv, Buying
<1>3. /\ calls' = [calls EXCEPT ![p] = @ + 1] /\ calls[p] = 0 /\ p \in taken
      /\ provider' \in {provider, [provider EXCEPT ![p] = "asked"]}
  BY <1>1 DEF Knows
<1>4. TypeOK'
  BY <1>2, <1>3 DEF IInv, TypeOK, ledger, answers
<1>5. calls'[p] = 1
  BY <1>3 DEF IInv, TypeOK
<1>6. Good(p)'
  <2>1. \A v \in Workers : v # w => /\ About(v, p)' <=> About(v, p)
                                    /\ WorksOn(v, p)' <=> WorksOn(v, p)
                                    /\ job'[v].pc = job[v].pc
    BY <1>2, OthersWork
  <2>2. p \in refunded => p \in judged
    BY <1>1, <1>3 DEF Good, Fair, Ground
  <2>3. \A v \in Workers : v # w /\ About(v, p) => job[v].pc \notin Buying
    BY <1>1 DEF Good, OneBuyer, Buying
  <2>4. Untouched(p)'
    BY <1>1 DEF Good, Untouched, Started, ledger, answers
  <2>5. \A v \in Workers : Knows(v, p)'
    <3>1. ASSUME NEW v \in Workers, v # w PROVE Knows(v, p)'
      <4>1. ~Ground(p)
        BY <1>3 DEF Ground
      <4>2. provider[p] # "delivered"
        BY <1>1, <1>3 DEF Good, Fair
      <4> QED
        BY <3>1, <4>1, <4>2, <2>1, <2>3, <1>1 DEF Good, Knows, Buying, ledger, answers
    <3>2. Knows(w, p)'
      BY <1>2, <1>5 DEF Knows
    <3> QED
      BY <3>1, <3>2
  <2>6. OneBuyer(p)' /\ OneWorker(p)'
    BY <1>1, <1>2, <2>1 DEF Good, OneBuyer, OneWorker, WorksOn, Buying, ledger, answers
  <2>7. Fair(p)'
    BY <1>1, <1>3, <1>5, <2>2 DEF Good, Fair, ledger, answers
  <2> QED
    BY <2>4, <2>5, <2>6, <2>7 DEF Good
<1>7. \A q \in Purchases \ {p} : Good(q)'
  <2>1. \A q \in Purchases \ {p} : provider'[q] = provider[q] /\ calls'[q] = calls[q]
    BY <1>3 DEF IInv, TypeOK
  <2> QED
    BY <1>1, <1>2, <2>1, OthersStay DEF ledger, answers
<1> QED
  BY <1>4, <1>6, <1>7 DEF IInv

\* The last statement on a purchase: the row gets its verdict.
LEMMA VerdictKeeps ==
  ASSUME IInv, NEW w \in Workers, NEW verdict \in Verdicts,
         job[w].pc = IF verdict = "SUCCESSFUL" THEN "succeed" ELSE "reversed",
         SetStatus(job[w].id, verdict), Done(w),
         UNCHANGED <<ledger, provider, history, crashes>>
  PROVE  IInv'
<1>1. PICK p \in Purchases : /\ p = job[w].id /\ Good(p) /\ About(w, p) /\ Knows(w, p)
                             /\ WorksOn(w, p) /\ Started(p)
  BY AtWork DEF Closing, Verdicts
<1>2. /\ job' \in [Workers -> Job] /\ job'[w].pc \in {"idle", "sweep"}
      /\ \A v \in Workers : v # w => job'[v] = job[v]
  BY <1>1, StepShape DEF IInv, Closing, Verdicts
<1>3. /\ row \in [Purchases -> Row] /\ row' = [row EXCEPT ![p].status = verdict]
  BY <1>1 DEF IInv, TypeOK, SetStatus
<1>4. row' \in [Purchases -> Row]
  BY <1>3 DEF Row, Statuses, Verdicts
<1>5. row'[p].status = verdict /\ row'[p].card = row[p].card
  BY <1>3 DEF Row
<1>6. TypeOK'
  BY <1>2, <1>4 DEF IInv, TypeOK, ledger, history, answers
<1>7. Good(p)'
  <2>1. /\ \A v \in Workers : v # w => /\ About(v, p)' <=> About(v, p)
                                       /\ WorksOn(v, p)' <=> WorksOn(v, p)
                                       /\ job'[v].pc = job[v].pc
        /\ ~About(w, p)' /\ ~WorksOn(w, p)'
    BY <1>2, OthersWork DEF About, WorksOn, Buying, Closing
  <2>2. Untouched(p)'
    BY <1>1, <1>5 DEF Good, Untouched, Started, ledger, history, answers, Verdicts
  <2>3. \A v \in Workers : Knows(v, p)'
    BY <1>1, <1>5, <2>1 DEF Good, Knows, Ground, ledger, history, answers
  <2>4. OneBuyer(p)' /\ OneWorker(p)'
    BY <1>1, <2>1 DEF Good, OneBuyer, OneWorker, ledger, history, answers
  <2>5. Fair(p)'
    BY <1>1, <1>5 DEF Good, Fair, Knows, OneWorker, Ground, ledger, history, answers, Verdicts
  <2> QED
    BY <2>2, <2>3, <2>4, <2>5 DEF Good
<1>8. \A q \in Purchases \ {p} : Good(q)'
  BY <1>2, <1>3, OthersStay DEF ledger, history, answers
<1> QED
  BY <1>6, <1>7, <1>8 DEF IInv

LEMMA SucceedKeeps ==
  ASSUME IInv, NEW w \in Workers, Succeed(w)
  PROVE  IInv'
BY VerdictKeeps DEF Succeed, Verdicts

LEMMA ReversedKeeps ==
  ASSUME IInv, NEW w \in Workers, Reversed(w)
  PROVE  IInv'
BY VerdictKeeps DEF Reversed, Verdicts

LEMMA RefundKeeps ==
  ASSUME IInv, NEW w \in Workers, Refund(w)
  PROVE  IInv'
<1> USE DEF Refund
<1>1. PICK p \in Purchases : /\ p = job[w].id /\ Good(p) /\ About(w, p) /\ Knows(w, p)
                             /\ WorksOn(w, p) /\ Started(p)
  BY AtWork DEF Closing
<1>2. /\ job' \in [Workers -> Job] /\ job'[w].pc = "reversed" /\ job'[w].id = p
      /\ \A v \in Workers : v # w => job'[v] = job[v]
  BY <1>1, StepShape DEF IInv, Closing
<1>3. TypeOK'
  BY <1>1, <1>2 DEF IInv, TypeOK, history, answers
<1>4. Good(p)'
  <2>1. /\ \A v \in Workers : v # w => /\ About(v, p)' <=> About(v, p)
                                       /\ WorksOn(v, p)' <=> WorksOn(v, p)
                                       /\ job'[v].pc = job[v].pc
        /\ About(w, p)'
    BY <1>2, OthersWork DEF About
  <2>2. Untouched(p)'
    BY <1>1 DEF Good, Untouched, Started, history, answers
  <2>3. \A v \in Workers : Knows(v, p)'
    BY <1>1, <1>2, <2>1 DEF Good, Knows, Ground, history, answers
  <2>4. OneBuyer(p)'
    BY <1>1, <1>2, <2>1 DEF Good, OneBuyer, history, answers, Buying
  <2>5. OneWorker(p)'
    BY <1>1, <1>2, <2>1 DEF Good, OneWorker, history, answers
  <2>6. Fair(p)'
    BY <1>1 DEF Good, Fair, Knows, OneWorker, Ground, history, answers
  <2> QED
    BY <2>2, <2>3, <2>4, <2>5, <2>6 DEF Good
<1>5. \A q \in Purchases \ {p} : Good(q)'
  BY <1>1, <1>2, OthersStay DEF history, answers
<1> QED
  BY <1>3, <1>4, <1>5 DEF IInv

LEMMA ResolveKeeps ==
  ASSUME IInv, NEW w \in Workers, NEW p \in Purchases, NEW verdict \in Verdicts,
         Resolve(w, p, verdict)
  PROVE  IInv'
<1> USE DEF Resolve
<1>1. CASE row[p].status = "AWAITING_PAYMENT"
  BY <1>1, VerifyingKeeps DEF After, history, answers
<1>2. CASE row[p].status # "AWAITING_PAYMENT"
  <2>1. /\ row[p].status = "PENDING"
        /\ Become(w, [pc |-> On(verdict), id |-> p, plan |-> verdict, then |-> Idle])
        /\ judged' = judged \union {p}
        /\ contested' = IF InFlight(p) THEN contested \union {p} ELSE contested
    BY <1>2
  <2>2. On(verdict) \in {"reverse", "succeed"} /\ Idle \in After
    BY DEF On, Verdicts, After
  <2>3. /\ job' \in [Workers -> Job] /\ job'[w].pc = On(verdict) /\ job'[w].id = p
        /\ \A v \in Workers : v # w => job'[v] = job[v]
    BY <2>1, <2>2, TaskShape DEF IInv, Closing
  <2>4. TypeOK'
    BY <2>1, <2>3 DEF IInv, TypeOK, ledger, answers
  <2>5. Good(p)'
    <3>1. Good(p) /\ Started(p)
      BY <2>1 DEF IInv, Started
    <3>2. /\ \A v \in Workers : v # w => /\ About(v, p)' <=> About(v, p)
                                         /\ WorksOn(v, p)' <=> WorksOn(v, p)
                                         /\ job'[v].pc = job[v].pc
      BY <2>3, OthersWork
    <3>3. Untouched(p)'
      BY <2>1, <3>1 DEF Good, Untouched, Started, ledger, answers
    <3>4. \A v \in Workers : Knows(v, p)'
      BY <2>1, <2>2, <2>3, <3>1, <3>2 DEF Good, Knows, Ground, ledger, answers
    <3>5. OneBuyer(p)'
      BY <2>2, <2>3, <3>1, <3>2 DEF Good, OneBuyer, Buying
    <3>6. OneWorker(p)'
      BY <2>1, <2>2, <2>3, <3>1, <3>2 DEF Good, OneWorker, InFlight, ledger, answers
    <3>7. Fair(p)'
      BY <2>1, <3>1 DEF Good, Fair, Ground, ledger, answers
    <3> QED
      BY <3>3, <3>4, <3>5, <3>6, <3>7 DEF Good
  <2>6. \A q \in Purchases \ {p} : Good(q)'
    BY <2>1, <2>3, OthersStay DEF ledger, answers
  <2> QED
    BY <2>4, <2>5, <2>6 DEF IInv
<1> QED
  BY <1>1, <1>2

-------------------------------------------------------------------------------
LEMMA NextIInv == IInv /\ [Next]_vars => IInv'
<1> SUFFICES ASSUME IInv, [Next]_vars PROVE IInv'
  OBVIOUS
<1>1. CASE UNCHANGED vars
  <2>1. TypeOK'
    BY <1>1 DEF IInv, TypeOK, vars, ledger, history, answers
  <2>2. \A p \in Purchases : Good(p)'
    BY <1>1, Elsewhere DEF IInv, vars, ledger, history, answers
  <2> QED
    BY <2>1, <2>2 DEF IInv
<1>2. ASSUME NEW w \in Workers, NEW p \in Purchases,
             \/ BuyByCard(w, p) \/ BuyFromWallet(w, p) \/ Confirm(w, p)
             \/ \E verdict \in Verdicts : Resolve(w, p, verdict)
      PROVE  IInv'
  BY <1>2, BuyByCardKeeps, BuyFromWalletKeeps, ConfirmKeeps, ResolveKeeps
<1>3. ASSUME NEW w \in Workers, BeginSweep(w) \/ Step(w) \/ Crash(w)
      PROVE  IInv'
  BY <1>3, BeginSweepKeeps, CrashKeeps, DebitKeeps, SweepNextKeeps, VerifyKeeps, ClaimKeeps,
     AskKeeps, AnswerKeeps, SucceedKeeps, RefundKeeps, ReversedKeeps DEF Step
<1>4. ASSUME NEW p \in Purchases,
             \/ CustomerPays(p) \/ ProviderDecides(p)
             \/ Ages(p, "fresh", "due") \/ Ages(p, "due", "old")
      PROVE  IInv'
  BY <1>4, CustomerPaysKeeps, ProviderDecidesKeeps, AgesKeeps
<1> QED
  BY <1>1, <1>2, <1>3, <1>4 DEF Next

\* The inductive invariant holds throughout: the claim under the status guard leaves one
\* handler on the way to the provider, whoever else is after the purchase.
THEOREM UtilityInvariant == Spec => []IInv
BY InitIInv, NextIInv, PTL DEF Spec

\* Rows, ledger and handlers keep their types: the sweep and the handlers it calls return
\* to what they were doing.
THEOREM UtilityTypes == Spec => []TypeOK
<1>1. IInv => TypeOK
  BY DEF IInv
<1> QED
  BY <1>1, UtilityInvariant, PTL

\* A retry of confirmCardPurchase, by whomever, never buys twice, and the provider is
\* never asked before the money is in.
THEOREM NeverBoughtTwice == Spec => []BoughtOnce
<1>1. IInv => BoughtOnce
  BY DEF IInv, Good, Fair, BoughtOnce
<1> QED
  BY <1>1, UtilityInvariant, PTL

\* fulfil refunds only after a FAILED of the provider, never on silence; what it refunds on
\* an early FAILED may still be delivered. An operator refunds a card purchase only if the
\* gateway charged it.
THEOREM RefundsHaveGround == Spec => []RefundHasGround
<1>1. IInv => RefundHasGround
  BY DEF IInv, Good, Fair, Ground, Untouched, Started, RefundHasGround
<1> QED
  BY <1>1, UtilityInvariant, PTL

\* A purchase no operator met in flight is either delivered or refunded.
THEOREM VerdictsAreSingle == Spec => []OneVerdict
<1>1. IInv => OneVerdict
  BY DEF IInv, Good, Fair, OneVerdict
<1> QED
  BY <1>1, UtilityInvariant, PTL
================================================================================
