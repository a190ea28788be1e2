--------------------------- MODULE CommissionAccount ---------------------------
(***************************************************************************)
(* commercial/commission-account.service.ts: what one merchant, driver,    *)
(* rider or fleet owes the platform in commission, and whether the debt    *)
(* blocks it from new work.                                                *)
(*                                                                         *)
(* A mutation reads the account, looks its reference up in the ledger, and *)
(* writes balance and entry in one commit under a guard on the version it  *)
(* read. The update holds the row's lock until the commit, so the two are  *)
(* one step here. Only after the commit does the handler recompute the     *)
(* block state, from the account as its own transaction left it, and write *)
(* it by id alone. Handlers of different requests interleave at every      *)
(* statement. The account exists from the start, with the default limit.   *)
(***************************************************************************)
EXTENDS Integers, Sequences, FiniteSets

CONSTANTS Handlers,
          Calls,       \* the mutations a caller may ask for, again and again
          Limits,      \* credit limits an admin may set
          NoLimit,     \* no limit negotiated
          NoRef,       \* a payment recorded by hand carries no reference
          MaxEntries,  \* bound: no unreferenced call starts beyond this ledger
          MaxDeaths    \* bound: handlers that die half-way

Types == {"ACCRUAL", "PAYMENT", "ADJUSTMENT"}

ASSUME AccountConfigOK ==
  /\ \A k \in Calls : /\ DOMAIN k = {"type", "delta", "ref"}
                      /\ k.type \in Types
                      /\ k.delta \in Int \ {0}
                      /\ k.type = "ACCRUAL" => k.delta > 0
                      /\ k.type = "PAYMENT" => k.delta < 0
  /\ Limits \subseteq Nat /\ Limits # {}
  /\ NoLimit \notin Limits
  /\ MaxEntries \in Nat /\ MaxDeaths \in Nat

VARIABLES account,  \* the row of the commission account
          ledger,   \* its entries, oldest first
          default,  \* CommercialCreditSetting.creditLimit of the owner type
          task,     \* what each handler is doing
          deaths

accountVars == <<account, ledger, default, task, deaths>>

Account == [balance : Int, version : Nat, limit : Limits,
        negotiated : Limits \union {NoLimit}, blocked : BOOLEAN]
Entry == [call : Calls, after : Int]

Free == [pc |-> "idle"]
Task ==
  {Free} \union [pc : {"read"}, call : Calls]
    \union [pc : {"check", "write"}, call : Calls, seen : Account]
    \union [pc : {"recompute"}, seen : Account]
    \union [pc : {"persist"}, limit : Limits, blocked : BOOLEAN]

IsPosted(ref) == ref # NoRef /\ \E i \in DOMAIN ledger : ledger[i].call.ref = ref

\* Only a payment is capped at what is owed; reversing an accrual may leave the
\* platform owing the partner.
CoveredAlways(k, balance) == TRUE  \* mutant: no cap
Covered(k, balance) == k.type = "PAYMENT" => balance + k.delta >= 0

\* effectiveCreditLimit
Effective(r) == IF r.negotiated # NoLimit THEN r.negotiated ELSE default

\* Blocking is a latch: above the limit it shuts, at zero it opens.
ShouldBlockAbove(r, limit) == r.balance > limit  \* mutant: a threshold
ShouldBlock(r, limit) == IF r.blocked THEN r.balance > 0 ELSE r.balance > limit

TurnsTo(h, j) == task' = [task EXCEPT ![h] = j]

AccountInit ==
  /\ default \in Limits
  /\ account = [balance |-> 0, version |-> 0, limit |-> default, negotiated |-> NoLimit,
            blocked |-> FALSE]
  /\ ledger = <<>>
  /\ task = [h \in Handlers |-> Free]
  /\ deaths = 0

-------------------------------------------------------------------------------
\* accrue, recordPayment, reverseAccrual and recordLiability.
Begin(h, k) ==
  /\ task[h] = Free
  /\ k.ref = NoRef => Len(ledger) < MaxEntries
  /\ TurnsTo(h, [pc |-> "read", call |-> k])
  /\ UNCHANGED <<account, ledger, default, deaths>>

Read(h) == LET j == task[h] IN
  /\ j.pc = "read"
  /\ TurnsTo(h, [pc |-> "check", call |-> j.call, seen |-> account])
  /\ UNCHANGED <<account, ledger, default, deaths>>

\* A posted reference is a replay, a payment above the debt is refused: nothing
\* is written and the block state is left alone.
Check(h) == LET j == task[h] IN
  /\ j.pc = "check"
  /\ IF ~IsPosted(j.call.ref) /\ Covered(j.call, j.seen.balance)
     THEN TurnsTo(h, [j EXCEPT !.pc = "write"])
     ELSE TurnsTo(h, Free)
  /\ UNCHANGED <<account, ledger, default, deaths>>

UnversionedGuard(j) == TRUE  \* mutant: the update is keyed by id alone
GuardHolds(j) == j.seen.version = account.version

\* The guarded update, the entry and the commit; a lost guard is a conflict.
Write(h) == LET j == task[h] IN
  /\ j.pc = "write"
  /\ \/ /\ GuardHolds(j)
        /\ account' = [account EXCEPT !.balance = j.seen.balance + j.call.delta, !.version = @ + 1]
        /\ ledger' = Append(ledger, [call |-> j.call, after |-> j.seen.balance + j.call.delta])
        /\ TurnsTo(h, [pc |-> "recompute", seen |-> account'])
     \/ /\ ~GuardHolds(j)
        /\ TurnsTo(h, Free)
        /\ UNCHANGED <<account, ledger>>
  /\ UNCHANGED <<default, deaths>>

\* setNegotiatedCreditLimit: the agreement, by id alone, then the block state.
Negotiate(h, limit) ==
  /\ task[h] = Free
  /\ account' = [account EXCEPT !.negotiated = limit]
  /\ TurnsTo(h, [pc |-> "recompute", seen |-> account'])
  /\ UNCHANGED <<ledger, default, deaths>>

\* recomputeAndPersistBlockState decides on the account it was handed.
Settled(r, limit) == ShouldBlock(r, limit) = r.blocked /\ r.limit = limit
Recompute(h) == LET j == task[h] IN
  /\ j.pc = "recompute"
  /\ LET limit == Effective(j.seen) IN
     IF Settled(j.seen, limit) THEN TurnsTo(h, Free)
     ELSE TurnsTo(h, [pc |-> "persist", limit |-> limit,
                     blocked |-> ShouldBlock(j.seen, limit)])
  /\ UNCHANGED <<account, ledger, default, deaths>>

Persist(h) == LET j == task[h] IN
  /\ j.pc = "persist"
  /\ account' = [account EXCEPT !.limit = j.limit, !.blocked = j.blocked]
  /\ TurnsTo(h, Free)
  /\ UNCHANGED <<ledger, default, deaths>>

\* CommercialCreditSettingsService.update: prospective, no account is touched.
ChangeDefault(limit) ==
  /\ default' = limit
  /\ default # limit
  /\ UNCHANGED <<account, ledger, task, deaths>>

\* The process ends, or a statement throws; an open transaction is rolled back.
Die(h) ==
  /\ task[h] # Free /\ deaths < MaxDeaths
  /\ deaths' = deaths + 1
  /\ TurnsTo(h, Free)
  /\ UNCHANGED <<account, ledger, default>>

AccountNext ==
  \/ \E h \in Handlers :
       \/ \E k \in Calls : Begin(h, k)
       \/ \E l \in Limits \union {NoLimit} : Negotiate(h, l)
       \/ Read(h) \/ Check(h) \/ Write(h) \/ Recompute(h) \/ Persist(h) \/ Die(h)
  \/ \E l \in Limits : ChangeDefault(l)

AccountSpec == AccountInit /\ [][AccountNext]_accountVars

-------------------------------------------------------------------------------
\* The account, its entries and the handlers have their types; above all, a
\* limit in force is a number whether it was negotiated or defaulted.
AccountTypeOK ==
  /\ account \in Account
  /\ ledger \in Seq(Entry)
  /\ default \in Limits
  /\ task \in [Handlers -> Task]
  /\ deaths \in 0..MaxDeaths

Before(i) == IF i = 1 THEN 0 ELSE ledger[i - 1].after

\* The debt is its ledger: every entry starts from the balance its predecessor
\* left, none is lost to a concurrent one, and the account stands at the last.
BooksBalance ==
  /\ \A i \in DOMAIN ledger : ledger[i].after = Before(i) + ledger[i].call.delta
  /\ account.balance = Before(Len(ledger) + 1)
  /\ account.version = Len(ledger)

\* A completed order or ride is charged once however often its settlement is
\* retried, and reversed once (the exactly-once reference of accrue).
ReferencePostedOnce == \A i, j \in DOMAIN ledger :
  ledger[i].call.ref = ledger[j].call.ref /\ ledger[i].call.ref # NoRef => i = j

\* No payment, however it interleaves with others, pays more than is owed.
PaymentsCovered == \A i \in DOMAIN ledger :
  ledger[i].call.type = "PAYMENT" => ledger[i].after >= 0

\* A partner who owes nothing is not blocked once no handler is left to say so.
AllFree == deaths = 0 /\ \A h \in Handlers : task[h] = Free
ClearedIsReleased == AllFree /\ account.balance <= 0 => ~account.blocked
===============================================================================
