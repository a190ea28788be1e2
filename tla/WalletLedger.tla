----------------------------- MODULE WalletLedger -----------------------------
(***************************************************************************)
(* wallet/wallet.service.ts as it runs: every credit, debit, refund,       *)
(* settlement, cashback, withdrawal, hold, hold commit, hold release and   *)
(* transfer is a database transaction of a request handler, and handlers   *)
(* of different requests interleave at every statement.                    *)
(*                                                                         *)
(* A transaction reads the wallet row (Read), looks the reference up in    *)
(* the ledger and verifies the rules (Check), updates the row under a      *)
(* guard on the version it read and inserts the entry (Write), and         *)
(* commits. A transfer does Read, Check, Write for the source wallet, then *)
(* for the destination, then commits. Uncommitted writes live in "draft":  *)
(* no other transaction sees them. A row update holds the row's lock until *)
(* the transaction ends.                                                   *)
(*                                                                         *)
(* The database serves READ COMMITTED transactions. UpsertLocks says       *)
(* whether the upsert that reads the row also locks it (its update clause  *)
(* is never empty, so PostgreSQL does); with FALSE the version guard is    *)
(* all that protects the balance. What is stated here holds either way.    *)
(***************************************************************************)
EXTENDS WalletRules, FiniteSets

CONSTANTS Wallets,
          Conns,        \* handlers with a database connection
          Calls,        \* the calls a caller may make
          UpsertLocks,
          Free,         \* the lock of a row nobody updates
          NoRow         \* no uncommitted version of a row

Row == [available : Nat, pending : Nat, version : Nat]

Ops == Kinds \union {"transfer"}

\* "to" is the destination of a transfer and the wallet itself otherwise.
Call == [op : Ops, wallet : Wallets, to : Wallets, ref : Refs, amount : Amounts]

ASSUME ConfigOK ==
  /\ Calls \subseteq Call
  /\ Calls # {}
  \* transfer() refuses to send to the same wallet
  /\ \A k \in Calls : k.op = "transfer" <=> k.wallet # k.to
  \* the reference of a transfer is a fresh UUID of a type of its own
  /\ \A k, m \in Calls : k.op = "transfer" /\ m.ref = k.ref => m.op = "transfer"
  /\ UpsertLocks \in BOOLEAN
  /\ Free \notin Conns
  /\ NoRow \notin Row

VARIABLES row,      \* the committed wallet rows
          ledger,   \* the committed entries of each wallet, oldest first
          lock,     \* who holds each row's lock
          pc,       \* where each handler is
          call,     \* the call it serves
          leg,      \* 1, or 2 in the second half of a transfer
          snap,     \* the row it read for this leg
          draft     \* its uncommitted row of each wallet

vars == <<row, ledger, lock, pc, call, leg, snap, draft>>

Steps == {"idle", "read", "check", "write", "commit"}

NoDraft == [w \in Wallets |-> NoRow]
NewRow == [available |-> 0, pending |-> 0, version |-> 0]
AnyCall == CHOOSE k \in Calls : TRUE   \* held by an idle handler, never read

Init ==
  /\ row = [w \in Wallets |-> NewRow]
  /\ ledger = [w \in Wallets |-> <<>>]
  /\ lock = [w \in Wallets |-> Free]
  /\ pc = [c \in Conns |-> "idle"]
  /\ call = [c \in Conns |-> AnyCall]
  /\ leg = [c \in Conns |-> 1]
  /\ snap = [c \in Conns |-> NewRow]
  /\ draft = [c \in Conns |-> NoDraft]
-------------------------------------------------------------------------------
\* The wallet and the mutation of the half the handler is at.
LegWallet(k, half) == IF half = 2 THEN k.to ELSE k.wallet
LegKind(k, half) ==
  IF k.op # "transfer" THEN k.op
  ELSE IF half = 1 THEN "debit" ELSE "credit"

W(c) == LegWallet(call[c], leg[c])
K(c) == LegKind(call[c], leg[c])

IsLast(c) == call[c].op = "transfer" => leg[c] = 2

Mine(c, w) == lock[w] = c
Available(c, w) == lock[w] \in {Free, c}

NextRow(r, kind, amount) ==
  [available |-> r.available + AvailableDelta(kind, amount),
   pending   |-> r.pending + PendingDelta(kind, amount),
   version   |-> r.version + 1]

\* The half of the call that concerns w.
HalfAt(k, w) == IF k.op = "transfer" /\ w = k.to THEN 2 ELSE 1

EntryFor(k, w, after) ==
  [kind |-> LegKind(k, HalfAt(k, w)), ref |-> k.ref, amount |-> k.amount,
   after |-> after]

\* A transfer mints its reference with randomUUID: no other call has it.
Unused(ref) ==
  /\ \A w \in Wallets : \A i \in DOMAIN ledger[w] : ledger[w][i].ref # ref
  /\ \A c \in Conns : pc[c] # "idle" => call[c].ref # ref
-------------------------------------------------------------------------------
\* A request reaches the service.
Start(c) ==
  /\ pc[c] = "idle"
  /\ \E k \in Calls :
       /\ k.op = "transfer" => Unused(k.ref)
       /\ call' = [call EXCEPT ![c] = k]
  /\ pc' = [pc EXCEPT ![c] = "read"]
  /\ UNCHANGED <<row, ledger, lock, leg, snap, draft>>

\* getOrCreateWalletRecordInTx: the upsert returns the row.
Read(c) ==
  /\ pc[c] = "read"
  /\ UpsertLocks => Available(c, W(c))
  /\ lock' = IF UpsertLocks THEN [lock EXCEPT ![W(c)] = c] ELSE lock
  /\ snap' = [snap EXCEPT ![c] = row[W(c)]]
  /\ pc' = [pc EXCEPT ![c] = "check"]
  /\ UNCHANGED <<row, ledger, call, leg, draft>>

\* The half is over: go to the second half of a transfer, or commit.
Advance(c) ==
  /\ pc' = [pc EXCEPT ![c] = IF IsLast(c) THEN "commit" ELSE "read"]
  /\ leg' = [leg EXCEPT ![c] = IF IsLast(c) THEN @ ELSE 2]

\* The transaction is over: its locks are released, its locals are gone.
Finish(c) ==
  /\ pc' = [pc EXCEPT ![c] = "idle"]
  /\ lock' = [w \in Wallets |-> IF lock[w] = c THEN Free ELSE lock[w]]
  /\ call' = [call EXCEPT ![c] = AnyCall]
  /\ leg' = [leg EXCEPT ![c] = 1]
  /\ snap' = [snap EXCEPT ![c] = NewRow]
  /\ draft' = [draft EXCEPT ![c] = NoDraft]

Rollback(c) == Finish(c) /\ UNCHANGED <<row, ledger>>

\* Mutant: the lookup forgets the suffix of the leg in the reference type.
ReplayAnyLeg(c) ==
  /\ pc[c] = "check"
  /\ \E i \in DOMAIN ledger[W(c)] : ledger[W(c)][i].ref = call[c].ref
  /\ Advance(c)
  /\ UNCHANGED <<row, ledger, lock, call, snap, draft>>

\* The reference is in the ledger already: nothing to do.
Replay(c) ==
  /\ pc[c] = "check"
  /\ IsPosted(ledger[W(c)], K(c), call[c].ref)
  /\ Advance(c)
  /\ UNCHANGED <<row, ledger, lock, call, snap, draft>>

Accept(c) ==
  /\ pc[c] = "check"
  /\ ~IsPosted(ledger[W(c)], K(c), call[c].ref)
  /\ Admits(ledger[W(c)], snap[c].available, K(c), call[c].ref, call[c].amount)
  /\ pc' = [pc EXCEPT ![c] = "write"]
  /\ UNCHANGED <<row, ledger, lock, call, leg, snap, draft>>

\* Insufficient balance, no hold to settle, hold already ended, wrong amount.
Refuse(c) ==
  /\ pc[c] = "check"
  /\ ~IsPosted(ledger[W(c)], K(c), call[c].ref)
  /\ ~Admits(ledger[W(c)], snap[c].available, K(c), call[c].ref, call[c].amount)
  /\ Rollback(c)

\* Mutant: no version in the WHERE, no unique index.
GuardHoldsUnversioned(c) ==
  LET r == row[W(c)] IN
    /\ r.available + AvailableDelta(K(c), call[c].amount) >= 0
    /\ r.pending + PendingDelta(K(c), call[c].amount) >= 0

\* The WHERE of the guarded update, and the ledger's unique index.
GuardHolds(c) ==
  LET r == row[W(c)] IN
    /\ r.version = snap[c].version
    /\ r.available + AvailableDelta(K(c), call[c].amount) >= 0
    /\ r.pending + PendingDelta(K(c), call[c].amount) >= 0
    /\ ~IsPosted(ledger[W(c)], K(c), call[c].ref)

Write(c) ==
  /\ pc[c] = "write"
  /\ Available(c, W(c))
  /\ GuardHolds(c)
  /\ lock' = [lock EXCEPT ![W(c)] = c]
  /\ draft' = [draft EXCEPT ![c][W(c)] = NextRow(snap[c], K(c), call[c].amount)]
  /\ Advance(c)
  /\ UNCHANGED <<row, ledger, call, snap>>

\* "Wallet balance changed; retry operation"
Conflict(c) ==
  /\ pc[c] = "write"
  /\ Available(c, W(c))
  /\ ~GuardHolds(c)
  /\ Rollback(c)

Commit(c) ==
  /\ pc[c] = "commit"
  /\ row' = [w \in Wallets |-> IF draft[c][w] = NoRow THEN row[w] ELSE draft[c][w]]
  /\ ledger' = [w \in Wallets |->
                  IF draft[c][w] = NoRow THEN ledger[w]
                  ELSE Append(ledger[w],
                              EntryFor(call[c], w, draft[c][w].available))]
  /\ Finish(c)

\* The row whose lock the handler needs for its next statement.
Wants(c, w) ==
  /\ w = W(c)
  /\ pc[c] = "write" \/ (UpsertLocks /\ pc[c] = "read")
WaitsFor(c, d) == c # d /\ \E w \in Wallets : Wants(c, w) /\ Mine(d, w)

\* Mutant: nobody breaks the cycle.
DeadlockedNever(c) == FALSE

\* PostgreSQL aborts one transaction of a cycle of waiting transactions.
Deadlocked(c) ==
  \E S \in SUBSET Conns :
    /\ c \in S
    /\ \A d \in S : /\ \E e \in S : WaitsFor(d, e)
                    /\ \E e \in S : WaitsFor(e, d)

DeadlockVictim(c) == Deadlocked(c) /\ Rollback(c)

\* The process or its connection dies: the database rolls back.
Crash(c) == pc[c] # "idle" /\ Rollback(c)

Progress(c) ==
  \/ Read(c) \/ Replay(c) \/ Accept(c) \/ Refuse(c) \/ Write(c) \/ Conflict(c)
  \/ Commit(c) \/ DeadlockVictim(c)

Next == \E c \in Conns : Start(c) \/ Progress(c) \/ Crash(c)

Spec == Init /\ [][Next]_vars

\* A handler runs on until it answers. PostgreSQL queues the waiters of a row
\* lock, so a wait for a lock that is released again and again ends.
Fairness ==
  /\ \A c \in Conns : WF_vars(Progress(c))
  /\ \A c \in Conns : SF_vars(Read(c) \/ Write(c) \/ Conflict(c))

FairSpec == Spec /\ Fairness
-------------------------------------------------------------------------------
\* Type correctness; in particular no balance is ever negative.
TypeOK ==
  /\ row \in [Wallets -> Row]
  /\ ledger \in [Wallets -> Seq(Entry)]
  /\ lock \in [Wallets -> Conns \union {Free}]
  /\ pc \in [Conns -> Steps]
  /\ call \in [Conns -> Calls]
  /\ leg \in [Conns -> 1..2]
  /\ snap \in [Conns -> Row]
  /\ draft \in [Conns -> [Wallets -> Row \union {NoRow}]]

\* The books: every entry's balanceAfter is the previous one's plus what the
\* entry moved, the last one's is the wallet's spendable balance, and the
\* version counts the entries. A lost update, a balance written without its
\* entry (or the reverse) and a write from a stale read all break it.
Before(entries, i) == IF i = 1 THEN 0 ELSE entries[i - 1].after

BooksBalance ==
  \A w \in Wallets :
    /\ \A i \in 1..Len(ledger[w]) :
         ledger[w][i].after =
           Before(ledger[w], i)
             + AvailableDelta(ledger[w][i].kind, ledger[w][i].amount)
    /\ row[w].available = Before(ledger[w], Len(ledger[w]) + 1)
    /\ row[w].version = Len(ledger[w])

\* A reference is posted to a wallet at most once, however often and however
\* concurrently the call is retried.
ReferencePostedOnce ==
  \A w \in Wallets : \A i, j \in 1..Len(ledger[w]) :
    Key(ledger[w][i].kind, ledger[w][i].ref)
      = Key(ledger[w][j].kind, ledger[w][j].ref) => i = j

\* mutateHold: "a hold ends exactly once". A commit or a release settles an
\* earlier hold of the same amount, and no hold is both committed and released.
HoldEndsOnce ==
  \A w \in Wallets : \A i \in 1..Len(ledger[w]) :
    ledger[w][i].kind \in {"hold_commit", "hold_release"} =>
      /\ \E j \in 1..(i - 1) :
           /\ ledger[w][j].kind = "hold"
           /\ ledger[w][j].ref = ledger[w][i].ref
           /\ ledger[w][j].amount = ledger[w][i].amount
      /\ \A j \in 1..Len(ledger[w]) :
           ledger[w][j].ref = ledger[w][i].ref =>
             ledger[w][j].kind # Opposite(ledger[w][i].kind)

\* reconcileWallet: the credits of a wallet minus its debits, hold commits left out,
\* are its spendable balance (difference = 0), and its pending balance is the holds
\* that nobody ended yet: held money is neither lost nor counted twice, and ending
\* a hold frees exactly what it reserved.
Credits(entries) == {i \in DOMAIN entries : entries[i].kind \in {"credit", "hold_release"}}
Debits(entries) == {i \in DOMAIN entries : entries[i].kind \in {"debit", "hold"}}
OpenHolds(entries) ==
  {i \in DOMAIN entries :
    /\ entries[i].kind = "hold"
    /\ ~IsPosted(entries, "hold_commit", entries[i].ref)
    /\ ~IsPosted(entries, "hold_release", entries[i].ref)}

Units(entries, E) ==  \* the units of money of the entries E, numbered entry by entry
  UNION {{i} \X (1..entries[i].amount) : i \in E}
Total(entries, E) == Cardinality(Units(entries, E))

Reconciles == \A w \in Wallets :
  /\ Total(ledger[w], Credits(ledger[w])) - Total(ledger[w], Debits(ledger[w]))
       = row[w].available
  /\ Total(ledger[w], OpenHolds(ledger[w])) = row[w].pending

\* transfer(): the money leaves one wallet and reaches another in one step;
\* no half of a transfer is ever in the books without the other.
TransferRefs == {k.ref : k \in {m \in Calls : m.op = "transfer"}}

TransferPaired ==
  \A v \in Wallets : \A i \in 1..Len(ledger[v]) :
    ledger[v][i].ref \in TransferRefs =>
      \E w \in Wallets \ {v} : \E j \in 1..Len(ledger[w]) :
        /\ ledger[w][j].ref = ledger[v][i].ref
        /\ ledger[w][j].amount = ledger[v][i].amount
        /\ {ledger[v][i].kind, ledger[w][j].kind} = {"debit", "credit"}

\* A caller that is told its call is done finds every half of it in the books.
AnswerIsBooked ==
  [][\A c \in Conns : Commit(c) =>
       \A w \in {call[c].wallet, call[c].to} :
         IsPosted(ledger'[w], LegKind(call[c], HalfAt(call[c], w)), call[c].ref)]_vars

\* Every call is answered, also when transfers in opposite directions lock
\* each other out.
Answered == \A c \in Conns : pc[c] # "idle" ~> pc[c] = "idle"

\* The transactions implement the book.
Book == INSTANCE WalletBook
  WITH balance <- [w \in Wallets |-> [available |-> row[w].available,
                                      pending   |-> row[w].pending]]

ImplementsBook == Book!Spec
-------------------------------------------------------------------------------
(* Why the books balance although handlers act on what they read earlier. *)

\* The mutation of call k for wallet w can be posted to the committed books.
CanWrite(k, w) ==
  LET kind == LegKind(k, HalfAt(k, w)) IN
    /\ ~IsPosted(ledger[w], kind, k.ref)
    /\ Admits(ledger[w], row[w].available, kind, k.ref, k.amount)
    /\ row[w].available + AvailableDelta(kind, k.amount) >= 0
    /\ row[w].pending + PendingDelta(kind, k.amount) >= 0

\* A snapshot whose version is still current is the current row.
SnapshotsAge ==
  \A c \in Conns : pc[c] \in {"check", "write"} =>
    /\ snap[c].version <= row[W(c)].version
    /\ snap[c].version = row[W(c)].version => snap[c] = row[W(c)]

\* What Check verified still holds unless the version has moved.
ChecksStand ==
  \A c \in Conns :
    pc[c] = "write" /\ snap[c].version = row[W(c)].version =>
      Admits(ledger[W(c)], row[W(c)].available, K(c), call[c].ref, call[c].amount)

\* An uncommitted row is protected by its lock and follows from the committed
\* one, so that committing it is committing the mutation.
DraftsStand ==
  \A c \in Conns : \A w \in Wallets : draft[c][w] # NoRow =>
    /\ lock[w] = c
    /\ w \in {call[c].wallet, call[c].to}
    /\ pc[c] = "commit" \/ (leg[c] = 2 /\ w # W(c))
    /\ draft[c][w] = NextRow(row[w], LegKind(call[c], HalfAt(call[c], w)),
                             call[c].amount)
    /\ CanWrite(call[c], w)

\* A handler is in the second half only of a transfer.
HalvesInOrder ==
  \A c \in Conns :
    /\ leg[c] = 2 => call[c].op = "transfer"
    /\ pc[c] = "commit" => IsLast(c)
    /\ pc[c] = "idle" => leg[c] = 1 /\ draft[c] = NoDraft

\* The reference of a transfer under way is nobody else's.
TransferRefsFresh ==
  \A c \in Conns : pc[c] # "idle" /\ call[c].op = "transfer" =>
    /\ \A w \in Wallets : \A i \in DOMAIN ledger[w] : ledger[w][i].ref # call[c].ref
    /\ \A d \in Conns \ {c} : pc[d] # "idle" => call[d].ref # call[c].ref

\* A transfer commits with both halves written.
BothHalves ==
  \A c \in Conns : call[c].op = "transfer" =>
    /\ leg[c] = 2 => draft[c][call[c].wallet] # NoRow
    /\ pc[c] = "commit" => draft[c][call[c].to] # NoRow

TransactionsInOrder ==
  /\ SnapshotsAge
  /\ ChecksStand
  /\ DraftsStand
  /\ HalvesInOrder
  /\ TransferRefsFresh
  /\ BothHalves
===============================================================================
