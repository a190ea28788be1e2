--------------------------- MODULE WalletLedgerProofs ---------------------------
(***************************************************************************)
(* For any number of wallets, handlers, references and amounts, and        *)
(* whether or not the upsert locks the row it reads: no overdraft, no lost *)
(* update, no half-posted transfer, no difference to reconcile.            *)
(***************************************************************************)
EXTENDS WalletLedger, FiniteSetTheorems, TLAPS

\* The shape of a call: amounts are positive, a transfer has two wallets.
LEMMA CallShape ==
  ASSUME NEW k \in Calls
  PROVE  /\ k.op \in Ops /\ k.wallet \in Wallets /\ k.to \in Wallets
         /\ k.ref \in Refs /\ k.amount \in Amounts
         /\ k.amount \in Nat /\ k.amount > 0
         /\ k.op = "transfer" <=> k.wallet # k.to
  <1>1. k \in Call
    BY ConfigOK
  <1>2. k.amount \in Amounts
    BY <1>1 DEF Call
  <1>3. \A a \in Amounts : a \in Nat /\ a > 0
    BY AmountsPositive
  <1>4. k.op = "transfer" <=> k.wallet # k.to
    BY ConfigOK
  <1> QED
    BY <1>1, <1>2, <1>3, <1>4 DEF Call

\* The wallet and the mutation of either half of a call are of their types,
\* and the half is found again from the wallet.
LEMMA LegShape ==
  ASSUME NEW k \in Calls, NEW half \in 1..2, half = 2 => k.op = "transfer"
  PROVE  /\ LegWallet(k, half) \in Wallets
         /\ LegWallet(k, half) \in {k.wallet, k.to}
         /\ HalfAt(k, LegWallet(k, half)) = half
  BY CallShape DEF LegWallet, HalfAt

LEMMA KindShape ==
  ASSUME NEW k \in Calls, NEW w
  PROVE  /\ HalfAt(k, w) \in 1..2
         /\ LegKind(k, HalfAt(k, w)) \in Kinds
  <1>1. HalfAt(k, w) \in 1..2
    BY DEF HalfAt
  <1> QED
    BY <1>1, CallShape DEF LegKind, Ops, Kinds, HoldKinds

LEMMA DeltaShape ==
  ASSUME NEW kind \in Kinds, NEW amount \in Amounts
  PROVE  AvailableDelta(kind, amount) \in Int /\ PendingDelta(kind, amount) \in Int
  BY AmountsPositive DEF AvailableDelta, PendingDelta, Kinds, HoldKinds

LEMMA KShape ==
  ASSUME TypeOK, HalvesInOrder, NEW c \in Conns
  PROVE  /\ W(c) \in Wallets
         /\ W(c) \in {call[c].wallet, call[c].to}
         /\ HalfAt(call[c], W(c)) = leg[c]
         /\ K(c) \in Kinds
         /\ K(c) = LegKind(call[c], HalfAt(call[c], W(c)))
         /\ call[c] \in Calls
         /\ call[c].amount \in Amounts
  <1>1. call[c] \in Calls /\ leg[c] \in 1..2 /\ (leg[c] = 2 => call[c].op = "transfer")
    BY DEF TypeOK, HalvesInOrder
  <1>2. /\ W(c) \in Wallets
        /\ W(c) \in {call[c].wallet, call[c].to}
        /\ HalfAt(call[c], W(c)) = leg[c]
    BY <1>1, LegShape DEF W
  <1>3. LegKind(call[c], HalfAt(call[c], W(c))) \in Kinds
    BY <1>1, KindShape
  <1> QED
    BY <1>1, <1>2, <1>3, CallShape DEF K
-------------------------------------------------------------------------------
(* Type correctness, one step per action. *)

LEMMA FinishType ==
  ASSUME TypeOK, NEW c \in Conns, Finish(c)
  PROVE  /\ lock' \in [Wallets -> Conns \union {Free}]
         /\ pc' \in [Conns -> Steps]
         /\ call' \in [Conns -> Calls]
         /\ leg' \in [Conns -> 1..2]
         /\ snap' \in [Conns -> Row]
         /\ draft' \in [Conns -> [Wallets -> Row \union {NoRow}]]
  <1>1. AnyCall \in Calls
    BY ConfigOK DEF AnyCall
  <1>2. NewRow \in Row /\ NoDraft \in [Wallets -> Row \union {NoRow}]
    BY DEF NewRow, Row, NoDraft
  <1> QED
    BY <1>1, <1>2 DEF Finish, TypeOK, Steps

LEMMA AdvanceType ==
  ASSUME TypeOK, NEW c \in Conns, Advance(c)
  PROVE  pc' \in [Conns -> Steps] /\ leg' \in [Conns -> 1..2]
  BY DEF Advance, TypeOK, Steps

\* The row a handler writes is never negative: its guard saw to it.
LEMMA NextRowType ==
  ASSUME NEW r \in Row, NEW kind \in Kinds, NEW amount \in Amounts,
         r.available + AvailableDelta(kind, amount) >= 0,
         r.pending + PendingDelta(kind, amount) >= 0
  PROVE  NextRow(r, kind, amount) \in Row
  <1>1. /\ r.available + AvailableDelta(kind, amount) \in Nat
        /\ r.pending + PendingDelta(kind, amount) \in Nat
        /\ r.version + 1 \in Nat
    BY DeltaShape DEF Row
  <1> QED
    BY <1>1 DEF NextRow, Row

LEMMA TypeInit == Init => TypeOK
  <1> SUFFICES ASSUME Init PROVE TypeOK
    OBVIOUS
  <1>1. AnyCall \in Calls
    BY ConfigOK DEF AnyCall
  <1>2. NewRow \in Row /\ NoDraft \in [Wallets -> Row \union {NoRow}]
    BY DEF NewRow, Row, NoDraft
  <1>3. <<>> \in Seq(Entry)
    OBVIOUS
  <1> QED
    BY <1>1, <1>2, <1>3 DEF Init, TypeOK, Steps

LEMMA TypeStep ==
  ASSUME TypeOK, TransactionsInOrder, [Next]_vars
  PROVE  TypeOK'
  <1>0. CASE UNCHANGED vars
    BY <1>0 DEF TypeOK, vars
  <1>1. ASSUME NEW c \in Conns, Start(c) PROVE TypeOK'
    BY <1>1 DEF Start, TypeOK, Steps
  <1>2. ASSUME NEW c \in Conns, Read(c) PROVE TypeOK'
    <2>1. W(c) \in Wallets
      BY KShape DEF TransactionsInOrder
    <2> QED
      BY <1>2, <2>1 DEF Read, TypeOK, Steps
  <1>3. ASSUME NEW c \in Conns, Replay(c) PROVE TypeOK'
    BY <1>3, AdvanceType DEF Replay, TypeOK
  <1>4. ASSUME NEW c \in Conns, Accept(c) PROVE TypeOK'
    BY <1>4 DEF Accept, TypeOK, Steps
  <1>5. ASSUME NEW c \in Conns, Rollback(c) PROVE TypeOK'
    BY <1>5, FinishType DEF Rollback, TypeOK
  <1>6. ASSUME NEW c \in Conns, Write(c) PROVE TypeOK'
    <2>1. W(c) \in Wallets /\ K(c) \in Kinds /\ call[c].amount \in Amounts
      BY KShape DEF TransactionsInOrder
    <2>2. snap[c] = row[W(c)]
      BY <1>6 DEF TransactionsInOrder, SnapshotsAge, Write, GuardHolds
    <2>3. NextRow(snap[c], K(c), call[c].amount) \in Row
      <3>1. row[W(c)] \in Row
        BY <2>1 DEF TypeOK
      <3>2. /\ row[W(c)].available + AvailableDelta(K(c), call[c].amount) >= 0
            /\ row[W(c)].pending + PendingDelta(K(c), call[c].amount) >= 0
        BY <1>6 DEF Write, GuardHolds
      <3> QED
        BY <2>1, <2>2, <3>1, <3>2, NextRowType
    <2>4. draft' \in [Conns -> [Wallets -> Row \union {NoRow}]]
      BY <1>6, <2>1, <2>3 DEF Write, TypeOK
    <2>5. lock' \in [Wallets -> Conns \union {Free}]
      BY <1>6, <2>1 DEF Write, TypeOK
    <2> QED
      BY <1>6, <2>4, <2>5, AdvanceType DEF Write, TypeOK
  <1>7. ASSUME NEW c \in Conns, Commit(c) PROVE TypeOK'
    <2>1. row' \in [Wallets -> Row]
      BY <1>7 DEF Commit, TypeOK
    <2>2. ASSUME NEW w \in Wallets, draft[c][w] # NoRow
          PROVE  EntryFor(call[c], w, draft[c][w].available) \in Entry
      <3>1. call[c] \in Calls /\ draft[c][w] \in Row
        BY <2>2 DEF TypeOK
      <3> QED
        BY <3>1, CallShape, KindShape DEF EntryFor, Entry, Row
    <2>3. ledger' \in [Wallets -> Seq(Entry)]
      BY <1>7, <2>2 DEF Commit, TypeOK
    <2>4. Finish(c)
      BY <1>7 DEF Commit
    <2> QED
      BY <2>1, <2>3, <2>4, FinishType DEF TypeOK
  <1> QED
    BY <1>0, <1>1, <1>2, <1>3, <1>4, <1>5, <1>6, <1>7
    DEF Next, Progress, Refuse, Conflict, DeadlockVictim, Crash
-------------------------------------------------------------------------------
(* What a step of one handler leaves alone. *)

Step(c) == Start(c) \/ Progress(c) \/ Crash(c)

\* The locals of every other handler.
OthersKeep(c) ==
  \A d \in Conns \ {c} :
    /\ pc'[d] = pc[d]
    /\ call'[d] = call[d]
    /\ leg'[d] = leg[d]
    /\ snap'[d] = snap[d]
    /\ draft'[d] = draft[d]
    /\ \A w \in Wallets : lock[w] = d => lock'[w] = d

\* Every committed row, unless the handler had it locked; then it moves on by
\* one version.
RowsKeep(c) ==
  \A w \in Wallets :
    \/ row'[w] = row[w] /\ ledger'[w] = ledger[w]
    \/ /\ lock[w] = c
       /\ row'[w].version = row[w].version + 1

LEMMA FinishKeeps ==
  ASSUME TypeOK, NEW c \in Conns, Finish(c)
  PROVE  OthersKeep(c)
  BY DEF Finish, OthersKeep, TypeOK

LEMMA AdvanceKeeps ==
  ASSUME TypeOK, NEW c \in Conns, Advance(c), NEW d \in Conns \ {c}
  PROVE  pc'[d] = pc[d] /\ leg'[d] = leg[d]
  BY DEF Advance, TypeOK

LEMMA CommitKeeps ==
  ASSUME TypeOK, TransactionsInOrder, NEW c \in Conns, Commit(c), NEW w \in Wallets
  PROVE  \/ /\ row'[w] = row[w]
            /\ ledger'[w] = ledger[w]
         \/ /\ draft[c][w] # NoRow
            /\ lock[w] = c
            /\ row'[w] = draft[c][w]
            /\ row'[w].version = row[w].version + 1
            /\ ledger'[w] = Append(ledger[w], EntryFor(call[c], w, draft[c][w].available))
  <1>1. CASE draft[c][w] = NoRow
    BY <1>1 DEF Commit
  <1>2. CASE draft[c][w] # NoRow
    <2>1. /\ lock[w] = c
          /\ draft[c][w] = NextRow(row[w], LegKind(call[c], HalfAt(call[c], w)),
                                   call[c].amount)
      BY <1>2 DEF TransactionsInOrder, DraftsStand
    <2>2. draft[c][w].version = row[w].version + 1
      BY <2>1 DEF NextRow
    <2> QED
      BY <1>2, <2>1, <2>2 DEF Commit
  <1> QED
    BY <1>1, <1>2

LEMMA StepKeeps ==
  ASSUME TypeOK, TransactionsInOrder, NEW c \in Conns, Step(c)
  PROVE  OthersKeep(c) /\ RowsKeep(c)
  <1>1. CASE Start(c)
    BY <1>1 DEF Start, OthersKeep, RowsKeep, TypeOK
  <1>2. CASE Read(c)
    <2>1. \A w \in Wallets : \A d \in Conns \ {c} : lock[w] = d => lock'[w] = d
      BY <1>2, ConfigOK DEF Read, Available, TypeOK
    <2>2. \A d \in Conns \ {c} : snap'[d] = snap[d] /\ pc'[d] = pc[d]
      BY <1>2 DEF Read, TypeOK
    <2> QED
      BY <1>2, <2>1, <2>2 DEF Read, OthersKeep, RowsKeep
  <1>3. CASE Replay(c)
    BY <1>3, AdvanceKeeps DEF Replay, OthersKeep, RowsKeep
  <1>4. CASE Accept(c)
    BY <1>4 DEF Accept, OthersKeep, RowsKeep, TypeOK
  <1>5. CASE Rollback(c)
    BY <1>5, FinishKeeps DEF Rollback, RowsKeep
  <1>6. CASE Write(c)
    <2>1. \A w \in Wallets : \A d \in Conns \ {c} : lock[w] = d => lock'[w] = d
      BY <1>6, ConfigOK DEF Write, Available, TypeOK
    <2>2. \A d \in Conns \ {c} : draft'[d] = draft[d]
      BY <1>6 DEF Write, TypeOK
    <2> QED
      BY <1>6, <2>1, <2>2, AdvanceKeeps DEF Write, OthersKeep, RowsKeep
  <1>7. CASE Commit(c)
    BY <1>7, FinishKeeps, CommitKeeps DEF Commit, RowsKeep
  <1> QED
    BY <1>1, <1>2, <1>3, <1>4, <1>5, <1>6, <1>7
    DEF Step, Progress, Refuse, Conflict, DeadlockVictim, Crash

\* The steps that leave the committed books alone.
LEMMA OnlyCommitPosts ==
  ASSUME NEW c \in Conns, Step(c), ~Commit(c)
  PROVE  UNCHANGED <<row, ledger>>
  BY DEF Step, Start, Progress, Read, Replay, Accept, Refuse, Write, Conflict,
         DeadlockVictim, Crash, Rollback
-------------------------------------------------------------------------------
(* What a handler holds about the books survives the steps of the others. *)

LEMMA OtherSnapshots ==
  ASSUME TypeOK, TransactionsInOrder, NEW c \in Conns, Step(c),
         NEW d \in Conns \ {c}, pc'[d] \in {"check", "write"}
  PROVE  /\ W(d)' = W(d)
         /\ W(d) \in Wallets
         /\ snap'[d].version <= row'[W(d)].version
         /\ snap'[d].version = row'[W(d)].version =>
              /\ snap'[d] = row'[W(d)]
              /\ row'[W(d)] = row[W(d)]
              /\ ledger'[W(d)] = ledger[W(d)]
  <1>1. OthersKeep(c) /\ RowsKeep(c)
    BY StepKeeps
  <1>2. W(d)' = W(d) /\ W(d) \in Wallets
    BY <1>1, KShape DEF OthersKeep, W, TransactionsInOrder
  <1>3. /\ snap[d].version <= row[W(d)].version
        /\ snap[d].version = row[W(d)].version => snap[d] = row[W(d)]
    BY <1>1 DEF OthersKeep, TransactionsInOrder, SnapshotsAge
  <1>4. snap[d].version \in Nat /\ row[W(d)].version \in Nat
    BY <1>2 DEF TypeOK, Row
  <1>5. CASE row'[W(d)] = row[W(d)] /\ ledger'[W(d)] = ledger[W(d)]
    BY <1>1, <1>2, <1>3, <1>5 DEF OthersKeep
  <1>6. CASE row'[W(d)].version = row[W(d)].version + 1
    BY <1>1, <1>2, <1>3, <1>4, <1>6 DEF OthersKeep
  <1> QED
    BY <1>1, <1>2, <1>5, <1>6 DEF RowsKeep

LEMMA OtherDrafts ==
  ASSUME TypeOK, TransactionsInOrder, NEW c \in Conns, Step(c),
         NEW d \in Conns \ {c}, NEW w \in Wallets, draft'[d][w] # NoRow
  PROVE  /\ lock'[w] = d
         /\ w \in {call'[d].wallet, call'[d].to}
         /\ pc'[d] = "commit" \/ (leg'[d] = 2 /\ w # W(d)')
         /\ draft'[d][w] = NextRow(row'[w], LegKind(call'[d], HalfAt(call'[d], w)),
                                   call'[d].amount)
         /\ CanWrite(call[d], w)'
  <1>1. OthersKeep(c) /\ RowsKeep(c)
    BY StepKeeps
  <1>2. draft[d][w] # NoRow
    BY <1>1 DEF OthersKeep
  <1>3. /\ lock[w] = d
        /\ w \in {call[d].wallet, call[d].to}
        /\ pc[d] = "commit" \/ (leg[d] = 2 /\ w # W(d))
        /\ draft[d][w] = NextRow(row[w], LegKind(call[d], HalfAt(call[d], w)),
                                 call[d].amount)
        /\ CanWrite(call[d], w)
    BY <1>2 DEF TransactionsInOrder, DraftsStand
  <1>4. row'[w] = row[w] /\ ledger'[w] = ledger[w]
    BY <1>1, <1>3 DEF RowsKeep
  <1>5. W(d)' = W(d)
    BY <1>1 DEF OthersKeep, W
  <1>6. CanWrite(call[d], w)'
    BY <1>1, <1>3, <1>4 DEF OthersKeep, CanWrite
  <1> QED
    BY <1>1, <1>3, <1>4, <1>5, <1>6 DEF OthersKeep
-------------------------------------------------------------------------------
(* The same for the handler that takes the step, one conjunct at a time. *)

LEMMA SnapshotsStep ==
  ASSUME TypeOK, TransactionsInOrder, NEW c \in Conns, Step(c)
  PROVE  SnapshotsAge' /\ ChecksStand'
  <1> DEFINE Own ==
        pc'[c] \in {"check", "write"} =>
          /\ snap'[c].version <= row'[W(c)'].version
          /\ snap'[c].version = row'[W(c)'].version => snap'[c] = row'[W(c)']
          /\ pc'[c] = "write" /\ snap'[c].version = row'[W(c)'].version =>
               Admits(ledger[W(c)], row[W(c)].available, K(c), call[c].ref,
                      call[c].amount)'
  <1>1. ASSUME Read(c) PROVE Own
    <2>1. W(c)' = W(c) /\ W(c) \in Wallets
      BY <1>1, KShape DEF Read, W, TransactionsInOrder
    <2>2. snap'[c] = row'[W(c)] /\ pc'[c] = "check"
      BY <1>1, <2>1 DEF Read, TypeOK
    <2>3. row'[W(c)].version \in Nat
      BY <1>1, <2>1 DEF Read, TypeOK, Row
    <2> QED
      BY <2>1, <2>2, <2>3
  <1>2. ASSUME Accept(c) PROVE Own
    <2>1. /\ W(c)' = W(c) /\ K(c)' = K(c) /\ W(c) \in Wallets
          /\ snap' = snap /\ row' = row /\ ledger' = ledger /\ call' = call
      BY <1>2, KShape DEF Accept, W, K, TransactionsInOrder
    <2>2. /\ snap[c].version <= row[W(c)].version
          /\ snap[c].version = row[W(c)].version => snap[c] = row[W(c)]
      BY <1>2 DEF Accept, TransactionsInOrder, SnapshotsAge
    <2>3. Admits(ledger[W(c)], snap[c].available, K(c), call[c].ref, call[c].amount)
      BY <1>2 DEF Accept
    <2>4. snap[c].version = row[W(c)].version =>
            Admits(ledger[W(c)], row[W(c)].available, K(c), call[c].ref, call[c].amount)'
      BY <2>1, <2>2, <2>3 DEF Admits, OpenHold, IsPosted
    <2> QED
      BY <2>1, <2>2, <2>4
  <1>3. ASSUME pc'[c] \notin {"check", "write"} PROVE Own
    BY <1>3
  <1>4. Own
    <2>1. \/ Read(c) \/ Accept(c) \/ pc'[c] \notin {"check", "write"}
      BY DEF Step, Start, Progress, Replay, Refuse, Write, Conflict, Commit,
             DeadlockVictim, Crash, Rollback, Finish, Advance, TypeOK
    <2> QED
      BY <1>1, <1>2, <1>3, <2>1
  <1>5. SnapshotsAge'
    <2> SUFFICES ASSUME NEW d \in Conns, pc'[d] \in {"check", "write"}
                 PROVE  /\ snap'[d].version <= row'[W(d)'].version
                        /\ snap'[d].version = row'[W(d)'].version
                             => snap'[d] = row'[W(d)']
      BY DEF SnapshotsAge
    <2>1. CASE d = c
      BY <1>4, <2>1
    <2>2. CASE d # c
      BY <2>2, OtherSnapshots
    <2> QED
      BY <2>1, <2>2
  <1>6. ChecksStand'
    <2> SUFFICES ASSUME NEW d \in Conns, pc'[d] = "write",
                        snap'[d].version = row'[W(d)'].version
                 PROVE  Admits(ledger[W(d)], row[W(d)].available, K(d), call[d].ref,
                               call[d].amount)'
      BY DEF ChecksStand
    <2>1. CASE d = c
      BY <1>4, <2>1
    <2>2. CASE d # c
      <3>1. OthersKeep(c)
        BY StepKeeps
      <3>2. /\ W(d)' = W(d) /\ row'[W(d)] = row[W(d)] /\ ledger'[W(d)] = ledger[W(d)]
        BY <2>2, OtherSnapshots
      <3>3. K(d)' = K(d) /\ call'[d] = call[d] /\ pc[d] = "write" /\ snap'[d] = snap[d]
        BY <2>2, <3>1 DEF OthersKeep, K
      <3>4. Admits(ledger[W(d)], row[W(d)].available, K(d), call[d].ref, call[d].amount)
        BY <3>2, <3>3 DEF TransactionsInOrder, ChecksStand
      <3> QED
        BY <3>2, <3>3, <3>4 DEF Admits, OpenHold, IsPosted
    <2> QED
      BY <2>1, <2>2
  <1> QED
    BY <1>5, <1>6

LEMMA HalvesStep ==
  ASSUME TypeOK, TransactionsInOrder, NEW c \in Conns, Step(c)
  PROVE  HalvesInOrder'
  <1> SUFFICES ASSUME NEW d \in Conns
               PROVE  /\ leg'[d] = 2 => call'[d].op = "transfer"
                      /\ pc'[d] = "commit" => IsLast(d)'
                      /\ pc'[d] = "idle" => leg'[d] = 1 /\ draft'[d] = NoDraft
    BY DEF HalvesInOrder
  <1>1. /\ leg[d] = 2 => call[d].op = "transfer"
        /\ pc[d] = "commit" => IsLast(d)
        /\ pc[d] = "idle" => leg[d] = 1 /\ draft[d] = NoDraft
    BY DEF TransactionsInOrder, HalvesInOrder
  <1>2. CASE d # c
    <2>1. OthersKeep(c)
      BY StepKeeps
    <2>2. pc'[d] = pc[d] /\ leg'[d] = leg[d] /\ call'[d] = call[d] /\ draft'[d] = draft[d]
      BY <1>2, <2>1 DEF OthersKeep
    <2> QED
      BY <1>1, <2>2 DEF IsLast
  <1>3. CASE d = c
    <2>1. CASE Start(c)
      BY <1>1, <1>3, <2>1 DEF Start, TypeOK
    <2>2. CASE Read(c) \/ Accept(c)
      BY <1>1, <1>3, <2>2 DEF Read, Accept, TypeOK
    <2>3. CASE Replay(c) \/ Write(c)
      <3>1. Advance(c) /\ call' = call
        BY <2>3 DEF Replay, Write
      <3> QED
        BY <1>1, <1>3, <3>1 DEF Advance, IsLast, TypeOK
    <2>4. CASE Finish(c)
      BY <1>3, <2>4 DEF Finish, TypeOK
    <2> QED
      BY <2>1, <2>2, <2>3, <2>4
      DEF Step, Progress, Refuse, Conflict, Commit, DeadlockVictim, Crash, Rollback
  <1> QED
    BY <1>2, <1>3

\* A write is made under the lock, from the current row, after checks that
\* still stand.
LEMMA WriteIsCurrent ==
  ASSUME TypeOK, TransactionsInOrder, NEW c \in Conns, Write(c)
  PROVE  /\ lock'[W(c)] = c
         /\ draft'[c][W(c)] = NextRow(row[W(c)], K(c), call[c].amount)
         /\ CanWrite(call[c], W(c))
         /\ \A w \in Wallets \ {W(c)} : draft'[c][w] = draft[c][w] /\ lock'[w] = lock[w]
  <1>1. W(c) \in Wallets /\ K(c) = LegKind(call[c], HalfAt(call[c], W(c)))
    BY KShape DEF TransactionsInOrder
  <1>2. /\ snap[c] = row[W(c)]
        /\ Admits(ledger[W(c)], row[W(c)].available, K(c), call[c].ref, call[c].amount)
    BY DEF Write, GuardHolds, TransactionsInOrder, SnapshotsAge, ChecksStand
  <1>3. CanWrite(call[c], W(c))
    BY <1>1, <1>2 DEF Write, GuardHolds, CanWrite
  <1>4. lock'[W(c)] = c /\ \A w \in Wallets \ {W(c)} : lock'[w] = lock[w]
    BY <1>1 DEF Write, TypeOK
  <1>5. /\ draft'[c][W(c)] = NextRow(snap[c], K(c), call[c].amount)
        /\ \A w \in Wallets \ {W(c)} : draft'[c][w] = draft[c][w]
    BY <1>1 DEF Write, TypeOK
  <1> QED
    BY <1>2, <1>3, <1>4, <1>5

LEMMA DraftsStep ==
  ASSUME TypeOK, TransactionsInOrder, NEW c \in Conns, Step(c)
  PROVE  DraftsStand'
  <1> DEFINE Stands(w) ==
        /\ lock'[w] = c
        /\ w \in {call'[c].wallet, call'[c].to}
        /\ pc'[c] = "commit" \/ (leg'[c] = 2 /\ w # W(c)')
        /\ draft'[c][w] = NextRow(row'[w], LegKind(call'[c], HalfAt(call'[c], w)),
                                  call'[c].amount)
        /\ CanWrite(call[c], w)'
  <1>1. ASSUME NEW w \in Wallets, draft'[c][w] # NoRow PROVE Stands(w)
    <2>0. draft[c][w] # NoRow =>
            /\ lock[w] = c
            /\ w \in {call[c].wallet, call[c].to}
            /\ pc[c] = "commit" \/ (leg[c] = 2 /\ w # W(c))
            /\ draft[c][w] = NextRow(row[w], LegKind(call[c], HalfAt(call[c], w)),
                                     call[c].amount)
            /\ CanWrite(call[c], w)
      BY DEF TransactionsInOrder, DraftsStand
    <2>1. ASSUME Start(c) PROVE FALSE
      BY <1>1, <2>1 DEF Start, TransactionsInOrder, HalvesInOrder, NoDraft
    <2>2. ASSUME Finish(c) PROVE FALSE
      BY <1>1, <2>2 DEF Finish, NoDraft, TypeOK
    <2>3. CASE Read(c) \/ Accept(c)
      <3>1. /\ draft' = draft /\ call' = call /\ leg' = leg
            /\ row' = row /\ ledger' = ledger
        BY <2>3 DEF Read, Accept
      <3>2. W(c)' = W(c) /\ CanWrite(call[c], w)' = CanWrite(call[c], w)
        BY <3>1 DEF W, CanWrite
      <3>3. lock[w] = c => lock'[w] = c
        BY <2>3 DEF Read, Accept, TypeOK
      <3>4. pc[c] # "commit"
        BY <2>3 DEF Read, Accept
      <3> QED
        BY <1>1, <2>0, <3>1, <3>2, <3>3, <3>4
    <2>4. CASE Replay(c)
      <3>1. /\ draft' = draft /\ call' = call /\ lock' = lock
            /\ row' = row /\ ledger' = ledger /\ Advance(c) /\ pc[c] = "check"
        BY <2>4 DEF Replay
      <3>2. CanWrite(call[c], w)' = CanWrite(call[c], w)
        BY <3>1 DEF CanWrite
      <3>3. leg[c] = 2
        BY <1>1, <2>0, <3>1
      <3>4. pc'[c] = "commit"
        BY <3>1, <3>3 DEF Advance, IsLast, TypeOK
      <3> QED
        BY <1>1, <2>0, <3>1, <3>2, <3>4
    <2>5. CASE Write(c)
      <3>1. /\ call' = call /\ row' = row /\ ledger' = ledger /\ Advance(c)
            /\ pc[c] = "write"
        BY <2>5 DEF Write
      <3>2. CanWrite(call[c], w)' = CanWrite(call[c], w)
        BY <3>1 DEF CanWrite
      <3>3. /\ W(c) \in {call[c].wallet, call[c].to}
            /\ K(c) = LegKind(call[c], HalfAt(call[c], W(c)))
            /\ call[c] \in Calls
        BY KShape DEF TransactionsInOrder
      <3>4. CASE w # W(c)
        <4>1. draft'[c][w] = draft[c][w] /\ lock'[w] = lock[w]
          BY <2>5, <3>4, WriteIsCurrent
        <4>2. leg[c] = 2
          BY <1>1, <2>0, <3>1, <4>1
        <4>3. pc'[c] = "commit"
          BY <3>1, <4>2 DEF Advance, IsLast, TypeOK
        <4> QED
          BY <1>1, <2>0, <3>1, <3>2, <4>1, <4>3
      <3>5. CASE w = W(c)
        <4>1. /\ lock'[w] = c
              /\ draft'[c][w] = NextRow(row[w], K(c), call[c].amount)
              /\ CanWrite(call[c], w)
          BY <2>5, <3>5, WriteIsCurrent
        <4>2. pc'[c] = "commit" \/ (leg'[c] = 2 /\ w # W(c)')
          <5>1. CASE IsLast(c)
            BY <3>1, <5>1 DEF Advance, TypeOK
          <5>2. CASE ~IsLast(c)
            <6>1. call[c].op = "transfer" /\ leg[c] = 1
              BY <5>2 DEF IsLast, TypeOK
            <6>2. leg'[c] = 2
              BY <3>1, <5>2 DEF Advance, TypeOK
            <6>3. w = call[c].wallet /\ W(c)' = call[c].to
              BY <3>1, <3>5, <6>1, <6>2 DEF W, LegWallet
            <6> QED
              BY <3>3, <6>1, <6>2, <6>3, CallShape
          <5> QED
            BY <5>1, <5>2
        <4> QED
          BY <3>1, <3>2, <3>3, <3>5, <4>1, <4>2
      <3> QED
        BY <3>4, <3>5
    <2> QED
      BY <2>1, <2>2, <2>3, <2>4, <2>5
      DEF Step, Progress, Refuse, Conflict, Commit, DeadlockVictim, Crash, Rollback
  <1>2. ASSUME NEW d \in Conns, NEW w \in Wallets, draft'[d][w] # NoRow
        PROVE  /\ lock'[w] = d
               /\ w \in {call'[d].wallet, call'[d].to}
               /\ pc'[d] = "commit" \/ (leg'[d] = 2 /\ w # W(d)')
               /\ draft'[d][w] = NextRow(row'[w],
                                         LegKind(call'[d], HalfAt(call'[d], w)),
                                         call'[d].amount)
               /\ CanWrite(call[d], w)'
    <2>1. CASE d = c
      BY <1>1, <1>2, <2>1
    <2>2. CASE d # c
      BY <1>2, <2>2, OtherDrafts
    <2> QED
      BY <2>1, <2>2
  <1> QED
    BY <1>2 DEF DraftsStand

LEMMA RefsFreshStep ==
  ASSUME TypeOK, TransactionsInOrder, NEW c \in Conns, Step(c)
  PROVE  TransferRefsFresh'
  <1>0. TypeOK'
    BY TypeStep DEF Step, Next
  <1>1. OthersKeep(c)
    BY StepKeeps
  <1>2. CASE Start(c)
    <2>1. /\ \A d \in Conns : pc'[d] # "idle" /\ d # c => pc[d] # "idle" /\ call'[d] = call[d]
          /\ ledger' = ledger
          /\ call'[c] \in Calls
          /\ call'[c].op = "transfer" => Unused(call'[c].ref)
      BY <1>1, <1>2 DEF OthersKeep, Start, TypeOK
    <2>2. \A d \in Conns \ {c} :
            pc'[d] # "idle" /\ call'[c].ref = call'[d].ref =>
              call'[c].op # "transfer" /\ call'[d].op # "transfer"
      BY <2>1, ConfigOK DEF Unused, TypeOK
    <2> QED
      BY <2>1, <2>2 DEF TransactionsInOrder, TransferRefsFresh, Unused
  <1>3. CASE Commit(c)
    <2>1. pc'[c] = "idle" /\ pc[c] # "idle"
      BY <1>3 DEF Commit, Finish, TypeOK
    <2>2. ASSUME NEW d \in Conns, pc'[d] # "idle", call'[d].op = "transfer",
                 NEW w \in Wallets, NEW i \in DOMAIN ledger'[w]
          PROVE  ledger'[w][i].ref # call'[d].ref
      <3>1. d # c /\ pc[d] # "idle" /\ call'[d] = call[d]
        BY <1>1, <2>1, <2>2 DEF OthersKeep
      <3>2. call[c].ref # call[d].ref
        BY <2>1, <2>2, <3>1 DEF TransactionsInOrder, TransferRefsFresh
      <3>3. ledger[w] \in Seq(Entry)
        BY DEF TypeOK
      <3>4. CASE ledger'[w] = ledger[w]
        BY <2>2, <3>1, <3>4 DEF TransactionsInOrder, TransferRefsFresh
      <3>5. CASE ledger'[w] = Append(ledger[w], EntryFor(call[c], w, draft[c][w].available))
        <4>1. i \in DOMAIN ledger[w] \/ ledger'[w][i] = EntryFor(call[c], w, draft[c][w].available)
          BY <2>2, <3>3, <3>5
        <4>2. i \in DOMAIN ledger[w] => ledger'[w][i] = ledger[w][i]
          BY <2>2, <3>3, <3>5
        <4> QED
          BY <2>2, <3>1, <3>2, <4>1, <4>2
          DEF TransactionsInOrder, TransferRefsFresh, EntryFor
      <3> QED
        BY <1>3, <3>4, <3>5, CommitKeeps
    <2>3. ASSUME NEW d \in Conns, pc'[d] # "idle", call'[d].op = "transfer",
                 NEW e \in Conns \ {d}, pc'[e] # "idle"
          PROVE  call'[e].ref # call'[d].ref
      <3>1. /\ d # c /\ pc[d] # "idle" /\ call'[d] = call[d]
            /\ e # c /\ pc[e] # "idle" /\ call'[e] = call[e]
        BY <1>1, <2>1, <2>3 DEF OthersKeep
      <3> QED
        BY <2>3, <3>1 DEF TransactionsInOrder, TransferRefsFresh
    <2> QED
      BY <2>2, <2>3 DEF TransferRefsFresh
  <1>4. CASE ~Start(c) /\ ~Commit(c)
    <2>1. ledger' = ledger
      BY <1>4, OnlyCommitPosts
    <2>2. \A d \in Conns : pc'[d] # "idle" => pc[d] # "idle" /\ call'[d] = call[d]
      <3>1. pc'[c] # "idle" => pc[c] # "idle" /\ call'[c] = call[c]
        BY <1>4 DEF Step, Progress, Read, Replay, Accept, Refuse, Write, Conflict,
                    DeadlockVictim, Crash, Rollback, Finish, TypeOK
      <3> QED
        BY <1>1, <3>1 DEF OthersKeep
    <2> QED
      BY <2>1, <2>2 DEF TransactionsInOrder, TransferRefsFresh
  <1> QED
    BY <1>2, <1>3, <1>4

LEMMA BothHalvesStep ==
  ASSUME TypeOK, TransactionsInOrder, NEW c \in Conns, Step(c)
  PROVE  BothHalves'
  <1> SUFFICES ASSUME NEW d \in Conns, call'[d].op = "transfer"
               PROVE  /\ leg'[d] = 2 => draft'[d][call'[d].wallet] # NoRow
                      /\ pc'[d] = "commit" => draft'[d][call'[d].to] # NoRow
    BY DEF BothHalves
  <1>1. call[d].op = "transfer" =>
          /\ leg[d] = 2 => draft[d][call[d].wallet] # NoRow
          /\ pc[d] = "commit" => draft[d][call[d].to] # NoRow
    BY DEF TransactionsInOrder, BothHalves
  <1>2. OthersKeep(c)
    BY StepKeeps
  <1>3. CASE d # c
    <2>1. /\ pc'[d] = pc[d] /\ call'[d] = call[d] /\ leg'[d] = leg[d]
          /\ draft'[d] = draft[d]
      BY <1>2, <1>3 DEF OthersKeep
    <2> QED
      BY <1>1, <2>1
  <1>4. CASE d = c
    <2>1. CASE Start(c)
      BY <1>4, <2>1 DEF Start, TransactionsInOrder, HalvesInOrder, TypeOK
    <2>2. CASE Read(c) \/ Accept(c)
      BY <1>1, <1>4, <2>2 DEF Read, Accept, TypeOK
    <2>3. CASE Replay(c)
      \* the reference of a transfer is in no ledger
      <3>1. call[c].op = "transfer" /\ pc[c] = "check"
            /\ IsPosted(ledger[W(c)], K(c), call[c].ref)
        BY <1>4, <2>3 DEF Replay
      <3>2. W(c) \in Wallets
        BY KShape DEF TransactionsInOrder
      <3>3. K(c) \notin HoldKinds
        BY <3>1 DEF K, LegKind, HoldKinds
      <3> QED
        BY <3>1, <3>2, <3>3
        DEF IsPosted, Key, TransactionsInOrder, TransferRefsFresh
    <2>4. CASE Write(c)
      <3>1. call' = call /\ Advance(c) /\ call[c].op = "transfer"
        BY <1>4, <2>4 DEF Write
      <3>2. call[c] \in Calls /\ W(c) \in Wallets /\ row[W(c)] \in Row
            /\ call[c].wallet \in Wallets /\ call[c].wallet # call[c].to
        BY <3>1, KShape, CallShape DEF TransactionsInOrder, TypeOK
      <3>3. draft'[c][W(c)] # NoRow
        <4>1. draft'[c][W(c)] = NextRow(row[W(c)], K(c), call[c].amount)
              /\ CanWrite(call[c], W(c))
          BY <2>4, WriteIsCurrent
        <4>2. /\ K(c) \in Kinds /\ call[c].amount \in Amounts
              /\ K(c) = LegKind(call[c], HalfAt(call[c], W(c)))
          BY KShape DEF TransactionsInOrder
        <4>3. NextRow(row[W(c)], K(c), call[c].amount) \in Row
          BY <3>2, <4>1, <4>2, NextRowType DEF CanWrite
        <4> QED
          BY <4>1, <4>3, ConfigOK
      <3>4. CASE leg[c] = 2
        <4>1. W(c) = call[c].to
          BY <3>4 DEF W, LegWallet
        <4>2. draft'[c][call[c].wallet] = draft[c][call[c].wallet]
          BY <2>4, <3>2, <4>1, WriteIsCurrent
        <4> QED
          BY <1>1, <1>4, <3>1, <3>3, <3>4, <4>1, <4>2
      <3>5. CASE leg[c] = 1
        <4>1. W(c) = call[c].wallet
          BY <3>5 DEF W, LegWallet
        <4>2. pc'[c] = "read"
          BY <3>1, <3>5 DEF Advance, IsLast, TypeOK
        <4> QED
          BY <1>4, <3>1, <3>3, <4>1, <4>2
      <3> QED
        BY <3>4, <3>5 DEF TypeOK
    <2>5. CASE Finish(c)
      BY <1>4, <2>5 DEF Finish, TypeOK
    <2> QED
      BY <2>1, <2>2, <2>3, <2>4, <2>5
      DEF Step, Progress, Refuse, Conflict, Commit, DeadlockVictim, Crash, Rollback
  <1> QED
    BY <1>3, <1>4
-------------------------------------------------------------------------------
LedgerInv == TypeOK /\ TransactionsInOrder

\* At all times, whatever the handlers overlap: snapshots, checks, drafts and
\* row locks are as the transactions of wallet.service.ts need them to be.
THEOREM LedgerInvariant == Spec => [](TypeOK /\ TransactionsInOrder)
  <1>1. Init => LedgerInv
    <2> SUFFICES ASSUME Init PROVE LedgerInv
      OBVIOUS
    <2>1. \A c \in Conns : pc[c] = "idle" /\ leg[c] = 1 /\ draft[c] = NoDraft
      BY DEF Init
    <2>2. \A c \in Conns : \A w \in Wallets : draft[c][w] = NoRow
      BY <2>1 DEF NoDraft
    <2> QED
      BY <2>1, <2>2, TypeInit
      DEF LedgerInv, TransactionsInOrder, SnapshotsAge, ChecksStand, DraftsStand,
          HalvesInOrder, TransferRefsFresh, BothHalves
  <1>2. LedgerInv /\ [Next]_vars => LedgerInv'
    <2> SUFFICES ASSUME LedgerInv, [Next]_vars PROVE LedgerInv'
      OBVIOUS
    <2>1. TypeOK'
      BY TypeStep DEF LedgerInv
    <2>2. CASE Next
      <3>1. PICK c \in Conns : Step(c)
        BY <2>2 DEF Next, Step
      <3> QED
        BY <2>1, <3>1, SnapshotsStep, DraftsStep, HalvesStep, RefsFreshStep,
           BothHalvesStep
        DEF LedgerInv, TransactionsInOrder
    <2>3. CASE UNCHANGED vars
      BY <2>1, <2>3
      DEF LedgerInv, vars, TransactionsInOrder, SnapshotsAge, ChecksStand,
          DraftsStand, HalvesInOrder, TransferRefsFresh, BothHalves, CanWrite,
          Admits, OpenHold, IsPosted, W, K, IsLast
    <2> QED
      BY <2>2, <2>3
  <1> QED
    BY <1>1, <1>2, PTL DEF Spec, LedgerInv

\* The variables always hold values of their types; in particular neither the
\* spendable nor the pending balance is ever negative.
THEOREM TypeInvariant == Spec => []TypeOK
  BY LedgerInvariant, PTL

\* What a commit does to the books of one wallet: nothing, or exactly the
\* mutation that was asked for, which the books of that moment admit.
LEMMA CommitPosts ==
  ASSUME TypeOK, TransactionsInOrder, NEW c \in Conns, Commit(c), NEW w \in Wallets
  PROVE  \/ /\ row'[w] = row[w]
            /\ ledger'[w] = ledger[w]
            /\ draft[c][w] = NoRow
         \/ /\ draft[c][w] # NoRow
            /\ w \in {call[c].wallet, call[c].to}
            /\ CanWrite(call[c], w)
            /\ row'[w] = NextRow(row[w], LegKind(call[c], HalfAt(call[c], w)),
                                 call[c].amount)
            /\ ledger'[w] = Append(ledger[w], EntryFor(call[c], w, row'[w].available))
            /\ EntryFor(call[c], w, row'[w].available) \in Entry
  <1>1. CASE draft[c][w] = NoRow
    BY <1>1 DEF Commit
  <1>2. CASE draft[c][w] # NoRow
    <2>1. /\ w \in {call[c].wallet, call[c].to}
          /\ CanWrite(call[c], w)
          /\ draft[c][w] = NextRow(row[w], LegKind(call[c], HalfAt(call[c], w)),
                                   call[c].amount)
      BY <1>2 DEF TransactionsInOrder, DraftsStand
    <2>2. draft[c][w] \in Row /\ call[c] \in Calls
      BY <1>2 DEF TypeOK
    <2>3. EntryFor(call[c], w, draft[c][w].available) \in Entry
      BY <2>2, CallShape, KindShape DEF EntryFor, Entry, Row
    <2> QED
      BY <1>2, <2>1, <2>3 DEF Commit
  <1> QED
    BY <1>1, <1>2

\* Every invariant of the committed books is kept by the steps that do not
\* touch them; this is the step that does, for one wallet.
LEMMA BooksBalanceAppend ==
  ASSUME TypeOK, NEW k \in Calls, NEW w \in Wallets, CanWrite(k, w),
         row'[w] = NextRow(row[w], LegKind(k, HalfAt(k, w)), k.amount),
         ledger'[w] = Append(ledger[w], EntryFor(k, w, row'[w].available)),
         /\ \A i \in 1..Len(ledger[w]) :
              ledger[w][i].after =
                Before(ledger[w], i)
                  + AvailableDelta(ledger[w][i].kind, ledger[w][i].amount)
         /\ row[w].available = Before(ledger[w], Len(ledger[w]) + 1)
         /\ row[w].version = Len(ledger[w])
  PROVE  /\ \A i \in 1..Len(ledger'[w]) :
              ledger'[w][i].after =
                Before(ledger'[w], i)
                  + AvailableDelta(ledger'[w][i].kind, ledger'[w][i].amount)
         /\ row'[w].available = Before(ledger'[w], Len(ledger'[w]) + 1)
         /\ row'[w].version = Len(ledger'[w])
  <1> DEFINE n == Len(ledger[w])
             e == EntryFor(k, w, row'[w].available)
  <1>1. ledger[w] \in Seq(Entry) /\ row[w] \in Row /\ n \in Nat
    BY DEF TypeOK
  <1>2. /\ Len(ledger'[w]) = n + 1
        /\ ledger'[w][n + 1] = e
        /\ \A i \in 1..n : ledger'[w][i] = ledger[w][i]
    BY <1>1
  <1>3. \A i \in 1..(n + 1) : Before(ledger'[w], i) = Before(ledger[w], i)
    BY <1>1, <1>2 DEF Before
  <1>4. /\ e.after = row[w].available + AvailableDelta(e.kind, e.amount)
        /\ e.after = row'[w].available
        /\ row'[w].version = row[w].version + 1
    BY DEF EntryFor, NextRow
  <1>5. row'[w].available = Before(ledger'[w], n + 2)
    BY <1>1, <1>2, <1>4 DEF Before
  <1>6. ASSUME NEW i \in 1..(n + 1)
        PROVE  ledger'[w][i].after =
                 Before(ledger'[w], i)
                   + AvailableDelta(ledger'[w][i].kind, ledger'[w][i].amount)
    <2>1. CASE i = n + 1
      BY <1>1, <1>2, <1>3, <1>4, <2>1
    <2>2. CASE i \in 1..n
      BY <1>1, <1>2, <1>3, <2>2
    <2> QED
      BY <1>1, <2>1, <2>2
  <1> QED
    BY <1>1, <1>2, <1>4, <1>5, <1>6

\* The books balance at all times: no lost update, no balance without its
\* entry, no entry without its balance.
THEOREM BooksAlwaysBalance == Spec => []BooksBalance
  <1>1. Init => BooksBalance
    BY DEF Init, BooksBalance, Before, NewRow
  <1>2. ASSUME LedgerInv, BooksBalance, [Next]_vars PROVE BooksBalance'
    <2>1. CASE UNCHANGED <<row, ledger>>
      BY <1>2, <2>1 DEF BooksBalance
    <2>2. ASSUME NEW c \in Conns, Commit(c) PROVE BooksBalance'
      <3> SUFFICES ASSUME NEW w \in Wallets
                   PROVE  /\ \A i \in 1..Len(ledger'[w]) :
                               ledger'[w][i].after =
                                 Before(ledger'[w], i)
                                   + AvailableDelta(ledger'[w][i].kind,
                                                    ledger'[w][i].amount)
                          /\ row'[w].available = Before(ledger'[w], Len(ledger'[w]) + 1)
                          /\ row'[w].version = Len(ledger'[w])
        BY DEF BooksBalance
      <3>1. call[c] \in Calls
        BY <1>2 DEF LedgerInv, TypeOK
      <3> QED
        BY <1>2, <2>2, <3>1, CommitPosts, BooksBalanceAppend DEF LedgerInv, BooksBalance
    <2> QED
      BY <1>2, <2>1, <2>2, OnlyCommitPosts DEF Next, Step, vars
  <1> QED
    BY <1>1, <1>2, LedgerInvariant, PTL DEF Spec, LedgerInv

LEMMA AppendedEntries ==
  ASSUME NEW entries \in Seq(Entry), NEW e \in Entry
  PROVE  LET longer == Append(entries, e) IN
           /\ Len(entries) \in Nat
           /\ Len(longer) = Len(entries) + 1
           /\ DOMAIN longer = 1..(Len(entries) + 1)
           /\ DOMAIN entries = 1..Len(entries)
           /\ longer[Len(entries) + 1] = e
           /\ \A i \in 1..Len(entries) : longer[i] = entries[i]
  OBVIOUS

\* No retry, however concurrent, posts a reference to a wallet twice.
THEOREM ReferencesPostedOnce == Spec => []ReferencePostedOnce
  <1>1. Init => ReferencePostedOnce
    BY DEF Init, ReferencePostedOnce
  <1>2. ASSUME LedgerInv, ReferencePostedOnce, [Next]_vars PROVE ReferencePostedOnce'
    <2>1. CASE UNCHANGED <<row, ledger>>
      BY <1>2, <2>1 DEF ReferencePostedOnce
    <2>2. ASSUME NEW c \in Conns, Commit(c) PROVE ReferencePostedOnce'
      <3> SUFFICES ASSUME NEW w \in Wallets,
                          NEW i \in 1..Len(ledger'[w]), NEW j \in 1..Len(ledger'[w]),
                          Key(ledger'[w][i].kind, ledger'[w][i].ref)
                            = Key(ledger'[w][j].kind, ledger'[w][j].ref)
                   PROVE  i = j
        BY DEF ReferencePostedOnce
      <3>1. CASE ledger'[w] = ledger[w]
        BY <1>2, <3>1 DEF ReferencePostedOnce
      <3>2. CASE /\ CanWrite(call[c], w)
                 /\ ledger'[w] = Append(ledger[w], EntryFor(call[c], w, row'[w].available))
                 /\ EntryFor(call[c], w, row'[w].available) \in Entry
        <4> DEFINE e == EntryFor(call[c], w, row'[w].available)
                   n == Len(ledger[w])
        <4>1. /\ n \in Nat /\ Len(ledger'[w]) = n + 1 /\ ledger'[w][n + 1] = e
              /\ \A m \in 1..n : ledger'[w][m] = ledger[w][m]
              /\ DOMAIN ledger[w] = 1..n
          BY <1>2, <3>2, AppendedEntries DEF LedgerInv, TypeOK
        <4>2. \A m \in 1..n : Key(ledger[w][m].kind, ledger[w][m].ref) # Key(e.kind, e.ref)
          BY <3>2, <4>1 DEF CanWrite, IsPosted, EntryFor
        <4>3. i \in 1..n \/ i = n + 1
          BY <4>1
        <4>4. j \in 1..n \/ j = n + 1
          BY <4>1
        <4>5. CASE i \in 1..n /\ j \in 1..n
          BY <1>2, <4>1, <4>5 DEF ReferencePostedOnce
        <4>6. CASE i = n + 1 \/ j = n + 1
          BY <4>1, <4>2, <4>3, <4>4, <4>6
        <4> QED
          BY <4>3, <4>4, <4>5, <4>6
      <3> QED
        BY <1>2, <2>2, <3>1, <3>2, CommitPosts DEF LedgerInv
    <2> QED
      BY <1>2, <2>1, <2>2, OnlyCommitPosts DEF Next, Step, vars
  <1> QED
    BY <1>1, <1>2, LedgerInvariant, PTL DEF Spec, LedgerInv

\* A hold is committed or released, not both, after it was opened and for its
\* own amount.
THEOREM HoldsEndOnce == Spec => []HoldEndsOnce
  <1>1. Init => HoldEndsOnce
    BY DEF Init, HoldEndsOnce
  <1>2. ASSUME LedgerInv, HoldEndsOnce, [Next]_vars PROVE HoldEndsOnce'
    <2>1. CASE UNCHANGED <<row, ledger>>
      BY <1>2, <2>1 DEF HoldEndsOnce
    <2>2. ASSUME NEW c \in Conns, Commit(c) PROVE HoldEndsOnce'
      <3> SUFFICES ASSUME NEW w \in Wallets,
                          NEW i \in 1..Len(ledger'[w]),
                          ledger'[w][i].kind \in {"hold_commit", "hold_release"}
                   PROVE  /\ \E j \in 1..(i - 1) :
                               /\ ledger'[w][j].kind = "hold"
                               /\ ledger'[w][j].ref = ledger'[w][i].ref
                               /\ ledger'[w][j].amount = ledger'[w][i].amount
                          /\ \A j \in 1..Len(ledger'[w]) :
                               ledger'[w][j].ref = ledger'[w][i].ref =>
                                 ledger'[w][j].kind # Opposite(ledger'[w][i].kind)
        BY DEF HoldEndsOnce
      <3>1. CASE ledger'[w] = ledger[w]
        BY <1>2, <3>1 DEF HoldEndsOnce
      <3>2. CASE /\ CanWrite(call[c], w)
                 /\ ledger'[w] = Append(ledger[w], EntryFor(call[c], w, row'[w].available))
                 /\ EntryFor(call[c], w, row'[w].available) \in Entry
        <4> DEFINE e == EntryFor(call[c], w, row'[w].available)
                   n == Len(ledger[w])
        <4>1. /\ n \in Nat /\ Len(ledger'[w]) = n + 1 /\ ledger'[w][n + 1] = e
              /\ \A m \in 1..n : ledger'[w][m] = ledger[w][m]
              /\ DOMAIN ledger[w] = 1..n
          BY <1>2, <3>2, AppendedEntries DEF LedgerInv, TypeOK
        <4>2. e.kind \in {"hold_commit", "hold_release"} =>
                /\ \E j \in 1..n : /\ ledger[w][j].kind = "hold"
                                   /\ ledger[w][j].ref = e.ref
                                   /\ ledger[w][j].amount = e.amount
                /\ \A j \in 1..n : ledger[w][j].ref = e.ref =>
                                     ledger[w][j].kind # Opposite(e.kind)
          <5> SUFFICES ASSUME e.kind \in {"hold_commit", "hold_release"}
                       PROVE  /\ \E j \in 1..n : /\ ledger[w][j].kind = "hold"
                                                 /\ ledger[w][j].ref = e.ref
                                                 /\ ledger[w][j].amount = e.amount
                              /\ \A j \in 1..n : ledger[w][j].ref = e.ref =>
                                                 ledger[w][j].kind # Opposite(e.kind)
            OBVIOUS
          <5>1. OpenHold(ledger[w], e.kind, e.ref, e.amount)
            BY <3>2 DEF CanWrite, Admits, EntryFor
          <5>2. \A j \in 1..n : Key(ledger[w][j].kind, ledger[w][j].ref)
                                  # Key(Opposite(e.kind), e.ref)
            BY <4>1, <5>1 DEF OpenHold, IsPosted
          <5>3. \A j \in 1..n : ledger[w][j].ref = e.ref =>
                                 ledger[w][j].kind # Opposite(e.kind)
            BY <5>2
          <5> QED
            BY <4>1, <5>1, <5>3 DEF OpenHold
        <4>3. \A m \in 1..n : e.kind = "hold_commit" =>
                                ~(ledger[w][m].kind = "hold_release" /\ ledger[w][m].ref = e.ref)
          BY <4>2 DEF Opposite
        <4>4. CASE i = n + 1
          <5>1. ledger'[w][i] = e
            BY <4>1, <4>4
          <5>2. PICK j \in 1..n : /\ ledger[w][j].kind = "hold"
                                  /\ ledger[w][j].ref = e.ref
                                  /\ ledger[w][j].amount = e.amount
            BY <4>2, <5>1
          <5>3. j \in 1..(i - 1) /\ ledger'[w][j] = ledger[w][j]
            BY <4>1, <4>4
          <5>4. ASSUME NEW m \in 1..(n + 1), ledger'[w][m].ref = e.ref
                PROVE  ledger'[w][m].kind # Opposite(e.kind)
            <6>1. CASE m \in 1..n
              BY <4>1, <4>2, <5>1, <5>4, <6>1
            <6>2. CASE m = n + 1
              BY <4>1, <5>1, <6>2 DEF Opposite
            <6> QED
              BY <4>1, <6>1, <6>2
          <5> QED
            BY <4>1, <5>1, <5>2, <5>3, <5>4
        <4>5. CASE i \in 1..n
          <5>1. ledger'[w][i] = ledger[w][i]
            BY <4>1, <4>5
          <5>2. PICK j \in 1..(i - 1) : /\ ledger[w][j].kind = "hold"
                                        /\ ledger[w][j].ref = ledger[w][i].ref
                                        /\ ledger[w][j].amount = ledger[w][i].amount
            BY <1>2, <4>5, <5>1 DEF HoldEndsOnce
          <5>3. j \in 1..n /\ ledger'[w][j] = ledger[w][j]
            BY <4>1, <4>5
          <5>4. ASSUME NEW m \in 1..(n + 1), ledger'[w][m].ref = ledger'[w][i].ref
                PROVE  ledger'[w][m].kind # Opposite(ledger'[w][i].kind)
            <6>1. CASE m \in 1..n
              BY <1>2, <4>1, <4>5, <5>1, <5>4, <6>1 DEF HoldEndsOnce
            <6>2. CASE m = n + 1
              BY <4>1, <4>2, <4>5, <5>1, <5>4, <6>2 DEF Opposite
            <6> QED
              BY <4>1, <6>1, <6>2
          <5> QED
            BY <4>1, <5>1, <5>2, <5>3, <5>4
        <4> QED
          BY <4>1, <4>4, <4>5
      <3> QED
        BY <1>2, <2>2, <3>1, <3>2, CommitPosts DEF LedgerInv
    <2> QED
      BY <1>2, <2>1, <2>2, OnlyCommitPosts DEF Next, Step, vars
  <1> QED
    BY <1>1, <1>2, LedgerInvariant, PTL DEF Spec, LedgerInv

\* Both halves of every transfer are in the books, or neither.
THEOREM TransfersPaired == Spec => []TransferPaired
  <1>1. Init => TransferPaired
    BY DEF Init, TransferPaired
  <1>2. ASSUME LedgerInv, TransferPaired, [Next]_vars PROVE TransferPaired'
    <2>1. CASE UNCHANGED <<row, ledger>>
      <3> SUFFICES ASSUME NEW v \in Wallets, NEW i \in 1..Len(ledger'[v]),
                          ledger'[v][i].ref \in TransferRefs
                   PROVE  \E w \in Wallets \ {v} : \E j \in 1..Len(ledger'[w]) :
                            /\ ledger'[w][j].ref = ledger'[v][i].ref
                            /\ ledger'[w][j].amount = ledger'[v][i].amount
                            /\ {ledger'[v][i].kind, ledger'[w][j].kind}
                                 = {"debit", "credit"}
        BY DEF TransferPaired, TransferRefs
      <3>1. ledger' = ledger
        BY <2>1
      <3>2. /\ v \in Wallets /\ i \in 1..Len(ledger[v])
            /\ ledger[v][i].ref \in TransferRefs
        BY <3>1
      <3>3. PICK w \in Wallets \ {v} : \E j \in 1..Len(ledger[w]) :
              /\ ledger[w][j].ref = ledger[v][i].ref
              /\ ledger[w][j].amount = ledger[v][i].amount
              /\ {ledger[v][i].kind, ledger[w][j].kind} = {"debit", "credit"}
        BY <1>2, <3>2 DEF TransferPaired
      <3> QED
        BY <3>1, <3>3
    <2>2. ASSUME NEW c \in Conns, Commit(c) PROVE TransferPaired'
      <3> SUFFICES ASSUME NEW v \in Wallets, NEW i \in 1..Len(ledger'[v]),
                          ledger'[v][i].ref \in TransferRefs
                   PROVE  \E w \in Wallets \ {v} : \E j \in 1..Len(ledger'[w]) :
                            /\ ledger'[w][j].ref = ledger'[v][i].ref
                            /\ ledger'[w][j].amount = ledger'[v][i].amount
                            /\ {ledger'[v][i].kind, ledger'[w][j].kind}
                                 = {"debit", "credit"}
        BY DEF TransferPaired, TransferRefs
      <3> DEFINE k == call[c]
                 e(w) == EntryFor(k, w, row'[w].available)
      <3>0. k \in Calls
        BY <1>2 DEF LedgerInv, TypeOK
      <3>1. ASSUME NEW w \in Wallets
            PROVE  /\ Len(ledger[w]) \in Nat
                   /\ \A j \in 1..Len(ledger[w]) :
                        j \in 1..Len(ledger'[w]) /\ ledger'[w][j] = ledger[w][j]
                   /\ draft[c][w] # NoRow =>
                        /\ w \in {k.wallet, k.to}
                        /\ Len(ledger'[w]) = Len(ledger[w]) + 1
                        /\ ledger'[w][Len(ledger[w]) + 1] = e(w)
                   /\ draft[c][w] = NoRow => ledger'[w] = ledger[w]
        <4>1. ledger[w] \in Seq(Entry)
          BY <1>2 DEF LedgerInv, TypeOK
        <4>2. CASE draft[c][w] = NoRow
          BY <1>2, <2>2, <4>1, <4>2, CommitPosts DEF LedgerInv
        <4>3. CASE draft[c][w] # NoRow
          <5>1. /\ w \in {k.wallet, k.to} /\ e(w) \in Entry
                /\ ledger'[w] = Append(ledger[w], e(w))
            BY <1>2, <2>2, <4>3, CommitPosts DEF LedgerInv
          <5> QED
            BY <4>1, <4>3, <5>1, AppendedEntries
        <4> QED
          BY <4>2, <4>3
      <3>2. CASE i \in 1..Len(ledger[v])
        <4>1. ledger'[v][i] = ledger[v][i]
          BY <3>1, <3>2
        <4>2. PICK w \in Wallets \ {v} : \E j \in 1..Len(ledger[w]) :
                /\ ledger[w][j].ref = ledger[v][i].ref
                /\ ledger[w][j].amount = ledger[v][i].amount
                /\ {ledger[v][i].kind, ledger[w][j].kind} = {"debit", "credit"}
          BY <1>2, <3>2, <4>1 DEF TransferPaired, TransferRefs
        <4>3. PICK j \in 1..Len(ledger[w]) :
                /\ ledger[w][j].ref = ledger[v][i].ref
                /\ ledger[w][j].amount = ledger[v][i].amount
                /\ {ledger[v][i].kind, ledger[w][j].kind} = {"debit", "credit"}
          BY <4>2
        <4>4. j \in 1..Len(ledger'[w]) /\ ledger'[w][j] = ledger[w][j]
          BY <3>1
        <4> QED
          BY <4>1, <4>3, <4>4
      <3>3. CASE i \notin 1..Len(ledger[v])
        \* the new entry: it is a half of the transfer that commits
        <4>1. /\ draft[c][v] # NoRow /\ v \in {k.wallet, k.to}
              /\ ledger'[v][i] = e(v)
          BY <3>1, <3>3
        <4>2. k.op = "transfer"
          BY <3>0, <4>1, ConfigOK DEF EntryFor, TransferRefs
        <4>3. /\ k.wallet \in Wallets /\ k.to \in Wallets /\ k.wallet # k.to
          BY <3>0, <4>2, CallShape
        <4>4. draft[c][k.wallet] # NoRow /\ draft[c][k.to] # NoRow
          BY <1>2, <2>2, <4>2
          DEF LedgerInv, TransactionsInOrder, BothHalves, HalvesInOrder, IsLast, Commit
        <4>5. PICK w \in {k.wallet, k.to} : w # v
          BY <4>3
        <4>6. /\ w \in Wallets \ {v}
              /\ Len(ledger[w]) + 1 \in 1..Len(ledger'[w])
              /\ ledger'[w][Len(ledger[w]) + 1] = e(w)
          BY <3>1, <4>3, <4>4, <4>5
        <4>7. {e(v).kind, e(w).kind} = {"debit", "credit"}
          BY <4>1, <4>2, <4>3, <4>5 DEF EntryFor, LegKind, HalfAt
        <4>8. e(w).ref = e(v).ref /\ e(w).amount = e(v).amount
          BY DEF EntryFor
        <4> QED
          BY <4>1, <4>6, <4>7, <4>8
      <3> QED
        BY <3>2, <3>3
    <2> QED
      BY <1>2, <2>1, <2>2, OnlyCommitPosts DEF Next, Step, vars
  <1> QED
    BY <1>1, <1>2, LedgerInvariant, PTL DEF Spec, LedgerInv
-------------------------------------------------------------------------------
(* Every transaction is one step of the book, or none. *)

BookBalance == [w \in Wallets |-> [available |-> row[w].available,
                                   pending   |-> row[w].pending]]

\* The book's copies of the rules are the rules.
LEMMA SameRules ==
  ASSUME NEW entries, NEW available, NEW kind, NEW ref, NEW amount
  PROVE  /\ Book!Admits(entries, available, kind, ref, amount)
              = Admits(entries, available, kind, ref, amount)
         /\ Book!IsPosted(entries, kind, ref) = IsPosted(entries, kind, ref)
         /\ Book!AvailableDelta(kind, amount) = AvailableDelta(kind, amount)
         /\ Book!PendingDelta(kind, amount) = PendingDelta(kind, amount)
         /\ Book!Kinds = Kinds
  <1>1. \A a, b : Book!Key(a, b) = Key(a, b)
    BY DEF Book!Key, Key, Book!HoldKinds, HoldKinds
  <1>2. \A a : Book!IsPosted(entries, a, ref) = IsPosted(entries, a, ref)
    BY <1>1 DEF Book!IsPosted, IsPosted
  <1>3. Book!OpenHold(entries, kind, ref, amount) = OpenHold(entries, kind, ref, amount)
    BY <1>2 DEF Book!OpenHold, OpenHold, Book!Opposite, Opposite
  <1>4. Book!Admits(entries, available, kind, ref, amount)
          = Admits(entries, available, kind, ref, amount)
    BY <1>3 DEF Book!Admits, Admits
  <1>5. /\ Book!AvailableDelta(kind, amount) = AvailableDelta(kind, amount)
        /\ Book!PendingDelta(kind, amount) = PendingDelta(kind, amount)
    BY DEF Book!AvailableDelta, AvailableDelta, Book!PendingDelta, PendingDelta
  <1> QED
    BY <1>2, <1>4, <1>5 DEF Book!Kinds, Kinds, Book!HoldKinds, HoldKinds

LEMMA BookCanPost ==
  ASSUME TypeOK, NEW k \in Calls, NEW w \in Wallets, CanWrite(k, w)
  PROVE  Book!CanPost(w, LegKind(k, HalfAt(k, w)), k.ref, k.amount)
  <1> DEFINE kind == LegKind(k, HalfAt(k, w))
  <1>1. /\ ~Book!IsPosted(ledger[w], kind, k.ref)
        /\ Book!Admits(ledger[w], row[w].available, kind, k.ref, k.amount)
        /\ row[w].pending + Book!PendingDelta(kind, k.amount) >= 0
    BY SameRules DEF CanWrite
  <1>2. BookBalance[w] = [available |-> row[w].available, pending |-> row[w].pending]
    BY DEF BookBalance
  <1> QED
    BY <1>1, <1>2 DEF Book!CanPost, BookBalance

LEMMA BookCommit ==
  ASSUME LedgerInv, NEW c \in Conns, Commit(c)
  PROVE  Book!Next \/ UNCHANGED Book!vars
  <1> DEFINE k == call[c]
             Kind(w) == LegKind(k, HalfAt(k, w))
  <1>1. /\ k \in Calls /\ k.ref \in Refs /\ k.amount \in Amounts
        /\ k.wallet \in Wallets /\ k.to \in Wallets
        /\ row \in [Wallets -> Row] /\ ledger \in [Wallets -> Seq(Entry)]
    BY CallShape DEF LedgerInv, TypeOK
  <1>2. ASSUME NEW w \in Wallets, draft[c][w] = NoRow
        PROVE  BookBalance'[w] = BookBalance[w] /\ ledger'[w] = ledger[w]
    BY <1>2, CommitPosts DEF LedgerInv, BookBalance
  <1>3. ASSUME NEW w \in Wallets, draft[c][w] # NoRow
        PROVE  /\ w \in {k.wallet, k.to}
               /\ Book!CanPost(w, Kind(w), k.ref, k.amount)
               /\ BookBalance'[w] = Book!Posted(w, Kind(w), k.amount)
               /\ ledger'[w] = Append(ledger[w], Book!PostedEntry(w, Kind(w), k.ref, k.amount))
    <2>1. /\ w \in {k.wallet, k.to}
          /\ CanWrite(k, w)
          /\ row'[w] = NextRow(row[w], Kind(w), k.amount)
          /\ ledger'[w] = Append(ledger[w], EntryFor(k, w, row'[w].available))
      BY <1>3, CommitPosts DEF LedgerInv
    <2>2. Book!CanPost(w, Kind(w), k.ref, k.amount)
      BY <1>1, <2>1, BookCanPost DEF LedgerInv
    <2>3. BookBalance'[w] = Book!Posted(w, Kind(w), k.amount)
      BY <2>1, SameRules DEF BookBalance, NextRow, Book!Posted
    <2>4. row'[w].available = row[w].available + Book!AvailableDelta(Kind(w), k.amount)
      BY <2>1, SameRules DEF NextRow
    <2>5. EntryFor(k, w, row'[w].available) = Book!PostedEntry(w, Kind(w), k.ref, k.amount)
      BY <2>4 DEF EntryFor, Book!PostedEntry
    <2> QED
      BY <2>1, <2>2, <2>3, <2>5
  <1>4. /\ BookBalance \in [Wallets -> [available : Nat, pending : Nat]]
        /\ DOMAIN BookBalance' = Wallets /\ DOMAIN ledger' = Wallets
        /\ BookBalance' = [w \in Wallets |-> BookBalance'[w]]
        /\ ledger' = [w \in Wallets |-> ledger'[w]]
    BY <1>1 DEF BookBalance, Row, Commit
  <1>e. ASSUME NEW w \in Wallets, draft[c][w] # NoRow
        PROVE  ledger'[w] # ledger[w]
    <2>1. ledger'[w] = Append(ledger[w], EntryFor(k, w, row'[w].available))
      BY <1>e, CommitPosts DEF LedgerInv
    <2>2. ledger[w] \in Seq(Entry)
      BY <1>1
    <2>3. Len(ledger'[w]) = Len(ledger[w]) + 1
      BY <2>1, <2>2
    <2> QED
      BY <2>2, <2>3
  <1>5. CASE \A w \in Wallets : draft[c][w] = NoRow
    <2>1. BookBalance' = BookBalance /\ ledger' = ledger
      BY <1>1, <1>2, <1>4, <1>5
    <2> QED
      BY <2>1 DEF BookBalance, Book!vars
  <1>6. CASE k.op # "transfer" /\ draft[c][k.wallet] # NoRow
    <2>1. k.to = k.wallet /\ \A w \in Wallets \ {k.wallet} : draft[c][w] = NoRow
      BY <1>1, <1>3, <1>6, CallShape
    <2>2. Kind(k.wallet) \in Kinds
      BY <1>1, KindShape
    <2>3. PICK w \in Wallets, kind \in Book!Kinds, ref \in Refs, amount \in Amounts :
            w = k.wallet /\ kind = Kind(w) /\ ref = k.ref /\ amount = k.amount
      BY <1>1, <2>2, SameRules
    <2>4. BookBalance' = [BookBalance EXCEPT ![w] = Book!Posted(w, kind, amount)]
      BY <1>1, <1>2, <1>3, <1>4, <1>6, <2>1, <2>3
    <2>5. ledger' = [ledger EXCEPT
                       ![w] = Append(@, Book!PostedEntry(w, kind, ref, amount))]
      BY <1>1, <1>2, <1>3, <1>4, <1>6, <2>1, <2>3
    <2>6. Book!CanPost(w, kind, ref, amount)
      BY <1>1, <1>3, <1>6, <2>3
    <2>7. ledger'[w] # ledger[w]
      BY <1>e, <1>6, <2>3
    <2>8. Book!Post(w, kind, ref, amount)
      BY <2>4, <2>5, <2>6, <2>7, Zenon DEF Book!Post, BookBalance
    <2> QED
      BY <2>8 DEF Book!Next
  <1>7. CASE k.op = "transfer"
    <2>1. k.wallet # k.to /\ draft[c][k.wallet] # NoRow /\ draft[c][k.to] # NoRow
      BY <1>1, <1>7, CallShape
      DEF LedgerInv, TransactionsInOrder, BothHalves, HalvesInOrder, IsLast, Commit
    <2>2. Kind(k.wallet) = "debit" /\ Kind(k.to) = "credit"
      BY <1>7, <2>1 DEF LegKind, HalfAt
    <2>3. \A w \in Wallets \ {k.wallet, k.to} : draft[c][w] = NoRow
      BY <1>3
    <2>4. PICK v \in Wallets, w \in Wallets, ref \in Refs, amount \in Amounts :
            v = k.wallet /\ w = k.to /\ ref = k.ref /\ amount = k.amount
      BY <1>1
    <2>5. BookBalance' = [BookBalance EXCEPT ![v] = Book!Posted(v, "debit", amount),
                                             ![w] = Book!Posted(w, "credit", amount)]
      BY <1>1, <1>2, <1>3, <1>4, <2>1, <2>2, <2>3, <2>4
    <2>6. ledger' = [ledger EXCEPT
                       ![v] = Append(@, Book!PostedEntry(v, "debit", ref, amount)),
                       ![w] = Append(@, Book!PostedEntry(w, "credit", ref, amount))]
      <3>1. /\ ledger'[v] = Append(ledger[v], Book!PostedEntry(v, "debit", ref, amount))
            /\ ledger'[w] = Append(ledger[w], Book!PostedEntry(w, "credit", ref, amount))
        BY <1>3, <2>1, <2>2, <2>4
      <3>2. \A x \in Wallets \ {v, w} : ledger'[x] = ledger[x]
        BY <1>2, <2>3, <2>4
      <3> QED
        BY <1>1, <1>4, <2>1, <2>4, <3>1, <3>2
    <2>7. /\ v # w
          /\ ledger'[v] # ledger[v]
      BY <1>e, <2>1, <2>4
    <2>8. /\ Book!CanPost(v, "debit", ref, amount)
          /\ Book!CanPost(w, "credit", ref, amount)
      <3>1. /\ Book!CanPost(k.wallet, Kind(k.wallet), k.ref, k.amount)
            /\ Book!CanPost(k.to, Kind(k.to), k.ref, k.amount)
        BY <1>1, <1>3, <2>1
      <3> QED
        BY <3>1, <2>2, <2>4
    <2>9. Book!Transfer(v, w, ref, amount)
      BY <2>5, <2>6, <2>7, <2>8, Zenon DEF Book!Transfer, BookBalance
    <2> QED
      BY <2>9 DEF Book!Next
  <1>8. CASE k.op # "transfer" /\ draft[c][k.wallet] = NoRow
    BY <1>1, <1>3, <1>5, <1>8, CallShape
  <1> QED
    BY <1>6, <1>7, <1>8

\* The transactions implement the book: every mutation takes effect at one
\* instant, both halves of a transfer at the same one.
THEOREM LedgerImplementsBook == Spec => ImplementsBook
  <1>1. Init => Book!Init
    BY DEF Init, Book!Init, NewRow
  <1>2. ASSUME LedgerInv, [Next]_vars PROVE [Book!Next]_(Book!vars)
    <2>1. CASE UNCHANGED <<row, ledger>>
      BY <2>1 DEF Book!vars
    <2>2. ASSUME NEW c \in Conns, Commit(c) PROVE [Book!Next]_(Book!vars)
      BY <1>2, <2>2, BookCommit
    <2> QED
      BY <1>2, <2>1, <2>2, OnlyCommitPosts DEF Next, Step, vars
  <1> QED
    BY <1>1, <1>2, LedgerInvariant, PTL DEF Spec, LedgerInv, ImplementsBook, Book!Spec
-------------------------------------------------------------------------------
(* The answer of a call that was posted before.                            *)

\* A handler about to commit without a row of its own found its reference booked.
ReplaysStand ==
  \A c \in Conns :
    pc[c] = "commit" /\ call[c].op # "transfer" /\ draft[c][call[c].wallet] = NoRow =>
      IsPosted(ledger[call[c].wallet], call[c].op, call[c].ref)

\* What is posted stays posted.
LEMMA PostedStays ==
  ASSUME LedgerInv, NEW c \in Conns, Step(c), NEW w \in Wallets, NEW kind, NEW ref,
         IsPosted(ledger[w], kind, ref)
  PROVE  IsPosted(ledger'[w], kind, ref)
  <1>1. CASE ledger'[w] = ledger[w]
    BY <1>1
  <1>2. CASE Commit(c) /\ ledger'[w] # ledger[w]
    <2>1. PICK e \in Entry : ledger'[w] = Append(ledger[w], e)
      BY <1>2, CommitPosts DEF LedgerInv
    <2>2. ledger[w] \in Seq(Entry)
      BY DEF LedgerInv, TypeOK
    <2>3. /\ DOMAIN ledger[w] \subseteq DOMAIN ledger'[w]
          /\ \A i \in DOMAIN ledger[w] : ledger'[w][i] = ledger[w][i]
      BY <2>1, <2>2
    <2> QED
      BY <2>3 DEF IsPosted
  <1> QED
    BY <1>1, <1>2, OnlyCommitPosts

LEMMA ReplaysStep ==
  ASSUME LedgerInv, ReplaysStand, NEW c \in Conns, Step(c)
  PROVE  ReplaysStand'
  <1> SUFFICES ASSUME NEW d \in Conns, pc'[d] = "commit", call'[d].op # "transfer",
                      draft'[d][call'[d].wallet] = NoRow
               PROVE  IsPosted(ledger'[call'[d].wallet], call'[d].op, call'[d].ref)
    BY DEF ReplaysStand
  <1>1. call[d] \in Calls /\ call[d].wallet \in Wallets
    BY CallShape DEF LedgerInv, TypeOK
  <1>2. CASE pc[d] = "commit" /\ call'[d] = call[d] /\ draft'[d] = draft[d]
    <2>1. IsPosted(ledger[call[d].wallet], call[d].op, call[d].ref)
      BY <1>2 DEF ReplaysStand
    <2> QED
      BY <1>1, <1>2, <2>1, PostedStays
  <1>3. CASE d # c
    BY <1>2, <1>3, StepKeeps DEF LedgerInv, OthersKeep
  <1>4. CASE d = c
    <2>1. CASE Start(c) \/ Read(c) \/ Accept(c)
      BY <1>4, <2>1 DEF Start, Read, Accept, LedgerInv, TypeOK
    <2>2. CASE Finish(c)
      BY <1>4, <2>2 DEF Finish, LedgerInv, TypeOK
    <2>3. leg[c] # 2 /\ leg[c] \in 1..2
          => W(c) = call[c].wallet /\ (call[c].op # "transfer" => K(c) = call[c].op)
      BY DEF W, K, LegWallet, LegKind
    <2>4. leg[c] \in 1..2 /\ (leg[c] = 2 => call[c].op = "transfer")
      BY DEF LedgerInv, TypeOK, TransactionsInOrder, HalvesInOrder
    <2>5. CASE Replay(c)
      <3>1. call' = call /\ ledger' = ledger /\ IsPosted(ledger[W(c)], K(c), call[c].ref)
        BY <2>5 DEF Replay
      <3> QED
        BY <1>4, <2>3, <2>4, <3>1
    <2>6. CASE Write(c)
      <3>1. call' = call /\ W(c) = call[c].wallet
        BY <1>4, <2>3, <2>4, <2>6 DEF Write
      <3>2. draft'[c][W(c)] = NextRow(row[W(c)], K(c), call[c].amount)
        BY <2>6, WriteIsCurrent DEF LedgerInv
      <3>3. /\ CanWrite(call[c], W(c)) /\ W(c) \in Wallets
            /\ K(c) = LegKind(call[c], HalfAt(call[c], W(c))) /\ K(c) \in Kinds
            /\ row[W(c)] \in Row /\ call[c].amount \in Amounts
        BY <2>6, WriteIsCurrent, KShape DEF LedgerInv, TypeOK, TransactionsInOrder
      <3>4. NextRow(row[W(c)], K(c), call[c].amount) \in Row
        BY <3>3, NextRowType DEF CanWrite
      <3> QED
        BY <1>4, <3>1, <3>2, <3>4, ConfigOK
    <2> QED
      BY <2>1, <2>2, <2>5, <2>6
      DEF Step, Progress, Refuse, Conflict, Commit, DeadlockVictim, Crash, Rollback
  <1> QED
    BY <1>3, <1>4

\* Whoever is told that a call is done, the first time or on a retry, finds every
\* half of it in the books (mutateWallet, mutateHold and transfer of
\* wallet.service.ts).
THEOREM AnswersAreBooked == Spec => AnswerIsBooked
  <1>1. Init => ReplaysStand
    BY DEF Init, ReplaysStand
  <1>2. ASSUME LedgerInv, ReplaysStand, [Next]_vars PROVE ReplaysStand'
    <2>1. CASE UNCHANGED vars
      BY <1>2, <2>1 DEF ReplaysStand, vars, IsPosted
    <2> QED
      BY <1>2, <2>1, ReplaysStep DEF Next, Step
  <1>3. ASSUME LedgerInv, ReplaysStand, NEW c \in Conns, Commit(c),
               NEW w \in {call[c].wallet, call[c].to}
        PROVE  IsPosted(ledger'[w], LegKind(call[c], HalfAt(call[c], w)), call[c].ref)
    <2>1. w \in Wallets /\ (call[c].op # "transfer" => w = call[c].wallet)
      BY <1>3, CallShape DEF LedgerInv, TypeOK
    <2>2. CASE draft[c][w] # NoRow
      <3>1. PICK e \in Entry : /\ ledger'[w] = Append(ledger[w], e)
                               /\ e.kind = LegKind(call[c], HalfAt(call[c], w))
                               /\ e.ref = call[c].ref
        BY <1>3, <2>1, <2>2, CommitPosts DEF LedgerInv, EntryFor
      <3>2. ledger[w] \in Seq(Entry)
        BY <1>3, <2>1 DEF LedgerInv, TypeOK
      <3>3. Len(ledger[w]) + 1 \in DOMAIN ledger'[w] /\ ledger'[w][Len(ledger[w]) + 1] = e
        BY <3>1, <3>2
      <3> QED
        BY <3>1, <3>3 DEF IsPosted
    <2>3. CASE draft[c][w] = NoRow
      <3>1. call[c].op # "transfer"
        BY <1>3, <2>3
        DEF LedgerInv, TransactionsInOrder, BothHalves, HalvesInOrder, IsLast, Commit
      <3>2. IsPosted(ledger[w], call[c].op, call[c].ref)
        BY <1>3, <2>1, <2>3, <3>1 DEF ReplaysStand, Commit
      <3>3. IsPosted(ledger'[w], call[c].op, call[c].ref)
        BY <1>3, <2>1, <3>2, PostedStays DEF Step, Progress
      <3> QED
        BY <3>1, <3>3 DEF LegKind
    <2> QED
      BY <2>2, <2>3
  <1>4. LedgerInv /\ ReplaysStand /\ [Next]_vars =>
          [\A c \in Conns : Commit(c) =>
             \A w \in {call[c].wallet, call[c].to} :
               IsPosted(ledger'[w], LegKind(call[c], HalfAt(call[c], w)), call[c].ref)]_vars
    BY <1>3
  <1> QED
    BY <1>1, <1>2, <1>4, LedgerInvariant, PTL DEF Spec, LedgerInv, AnswerIsBooked
-------------------------------------------------------------------------------
(* What reconcileWallet finds.                                              *)

Reckoned(entries, available, pending) ==
  /\ IsFiniteSet(Units(entries, Credits(entries)))
  /\ IsFiniteSet(Units(entries, Debits(entries)))
  /\ IsFiniteSet(Units(entries, OpenHolds(entries)))
  /\ Total(entries, Credits(entries)) - Total(entries, Debits(entries)) = available
  /\ Total(entries, OpenHolds(entries)) = pending

\* ReferencePostedOnce, and the first half of HoldEndsOnce, of one wallet.
PostedOnce(entries) == \A i, j \in 1..Len(entries) :
  Key(entries[i].kind, entries[i].ref) = Key(entries[j].kind, entries[j].ref) => i = j
EndedWereOpened(entries) == \A i \in 1..Len(entries) :
  entries[i].kind \in {"hold_commit", "hold_release"} =>
    \E j \in 1..Len(entries) : entries[j].kind = "hold" /\ entries[j].ref = entries[i].ref

\* One entry's money is counted beside that of the others.
LEMMA CountBeside ==
  ASSUME NEW S, IsFiniteSet(S), NEW i, NEW m \in Nat, NEW P, P = {i} \X (1..m), S \cap P = {}
  PROVE  /\ IsFiniteSet(S \union P)
         /\ Cardinality(S \union P) = Cardinality(S) + m
  <1>1. PICK A : A = {i}
    OBVIOUS
  <1>2. PICK B : B = 1..m
    OBVIOUS
  <1>3. IsFiniteSet(A) /\ Cardinality(A) = 1
    BY <1>1, FS_Singleton
  <1>4. IsFiniteSet(B) /\ Cardinality(B) = m
    <2>1. 1 \in Int /\ m \in Int /\ IF 1 > m THEN m = 0 ELSE m - 1 + 1 = m
      OBVIOUS
    <2> QED
      BY <1>2, <2>1, FS_Interval
  <1>5. P = A \X B
    BY <1>1, <1>2
  <1>6. IsFiniteSet(A \X B) /\ Cardinality(A \X B) = 1 * m
    BY <1>3, <1>4, FS_Product, Zenon
  <1>7. IsFiniteSet(P) /\ Cardinality(P) = m
    <2>1. 1 * m = m
      OBVIOUS
    <2> QED
      BY <1>5, <1>6, <2>1
  <1>8. Cardinality(S \cap P) = 0 /\ Cardinality(S) \in Nat
    BY FS_EmptySet, FS_CardinalityType
  <1>9. /\ IsFiniteSet(S \union P)
        /\ Cardinality(S \union P) = Cardinality(S) + Cardinality(P) - Cardinality(S \cap P)
    BY <1>7, FS_Union
  <1> QED
    BY <1>7, <1>8, <1>9

LEMMA InUnits ==
  ASSUME NEW entries, NEW E, NEW x
  PROVE  x \in Units(entries, E) <=>
           \E i \in E : \E m \in 1..entries[i].amount : x = <<i, m>>
  BY DEF Units

\* An entry more, or one less.
LEMMA UnitsGrow ==
  ASSUME NEW entries, NEW E, NEW i, i \notin E, entries[i].amount \in Nat,
         IsFiniteSet(Units(entries, E))
  PROVE  /\ IsFiniteSet(Units(entries, E \union {i}))
         /\ Total(entries, E \union {i}) = Total(entries, E) + entries[i].amount
  <1>1. PICK m \in Nat : m = entries[i].amount
    OBVIOUS
  <1>2. PICK S : S = Units(entries, E)
    OBVIOUS
  <1>3. PICK P : P = {i} \X (1..m)
    OBVIOUS
  <1>4. Units(entries, E \union {i}) = S \union P
    BY <1>1, <1>2, <1>3 DEF Units
  <1>5. S \cap P = {}
    BY <1>2, <1>3, InUnits
  <1>6. IsFiniteSet(S \union P) /\ Cardinality(S \union P) = Cardinality(S) + m
    BY <1>2, <1>3, <1>5, CountBeside
  <1> QED
    BY <1>1, <1>2, <1>4, <1>6 DEF Total

LEMMA UnitsShrink ==
  ASSUME NEW entries, NEW E, NEW i \in E, entries[i].amount \in Nat,
         IsFiniteSet(Units(entries, E))
  PROVE  /\ IsFiniteSet(Units(entries, E \ {i}))
         /\ Total(entries, E \ {i}) + entries[i].amount = Total(entries, E)
  <1>1. PICK F : F = E \ {i}
    OBVIOUS
  <1>2. F \union {i} = E /\ i \notin F
    BY <1>1
  <1>3. IsFiniteSet(Units(entries, F))
    <2>1. Units(entries, F) \subseteq Units(entries, E)
      BY <1>1, InUnits
    <2> QED
      BY <2>1, FS_Subset
  <1> QED
    BY <1>1, <1>2, <1>3, UnitsGrow

\* The same entries in two ledgers have the same money.
LEMMA UnitsSame ==
  ASSUME NEW entries, NEW longer, NEW E, \A i \in E : longer[i] = entries[i]
  PROVE  Units(longer, E) = Units(entries, E) /\ Total(longer, E) = Total(entries, E)
  <1>1. Units(longer, E) = Units(entries, E)
    BY DEF Units
  <1> QED
    BY <1>1 DEF Total

\* What is posted next, to one wallet's ledger.
LEMMA ReckonedAppend ==
  ASSUME NEW entries \in Seq(Entry), NEW e \in Entry,
         NEW available \in Int, NEW pending \in Int, Reckoned(entries, available, pending),
         ~IsPosted(entries, e.kind, e.ref),
         e.kind \in {"hold_commit", "hold_release"} =>
           OpenHold(entries, e.kind, e.ref, e.amount),
         PostedOnce(entries), EndedWereOpened(entries)
  PROVE  Reckoned(Append(entries, e), available + AvailableDelta(e.kind, e.amount),
                  pending + PendingDelta(e.kind, e.amount))
  <1>a. PICK longer : longer = Append(entries, e)
    OBVIOUS
  <1>b. PICK n \in Nat : n = Len(entries)
    OBVIOUS
  <1>1. n = Len(entries) /\ longer = Append(entries, e)
    BY <1>a, <1>b
  <1>2. /\ DOMAIN longer = 1..(n + 1) /\ DOMAIN entries = 1..n
        /\ longer[n + 1] = e /\ \A i \in 1..n : longer[i] = entries[i]
        /\ n + 1 \notin 1..n /\ 1..(n + 1) = 1..n \union {n + 1}
    BY <1>1, AppendedEntries
  <1>3. e.kind \in Kinds /\ e.amount \in Nat /\ \A i \in 1..n : entries[i] \in Entry
    <2>1. e.kind \in Kinds /\ e.amount \in Amounts
      BY DEF Entry
    <2>2. \A i \in 1..n : entries[i] \in Entry
      BY <1>1
    <2> QED
      BY <2>1, <2>2, AmountsPositive
  <1>4. PICK C, D, H : C = Credits(entries) /\ D = Debits(entries) /\ H = OpenHolds(entries)
    OBVIOUS
  <1>5. C \subseteq 1..n /\ D \subseteq 1..n /\ H \subseteq 1..n
    BY <1>2, <1>4 DEF Credits, Debits, OpenHolds
  <1>6. /\ Units(longer, C) = Units(entries, C) /\ Total(longer, C) = Total(entries, C)
        /\ Units(longer, D) = Units(entries, D) /\ Total(longer, D) = Total(entries, D)
        /\ Units(longer, H) = Units(entries, H) /\ Total(longer, H) = Total(entries, H)
    <2>1. ASSUME NEW E, E \subseteq 1..n
          PROVE  Units(longer, E) = Units(entries, E) /\ Total(longer, E) = Total(entries, E)
      <3>1. \A i \in E : longer[i] = entries[i]
        BY <1>2, <2>1
      <3> QED
        BY <3>1, UnitsSame
    <2> QED
      BY <1>5, <2>1
  <1>7. /\ IsFiniteSet(Units(longer, C)) /\ IsFiniteSet(Units(longer, D))
        /\ IsFiniteSet(Units(longer, H))
        /\ Total(longer, C) - Total(longer, D) = available /\ Total(longer, H) = pending
        /\ Total(longer, C) \in Nat /\ Total(longer, D) \in Nat /\ Total(longer, H) \in Nat
    BY <1>4, <1>6, FS_CardinalityType DEF Reckoned, Total
  <1>8. Credits(longer) = IF e.kind \in {"credit", "hold_release"} THEN C \union {n + 1} ELSE C
    BY <1>2, <1>4 DEF Credits
  <1>9. Debits(longer) = IF e.kind \in {"debit", "hold"} THEN D \union {n + 1} ELSE D
    BY <1>2, <1>4 DEF Debits
  <1>10. \A kind, ref : IsPosted(longer, kind, ref) <=>
           IsPosted(entries, kind, ref) \/ Key(e.kind, e.ref) = Key(kind, ref)
    BY <1>2 DEF IsPosted
  <1>11. ASSUME NEW E, E \subseteq 1..n, IsFiniteSet(Units(longer, E))
         PROVE  /\ IsFiniteSet(Units(longer, E \union {n + 1}))
                /\ Total(longer, E \union {n + 1}) = Total(longer, E) + e.amount
    <2>1. PICK z : z = n + 1
      OBVIOUS
    <2>2. z \notin E /\ longer[z].amount = e.amount /\ longer[z].amount \in Nat
      BY <1>2, <1>3, <1>11, <2>1
    <2>3. /\ IsFiniteSet(Units(longer, E \union {z}))
          /\ Total(longer, E \union {z}) = Total(longer, E) + longer[z].amount
      BY <1>11, <2>2, UnitsGrow
    <2> QED
      BY <2>1, <2>2, <2>3
  <1>12. /\ IsFiniteSet(Units(longer, Credits(longer)))
         /\ IsFiniteSet(Units(longer, Debits(longer)))
         /\ Total(longer, Credits(longer)) - Total(longer, Debits(longer))
              = available + AvailableDelta(e.kind, e.amount)
    <2>1. CASE e.kind \in {"credit", "hold_release"}
      <3>1. Credits(longer) = C \union {n + 1} /\ Debits(longer) = D
        BY <1>8, <1>9, <2>1
      <3>2. /\ IsFiniteSet(Units(longer, C \union {n + 1}))
            /\ Total(longer, C \union {n + 1}) = Total(longer, C) + e.amount
        BY <1>5, <1>7, <1>11
      <3>3. AvailableDelta(e.kind, e.amount) = e.amount
        BY <2>1 DEF AvailableDelta
      <3> QED
        BY <1>3, <1>7, <3>1, <3>2, <3>3
    <2>2. CASE e.kind \in {"debit", "hold"}
      <3>1. Credits(longer) = C /\ Debits(longer) = D \union {n + 1}
        BY <1>8, <1>9, <2>2
      <3>2. /\ IsFiniteSet(Units(longer, D \union {n + 1}))
            /\ Total(longer, D \union {n + 1}) = Total(longer, D) + e.amount
        BY <1>5, <1>7, <1>11
      <3>3. AvailableDelta(e.kind, e.amount) = -e.amount
        BY <2>2 DEF AvailableDelta
      <3> QED
        BY <1>3, <1>7, <3>1, <3>2, <3>3
    <2>3. CASE e.kind = "hold_commit"
      BY <1>3, <1>7, <1>8, <1>9, <2>3 DEF AvailableDelta
    <2> QED
      BY <1>3, <2>1, <2>2, <2>3 DEF Kinds, HoldKinds
  <1>13. /\ IsFiniteSet(Units(longer, OpenHolds(longer)))
         /\ Total(longer, OpenHolds(longer)) = pending + PendingDelta(e.kind, e.amount)
    <2>1. CASE e.kind \in {"credit", "debit"}
      <3>1. \A ref : /\ IsPosted(longer, "hold_commit", ref) <=> IsPosted(entries, "hold_commit", ref)
                     /\ IsPosted(longer, "hold_release", ref) <=> IsPosted(entries, "hold_release", ref)
        BY <1>10, <2>1 DEF Key, HoldKinds
      <3>2. OpenHolds(longer) = H
        BY <1>2, <1>4, <2>1, <3>1 DEF OpenHolds
      <3> QED
        BY <1>3, <1>7, <2>1, <3>2 DEF PendingDelta
    <2>2. CASE e.kind = "hold"
      <3>1. \A ref : /\ IsPosted(longer, "hold_commit", ref) <=> IsPosted(entries, "hold_commit", ref)
                     /\ IsPosted(longer, "hold_release", ref) <=> IsPosted(entries, "hold_release", ref)
        BY <1>10, <2>2 DEF Key, HoldKinds
      <3>2. ASSUME NEW kind \in {"hold_commit", "hold_release"} PROVE ~IsPosted(entries, kind, e.ref)
        <4>1. SUFFICES ASSUME NEW i \in 1..n,
                              Key(entries[i].kind, entries[i].ref) = Key(kind, e.ref)
                       PROVE  FALSE
          BY <1>2 DEF IsPosted
        <4>2. entries[i].kind = kind /\ entries[i].ref = e.ref
          BY <4>1 DEF Key, HoldKinds
        <4>3. PICK j \in 1..n : entries[j].kind = "hold" /\ entries[j].ref = e.ref
          BY <1>1, <4>2 DEF EndedWereOpened
        <4> QED
          BY <1>2, <2>2, <4>3 DEF IsPosted
      <3>3. OpenHolds(longer) = H \union {n + 1}
        BY <1>2, <1>4, <2>2, <3>1, <3>2 DEF OpenHolds
      <3> QED
        BY <1>3, <1>5, <1>7, <1>11, <2>2, <3>3 DEF PendingDelta
    <2>3. CASE e.kind \in {"hold_commit", "hold_release"}
      <3>1. OpenHold(entries, e.kind, e.ref, e.amount)
        BY <2>3
      <3>2. PICK i \in 1..n :
              entries[i].kind = "hold" /\ entries[i].ref = e.ref /\ entries[i].amount = e.amount
        BY <1>2, <3>1 DEF OpenHold
      <3>3. ~IsPosted(entries, "hold_commit", e.ref) /\ ~IsPosted(entries, "hold_release", e.ref)
        BY <2>3, <3>1 DEF OpenHold, Opposite
      <3>4. i \in H
        BY <1>2, <1>4, <3>2, <3>3 DEF OpenHolds
      <3>5. \A j \in H \ {i} : entries[j].ref # e.ref
        BY <1>1, <1>2, <1>4, <1>5, <3>2 DEF OpenHolds, PostedOnce
      <3>6. \A ref : /\ IsPosted(longer, "hold_commit", ref) \/ IsPosted(longer, "hold_release", ref)
                        <=> \/ IsPosted(entries, "hold_commit", ref)
                            \/ IsPosted(entries, "hold_release", ref)
                            \/ ref = e.ref
        BY <1>10, <2>3 DEF Key, HoldKinds
      <3>7. OpenHolds(longer) = H \ {i}
        BY <1>2, <1>4, <1>5, <2>3, <3>2, <3>5, <3>6 DEF OpenHolds
      <3>8. longer[i].amount = e.amount
        BY <1>2, <3>2
      <3>9. /\ IsFiniteSet(Units(longer, H \ {i}))
            /\ Total(longer, H \ {i}) + e.amount = Total(longer, H)
        <4>1. longer[i].amount \in Nat
          BY <1>3, <3>8
        <4> QED
          BY <1>7, <3>4, <3>8, <4>1, UnitsShrink
      <3>10. Total(longer, H \ {i}) \in Nat
        BY <3>9, FS_CardinalityType DEF Total
      <3> QED
        BY <1>3, <1>7, <2>3, <3>7, <3>9, <3>10 DEF PendingDelta
    <2> QED
      BY <1>3, <2>1, <2>2, <2>3 DEF Kinds, HoldKinds
  <1> QED
    BY <1>1, <1>12, <1>13 DEF Reckoned

WalletsReckoned == \A w \in Wallets : Reckoned(ledger[w], row[w].available, row[w].pending)

\* Reconciliation never finds a difference, and the pending balance is the sum of the open
\* holds, whatever is retried, refused, rolled back or overtaken on the way.
THEOREM LedgersReconcile == Spec => []Reconciles
  <1>1. Init => WalletsReckoned
    <2> SUFFICES ASSUME Init, NEW w \in Wallets
                 PROVE  Reckoned(ledger[w], row[w].available, row[w].pending)
      BY DEF WalletsReckoned
    <2>1. ledger[w] = <<>> /\ row[w].available = 0 /\ row[w].pending = 0
      BY DEF Init, NewRow
    <2>2. /\ Credits(ledger[w]) = {} /\ Debits(ledger[w]) = {}
          /\ OpenHolds(ledger[w]) = {}
      BY <2>1 DEF Credits, Debits, OpenHolds
    <2>3. Units(ledger[w], {}) = {}
      BY DEF Units
    <2>4. /\ IsFiniteSet(Units(ledger[w], Credits(ledger[w])))
          /\ IsFiniteSet(Units(ledger[w], Debits(ledger[w])))
          /\ IsFiniteSet(Units(ledger[w], OpenHolds(ledger[w])))
      BY <2>2, <2>3, FS_EmptySet
    <2>5. /\ Total(ledger[w], Credits(ledger[w])) = 0
          /\ Total(ledger[w], Debits(ledger[w])) = 0
          /\ Total(ledger[w], OpenHolds(ledger[w])) = 0
      BY <2>2, <2>3, FS_EmptySet DEF Total
    <2> QED
      BY <2>1, <2>4, <2>5 DEF Reckoned
  <1>2. ASSUME LedgerInv, ReferencePostedOnce, HoldEndsOnce, WalletsReckoned, [Next]_vars
        PROVE  WalletsReckoned'
    <2>1. CASE UNCHANGED <<row, ledger>>
      BY <1>2, <2>1 DEF WalletsReckoned
    <2>2. ASSUME NEW c \in Conns, Commit(c) PROVE WalletsReckoned'
      <3> SUFFICES ASSUME NEW w \in Wallets
                   PROVE  Reckoned(ledger'[w], row'[w].available, row'[w].pending)
        BY DEF WalletsReckoned
      <3>1. CASE row'[w] = row[w] /\ ledger'[w] = ledger[w]
        BY <1>2, <3>1 DEF WalletsReckoned
      <3>2. CASE /\ CanWrite(call[c], w)
                 /\ row'[w] = NextRow(row[w], LegKind(call[c], HalfAt(call[c], w)),
                                      call[c].amount)
                 /\ ledger'[w] = Append(ledger[w], EntryFor(call[c], w, row'[w].available))
                 /\ EntryFor(call[c], w, row'[w].available) \in Entry
        <4>1. PICK e \in Entry : e = EntryFor(call[c], w, row'[w].available)
          BY <3>2
        <4>2. /\ e.kind = LegKind(call[c], HalfAt(call[c], w))
              /\ e.ref = call[c].ref /\ e.amount = call[c].amount
          BY <4>1 DEF EntryFor
        <4>3. PICK entries \in Seq(Entry), available \in Nat, pending \in Nat :
                entries = ledger[w] /\ available = row[w].available /\ pending = row[w].pending
          BY <1>2 DEF LedgerInv, TypeOK, Row
        <4>4. /\ ledger'[w] = Append(entries, e)
              /\ row'[w].available = available + AvailableDelta(e.kind, e.amount)
              /\ row'[w].pending = pending + PendingDelta(e.kind, e.amount)
          BY <3>2, <4>1, <4>2, <4>3 DEF NextRow
        <4>5. Reckoned(entries, available, pending)
          BY <1>2, <4>3 DEF WalletsReckoned
        <4>6. /\ ~IsPosted(entries, e.kind, e.ref)
              /\ e.kind \in {"hold_commit", "hold_release"} =>
                   OpenHold(entries, e.kind, e.ref, e.amount)
          BY <3>2, <4>2, <4>3 DEF CanWrite, Admits
        <4>7. PostedOnce(entries)
          BY <1>2, <4>3 DEF ReferencePostedOnce, PostedOnce
        <4>8. EndedWereOpened(entries)
          <5> SUFFICES ASSUME NEW i \in 1..Len(entries),
                              entries[i].kind \in {"hold_commit", "hold_release"}
                       PROVE  \E j \in 1..Len(entries) :
                                entries[j].kind = "hold" /\ entries[j].ref = entries[i].ref
            BY DEF EndedWereOpened
          <5>1. PICK j \in 1..(i - 1) :
                  ledger[w][j].kind = "hold" /\ ledger[w][j].ref = ledger[w][i].ref
            BY <1>2, <4>3 DEF HoldEndsOnce
          <5>2. j \in 1..Len(entries)
            BY <5>1
          <5> QED
            BY <4>3, <5>1, <5>2
        <4>9. Reckoned(Append(entries, e), available + AvailableDelta(e.kind, e.amount),
                       pending + PendingDelta(e.kind, e.amount))
          BY <4>5, <4>6, <4>7, <4>8, ReckonedAppend
        <4> QED
          BY <4>4, <4>9
      <3> QED
        BY <1>2, <2>2, <3>1, <3>2, CommitPosts DEF LedgerInv
    <2> QED
      BY <1>2, <2>1, <2>2, OnlyCommitPosts DEF Next, Step, vars
  <1>3. WalletsReckoned => Reconciles
    BY DEF WalletsReckoned, Reckoned, Reconciles
  <1> QED
    BY <1>1, <1>2, <1>3, LedgerInvariant, ReferencesPostedOnce, HoldsEndOnce, PTL
    DEF Spec, LedgerInv
===============================================================================
