------------------------------ MODULE WalletBook ------------------------------
(***************************************************************************)
(* What the wallet promises its callers, with no transactions, locks or    *)
(* retries in sight: a mutation happens at one instant, against the        *)
(* balance of that instant; a reference is posted at most once; both       *)
(* halves of a transfer are posted together or not at all.                 *)
(* WalletLedger implements this specification.                             *)
(***************************************************************************)
EXTENDS WalletRules

CONSTANT Wallets

VARIABLES balance,   \* wallet -> [available, pending]
          ledger     \* wallet -> its entries

vars == <<balance, ledger>>

Init ==
  /\ balance = [w \in Wallets |-> [available |-> 0, pending |-> 0]]
  /\ ledger = [w \in Wallets |-> <<>>]

\* The mutation may be posted to w now.
CanPost(w, kind, ref, amount) ==
  /\ ~IsPosted(ledger[w], kind, ref)
  /\ Admits(ledger[w], balance[w].available, kind, ref, amount)
  /\ balance[w].pending + PendingDelta(kind, amount) >= 0

Posted(w, kind, amount) ==
  [available |-> balance[w].available + AvailableDelta(kind, amount),
   pending   |-> balance[w].pending + PendingDelta(kind, amount)]

PostedEntry(w, kind, ref, amount) ==
  [kind |-> kind, ref |-> ref, amount |-> amount,
   after |-> balance[w].available + AvailableDelta(kind, amount)]

\* One credit, debit, hold, hold commit or hold release.
Post(w, kind, ref, amount) ==
  /\ ledger'[w] # ledger[w]   \* implied by the last conjunct, cheaper to evaluate
  /\ CanPost(w, kind, ref, amount)
  /\ balance' = [balance EXCEPT ![w] = Posted(w, kind, amount)]
  /\ ledger' = [ledger EXCEPT ![w] = Append(@, PostedEntry(w, kind, ref, amount))]

\* Two halves of one event, under one reference.
Transfer(v, w, ref, amount) ==
  /\ v # w
  /\ ledger'[v] # ledger[v]   \* implied by the last conjunct
  /\ CanPost(v, "debit", ref, amount)
  /\ CanPost(w, "credit", ref, amount)
  /\ balance' = [balance EXCEPT ![v] = Posted(v, "debit", amount),
                                ![w] = Posted(w, "credit", amount)]
  /\ ledger' = [ledger EXCEPT ![v] = Append(@, PostedEntry(v, "debit", ref, amount)),
                              ![w] = Append(@, PostedEntry(w, "credit", ref, amount))]

Next ==
  \E ref \in Refs, amount \in Amounts :
    \/ \E w \in Wallets, kind \in Kinds : Post(w, kind, ref, amount)
    \/ \E v, w \in Wallets : Transfer(v, w, ref, amount)

Spec == Init /\ [][Next]_vars
===============================================================================
