----------------------------- MODULE WalletRules -----------------------------
(***************************************************************************)
(* The arithmetic and the admission rules of wallet/wallet.service.ts,     *)
(* stated once and shared by the abstract book (WalletBook) and by the     *)
(* database transactions that implement it (WalletLedger).                 *)
(*                                                                         *)
(* A ledger is the sequence of one wallet's entries, oldest first. Every   *)
(* entry keeps the spendable balance it left behind ("after", the column   *)
(* balanceAfter). Amounts are whole units of money: the code computes with *)
(* exact decimals, so the unit is immaterial.                              *)
(***************************************************************************)
EXTENDS Integers, Sequences

CONSTANTS Refs,     \* (referenceType, referenceId) pairs a caller may name
          Amounts   \* amounts a caller may ask for

\* toPositiveDecimal refuses an amount that is not greater than zero.
ASSUME AmountsPositive == Amounts \subseteq Nat \ {0}

HoldKinds == {"hold", "hold_commit", "hold_release"}
Kinds == {"credit", "debit"} \union HoldKinds

Entry == [kind : Kinds, ref : Refs, amount : Amounts, after : Nat]

\* The ledger's unique key. The three legs of a hold append their own suffix
\* to the reference type; every other mutation uses the caller's type as is.
Key(kind, ref) == <<IF kind \in HoldKinds THEN kind ELSE "plain", ref>>

Opposite(kind) == IF kind = "hold_commit" THEN "hold_release" ELSE "hold_commit"

\* What a posted entry does to availableBalance ...
AvailableDelta(kind, amount) ==
  CASE kind \in {"credit", "hold_release"} -> amount
    [] kind \in {"debit", "hold"}          -> -amount
    [] OTHER                               -> 0

\* Mutant: a release credits the balance and leaves the money pending.
PendingDeltaReleaseKeeps(kind, amount) ==
  CASE kind = "hold"        -> amount
    [] kind = "hold_commit" -> -amount
    [] OTHER                -> 0

\* ... and to pendingBalance.
PendingDelta(kind, amount) ==
  CASE kind = "hold"                            -> amount
    [] kind \in {"hold_commit", "hold_release"} -> -amount
    [] OTHER                                    -> 0

IsPosted(entries, kind, ref) ==
  \E i \in DOMAIN entries : Key(entries[i].kind, entries[i].ref) = Key(kind, ref)

\* The hold a commit or a release settles: opened under the same reference,
\* for exactly the same amount, and not already ended the other way.
OpenHold(entries, kind, ref, amount) ==
  /\ \E i \in DOMAIN entries :
       /\ entries[i].kind = "hold"
       /\ entries[i].ref = ref
       /\ entries[i].amount = amount
  /\ ~IsPosted(entries, Opposite(kind), ref)

\* Everything that is verified before a mutation is written.
Admits(entries, available, kind, ref, amount) ==
  /\ kind \in {"debit", "hold"} => available >= amount
  /\ kind \in {"hold_commit", "hold_release"} => OpenHold(entries, kind, ref, amount)
==============================================================================
