------------------------------- MODULE MCPayouts -------------------------------
(***************************************************************************)
(* The instance of Payouts for TLC: handlers of several requests that      *)
(* interleave at every statement.                                          *)
(***************************************************************************)
EXTENDS Payouts, TLC

Symmetry == Permutations(Workers) \union Permutations(Requests)
===============================================================================
