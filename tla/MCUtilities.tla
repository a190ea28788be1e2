------------------------------ MODULE MCUtilities ------------------------------
(***************************************************************************)
(* Utilities for TLC, in two scenes of one run:                            *)
(*   - "one": one purchase, by card or from the wallet, and everything     *)
(*     that can happen to it;                                              *)
(*   - "two": two purchases by card, no operator: the sweep has a list.    *)
(***************************************************************************)
EXTENDS Utilities

VARIABLE scene

mcVars == <<vars, scene>>

Made == {p \in Purchases : row'[p] # NoRow}
InScene(A) ==
  /\ A
  /\ \/ scene = "one" /\ Cardinality(Made) <= 1
     \/ scene = "two" /\ judged' = {} /\ \A p \in Made : row'[p].card
                      /\ \A w \in Workers : job'[w] \in Task => job'[w].plan = "buy"
  /\ UNCHANGED scene

MCInit == Init /\ scene \in {"one", "two"}
MCSpec == MCInit /\ [][InScene(Next)]_mcVars

\* LiveSpec, for the scenes.
MCLiveSpec ==
  /\ MCSpec
  /\ \A w \in Workers : WF_mcVars(InScene(Step(w)))
  /\ \A p \in Purchases : WF_mcVars(InScene(Ages(p, "fresh", "due")))
  /\ SF_mcVars(InScene(Sweep))
===============================================================================
