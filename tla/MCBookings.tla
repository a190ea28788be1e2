------------------------------ MODULE MCBookings ------------------------------
(***************************************************************************)
(* BookingSettlement for TLC, in three scenarios of one run:               *)
(*   - "rooms": two guests, the hotel and the sweep work on a calendar of  *)
(*     two nights; nobody pays, and nobody is rejected, which would unwind *)
(*     like an expiry.                                                     *)
(*   - "payment": one guest and one night; every call in every order, and  *)
(*     a crash.                                                            *)
(*   - "money": two stays of a night each that are accepted and paid in    *)
(*     time; the desk works and the hotel is settled.                      *)
(***************************************************************************)
EXTENDS BookingSettlement

VARIABLE scenario

mcVars == <<vars, scenario>>

MCInit ==
  /\ Init
  /\ \/ scenario = "rooms"
     \/ scenario \in {"payment", "money"} /\ \A n \in Nights : open[n] = TotalRooms

Doing(w, pcs) == job'[w].pc \in pcs
Made == {b \in Bookings :
  stay'[b] # NoStay \/ \E w \in Workers : Doing(w, {"hold"}) /\ job'[w].id = b}

Scene ==
  \/ /\ scenario = "rooms" /\ week' = 1 /\ crashes' = 0
     /\ \A w \in Workers : ~Doing(w, {"checkout", "verify", "confirm"})
     /\ \A w \in Workers : Doing(w, {"unwind"}) => job'[w].to = "EXPIRED"
     /\ \A v, w \in Workers : Doing(v, {"open"}) /\ Doing(w, {"open"}) => v = w
  \/ /\ scenario = "payment"
     /\ Cardinality(Made) <= 1
     /\ \A w \in Workers : /\ ~Doing(w, {"open"})
                           /\ Doing(w, {"hold"}) => job'[w].nights = {1}
  \/ /\ scenario = "money" /\ crashes' = 0
     /\ \A b \in Bookings : ~stay'[b].late
     /\ \A w \in Workers : /\ ~Doing(w, {"open", "unwind"})
                           /\ Doing(w, {"hold"}) => Cardinality(job'[w].nights) = 1

MCNext == Next /\ Scene /\ UNCHANGED scenario
MCSpec == MCInit /\ [][MCNext]_mcVars

\* LiveSpec, for the scenarios.
MCLiveSpec ==
  /\ MCSpec
  /\ \A w \in Workers :
       /\ WF_mcVars(Step(w) /\ UNCHANGED scenario)
       /\ SF_mcVars(RowStep(w) /\ UNCHANGED scenario)
  /\ SF_mcVars(SweepTicks /\ UNCHANGED scenario)
===============================================================================
