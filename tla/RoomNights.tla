------------------------------- MODULE RoomNights -------------------------------
(***************************************************************************)
(* What bookings promise a hotel and its guests, whatever the handlers do  *)
(* in between: a stay has all of its nights or none, a night is never sold *)
(* beyond what the hotel opened, a stay that was paid for keeps its rooms, *)
(* and the rooms of a stay that fell through come back once.               *)
(***************************************************************************)
EXTENDS Naturals, FiniteSets

CONSTANTS Bookings, Nights, Capacities

VARIABLES capacity,  \* rooms the hotel offers on each night
          phase,     \* how far a stay is
          claim      \* the nights and the number of rooms of each stay

vars == <<capacity, phase, claim>>

Nothing == [nights |-> {}, rooms |-> 0]

\* The rooms of night n that are spoken for, numbered stay by stay.
Spoken(n) ==
  UNION {{b} \X (1..claim[b].rooms) :
    b \in {c \in Bookings : phase[c] \in {"held", "assured", "ending"} /\ n \in claim[c].nights}}
Taken(n) == Cardinality(Spoken(n))

Init ==
  /\ capacity \in [Nights -> Capacities]
  /\ phase = [b \in Bookings |-> "none"]
  /\ claim = [b \in Bookings |-> Nothing]

Hold(b, nights, rooms) ==
  /\ phase[b] = "none"
  /\ \A n \in nights : Taken(n) + rooms <= capacity[n]
  /\ phase' = [phase EXCEPT ![b] = "held"]
  /\ claim' = [claim EXCEPT ![b] = [nights |-> nights, rooms |-> rooms]]
  /\ UNCHANGED capacity

Move(b, from, to) ==
  /\ phase[b] = from
  /\ phase' = [phase EXCEPT ![b] = to]
  /\ UNCHANGED <<capacity, claim>>

\* The hotel changes some nights, never below what is spoken for.
Offer(nights, c) ==
  /\ \A n \in nights : Taken(n) <= c
  /\ capacity' = [n \in Nights |-> IF n \in nights THEN c ELSE capacity[n]]
  /\ UNCHANGED <<phase, claim>>

Next ==
  \/ \E b \in Bookings :
       \/ \E nights \in SUBSET Nights, rooms \in Capacities : Hold(b, nights, rooms)
       \/ Move(b, "held", "assured") \/ Move(b, "held", "ending") \/ Move(b, "ending", "ended")
  \/ \E nights \in SUBSET Nights, c \in Capacities : Offer(nights, c)

Spec == Init /\ [][Next]_vars
===============================================================================
