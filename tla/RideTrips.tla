------------------------------ MODULE RideTrips ------------------------------
(***************************************************************************)
(* What ride dispatch promises passengers and drivers, whatever its        *)
(* handlers do in between: a booked ride is claimed by one driver or       *)
(* closed, a driver carries one ride at a time, a claimed ride is only     *)
(* ever closed, and a closed ride stays closed.                            *)
(***************************************************************************)
CONSTANTS Rides, Drivers

VARIABLES open,     \* the rides that look for a driver
          holder,   \* the driver of each ride under way
          closed    \* the rides that ended

vars == <<open, holder, closed>>

Init == open = {} /\ holder = [r \in {} |-> r] /\ closed = {}

\* The drivers that carry a ride.
Busy == {holder[r] : r \in DOMAIN holder}

\* RidesService.requestRide
Book(r) ==
  /\ r \notin open \union DOMAIN holder \union closed
  /\ open' = open \union {r}
  /\ UNCHANGED <<holder, closed>>

\* RideDispatchService.acceptOffer
Claim(r, d) ==
  /\ r \in open
  /\ d \notin Busy
  /\ open' = open \ {r}
  /\ holder' = [q \in DOMAIN holder \union {r} |-> IF q = r THEN d ELSE holder[q]]
  /\ UNCHANGED closed

\* completeTrip, the three cancellations and giveUp
Close(r) ==
  /\ r \in open \union DOMAIN holder
  /\ open' = open \ {r}
  /\ holder' = [q \in DOMAIN holder \ {r} |-> holder[q]]
  /\ closed' = closed \union {r}

Next ==
  \E r \in Rides : Book(r) \/ Close(r) \/ (\E d \in Drivers : Claim(r, d))

Spec == Init /\ [][Next]_vars
===============================================================================
