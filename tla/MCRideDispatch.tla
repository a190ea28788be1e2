---------------------------- MODULE MCRideDispatch ----------------------------
(***************************************************************************)
(* Instances of RideDispatch for TLC. MCSpec plays one of two scenes:      *)
(* serial, several rides, each handler running to its end (or dying)       *)
(* before the next begins; or overlapping, one ride, handlers that         *)
(* interleave at every statement.                                          *)
(***************************************************************************)
EXTENDS RideDispatch, TLC

VARIABLE serial

MCVars == <<vars, serial>>

InScene ==
  IF serial THEN \A v, w \in Workers : job[v] # Idle /\ job[w] # Idle => v = w
  ELSE /\ Cardinality({r \in Rides : ride[r].status # "NONE"}) <= 1
       /\ crashes = 0

MCInit == Init /\ serial \in BOOLEAN
MCNext == UNCHANGED serial /\ Next /\ InScene'
MCSpec == MCInit /\ [][MCNext]_MCVars
SerialInit == MCInit /\ serial

\* For liveness one ride does all it can; a second one, when it is booked, shares the
\* sweeps and a driver who accepts nothing with the first. The scene bars requests and
\* drivers, never a step that fairness is about.
Booked == {r \in Rides : ride[r].status # "NONE"}
Somebody == CHOOSE d \in Drivers : TRUE
OnlySearches ==
  /\ crashes = 0 /\ reachable \subseteq {Somebody}
  /\ \A o \in Made : At(o).driver = Somebody
  /\ \A r \in Rides : ride[r].driver = NoDriver
  /\ \A w \in Workers : job[w].pc # "accept"
LiveNext == MCNext /\ (Cardinality(Booked) <= 1 \/ OnlySearches)'
MCLiveSpec == SerialInit /\ [][LiveNext]_MCVars /\ Fairness

\* Drivers, rides and workers are interchangeable (used without liveness).
Symmetry == Permutations(Drivers) \union Permutations(Rides) \union Permutations(Workers)

-------------------------------------------------------------------------------
(* What holds while handlers do not overlap, and only then: two dispatches *)
(* of one ride at once may ask one driver twice, a double tap may lower a  *)
(* count twice, and a dispatch may take an assigned ride back.             *)

\* activeRideCount is the number of rides a driver has under way, through every
\* way a ride can end and with a handler that died at any statement.
SerialCountIsTrips == serial => CountIsTrips

\* The driver of a ride is the one driver who accepted it, and nothing that comes later
\* rewrites the acceptance. A decline or an expiry writes by offer id alone: one that
\* checked the offer before the acceptance and writes after it does rewrite it.
SerialDriverAccepted == serial => DriverAccepted

\* At most one driver is asked about a ride, and a driver about one ride.
SerialOneLiveOffer == serial => OneLiveOffer

\* The promise of RideTrips, read off the rows of serial handlers.
SerialTrips == INSTANCE RideTrips WITH
  open   <- {r \in Rides : serial /\ ride[r].status \in Looking},
  holder <- [r \in {q \in Rides : serial /\ ride[q].status \in Active} |-> ride[r].driver],
  closed <- {r \in Rides : serial /\ ride[r].status \in Terminal}
ImplementsTrips == SerialTrips!Spec
===============================================================================
