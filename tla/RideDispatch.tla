----------------------------- MODULE RideDispatch -----------------------------
(***************************************************************************)
(* rides/: how a ride finds its driver and reaches its end. Every handler  *)
(* (an HTTP request of a passenger, a driver or an operator, or a tick of  *)
(* the offer sweep) reads what it decides on, awaits, and writes later;    *)
(* other handlers run at every await. A handler in progress is job[w] of   *)
(* the worker w that runs it. With a single worker the handlers run one    *)
(* after another; with more they interleave at every statement.            *)
(*                                                                         *)
(* A statement or transaction of the database is one step, except that the *)
(* offers of a ride and the candidates for it are read together. Clocks    *)
(* appear as two flags: an offer "lapsed" when expiresAt is past, a ride   *)
(* "overdue" when its search window closed, or when its requestedAt lies   *)
(* in the future, which dispatch treats the same way. A driver is          *)
(* "reachable" when online, accepting rides, approved, of the vehicle      *)
(* type, freshly located and inside the widest ring: which of several      *)
(* candidates is nearest is left open.                                     *)
(***************************************************************************)
EXTENDS Integers, Sequences, FiniteSets

CONSTANTS Rides, Drivers,
          Workers,      \* the handlers that may be in progress at once
          MaxAttempts,  \* MAX_DISPATCH_ATTEMPTS
          Batch,        \* how many stalled rides one sweep takes up
          MaxCrashes,   \* bound: handlers that die half-way
          NoDriver      \* driverId is null

ASSUME ConfigOK ==
  /\ MaxAttempts \in Nat \ {0} /\ Batch \in Nat \ {0}
  /\ MaxCrashes \in Nat
  /\ NoDriver \notin Drivers

VARIABLES ride,       \* the row of each ride, status "NONE" before it is booked
          offers,     \* the offers of each ride, oldest first
          count,      \* driverAvailability.activeRideCount
          reachable,  \* the drivers a search would find if they were free
          job,        \* what each worker is doing
          crashes

vars == <<ride, offers, count, reachable, job, crashes>>

Looking  == {"REQUESTED", "SEARCHING"}
Active   == {"DRIVER_ASSIGNED", "ARRIVED", "IN_PROGRESS"}
Terminal == {"COMPLETED", "CANCELLED", "NO_DRIVERS_FOUND"}

Offer == [driver : Drivers, lapsed : BOOLEAN,
          status : {"PENDING", "ACCEPTED", "DECLINED", "EXPIRED"}]

\* An offer is known by its ride and its place among the offers of the ride.
OfferId == Rides \X (Nat \ {0})
At(o) == offers[o[1]][o[2]]
Made == {o \in Rides \X UNION {DOMAIN offers[r] : r \in Rides} :
           o[2] \in DOMAIN offers[o[1]]}
Pending(o) == At(o).status = "PENDING"
NoPending(r) == \A i \in DOMAIN offers[r] : offers[r][i].status # "PENDING"

\* The calls that move a ride with a plain read, check and write: whence they
\* take it and where to. The first four are the driver's own.
DriverCalls == {"arrive", "start", "complete", "cancelByDriver"}
TripCalls == DriverCalls \union {"cancelRide", "cancelAsOps"}
From(op) ==
  CASE op = "arrive"         -> {"DRIVER_ASSIGNED"}
    [] op = "start"          -> {"ARRIVED"}
    [] op = "complete"       -> {"IN_PROGRESS"}
    [] op = "cancelByDriver" -> {"DRIVER_ASSIGNED", "ARRIVED"}
    [] op = "cancelRide"     -> Looking \union {"DRIVER_ASSIGNED", "ARRIVED"}
    [] op = "cancelAsOps"    -> Looking \union Active
ToSearchAgain(op) ==  \* mutant: a driver's cancellation puts the ride back into the search
  CASE op = "cancelByDriver" -> "SEARCHING"
    [] op = "arrive"         -> "ARRIVED"
    [] op = "start"          -> "IN_PROGRESS"
    [] op = "complete"       -> "COMPLETED"
    [] OTHER                 -> "CANCELLED"
To(op) ==
  CASE op = "arrive"   -> "ARRIVED"
    [] op = "start"    -> "IN_PROGRESS"
    [] op = "complete" -> "COMPLETED"
    [] OTHER           -> "CANCELLED"

\* The driver's count after a trip call wrote the ride: only Operations' release
\* refuses to go below zero.
ReleasedByDriverOnly(op, n) ==  \* mutant: a passenger's cancellation frees nobody
  IF op \in {"complete", "cancelByDriver"} THEN n - 1 ELSE n
Released(op, n) ==
  CASE op \in {"arrive", "start"} -> n
    [] op = "cancelAsOps" /\ n <= 0 -> n
    [] OTHER -> n - 1

-------------------------------------------------------------------------------
\* What a worker does. "then" is what it returns to after dispatchRide: nothing,
\* or the rest of the sweep.
Idle == [pc |-> "idle"]
SweepJob ==
  [pc : {"check"}, todo : SUBSET OfferId, expire : SUBSET OfferId]
    \union [pc : {"renew"}, offer : OfferId, todo : SUBSET OfferId, expire : SUBSET OfferId]
    \union [pc : {"expire"}, expire : SUBSET OfferId]
    \union [pc : {"retry"}, stalled : SUBSET Rides]
DispatchJob ==
  [pc : {"look", "choose", "offer", "search", "giveUp"}, ride : Rides,
   saw : Looking, driver : Drivers \union {NoDriver}, then : {Idle} \union SweepJob]
Job ==
  {Idle} \union SweepJob \union DispatchJob
    \union [pc : {"accept", "decline"}, offer : OfferId]
    \union [pc : TripCalls, ride : Rides, driver : Drivers \union {NoDriver}]

Dispatch(r, then) ==
  [pc |-> "look", ride |-> r, saw |-> "REQUESTED", driver |-> NoDriver, then |-> then]

IsSweep(j) ==
  \/ j.pc \in {"check", "renew", "expire", "retry"}
  \/ j.pc \in {"look", "choose", "offer", "search", "giveUp"} /\ j.then # Idle

Become(w, j) == job' = [job EXCEPT ![w] = j]
SetStatus(r, s) == ride' = [ride EXCEPT ![r].status = s]
SetOffer(o, s) == offers' = [offers EXCEPT ![o[1]][o[2]].status = s]

Init ==
  /\ ride = [r \in Rides |-> [status |-> "NONE", driver |-> NoDriver, overdue |-> FALSE]]
  /\ offers = [r \in Rides |-> <<>>]
  /\ count = [d \in Drivers |-> 0]
  /\ reachable \in SUBSET Drivers
  /\ job = [w \in Workers |-> Idle]
  /\ crashes = 0

-------------------------------------------------------------------------------
\* dispatchRide

\* findNearestEligibleDriver, without the drivers excluded by name: found by the
\* search, with no ride and with no live offer for any ride.
EligibleIdle == {d \in reachable : count[d] = 0}  \* mutant: a live offer elsewhere is ignored
Eligible == {d \in reachable :
  /\ count[d] = 0
  /\ \A o \in Made : ~(Pending(o) /\ At(o).driver = d)}

OfferedAs(r, S) ==
  {offers[r][i].driver : i \in {k \in DOMAIN offers[r] : offers[r][k].status \in S}}

\* Never offered this ride; then, let an offer lapse; then, declined.
Candidates(r) ==
  LET never == Eligible \ OfferedAs(r, {"PENDING", "ACCEPTED", "DECLINED", "EXPIRED"})
      lapse == Eligible \ OfferedAs(r, {"PENDING", "DECLINED"})
      rest  == Eligible \ OfferedAs(r, {"PENDING"})
  IN  CASE never # {} -> never
        [] lapse # {} -> lapse
        [] OTHER      -> rest

\* requireRide, and the early return for a ride that does not look any more.
Look(w) == LET j == job[w] IN
  /\ j.pc = "look"
  /\ \/ /\ ride[j.ride].status \in Looking
        /\ Become(w, [j EXCEPT !.pc = "choose", !.saw = ride[j.ride].status])
     \/ /\ ride[j.ride].status \notin Looking
        /\ Become(w, j.then)
  /\ UNCHANGED <<ride, offers, count, reachable, crashes>>

Exhausted(r) == Len(offers[r]) >= MaxAttempts

\* keepSearching decides for a ride without a candidate.
Choose(w) == LET j == job[w] IN
  /\ j.pc = "choose"
  /\ \/ Exhausted(j.ride) /\ Become(w, [j EXCEPT !.pc = "giveUp"])
     \/ /\ ~Exhausted(j.ride)
        /\ \E d \in Candidates(j.ride) :
             Become(w, [j EXCEPT !.pc = "offer", !.driver = d])
     \/ /\ ~Exhausted(j.ride)
        /\ Candidates(j.ride) = {}
        /\ Become(w, CASE ride[j.ride].overdue -> [j EXCEPT !.pc = "giveUp"]
                       [] ~ride[j.ride].overdue /\ j.saw = "REQUESTED"
                            -> [j EXCEPT !.pc = "search"]
                       [] OTHER -> j.then)
  /\ UNCHANGED <<ride, offers, count, reachable, crashes>>

\* rideOffer.create, on whatever became of the ride and the driver since.
CreateOffer(w) == LET j == job[w] IN
  /\ j.pc = "offer"
  /\ offers' = [offers EXCEPT ![j.ride] =
       Append(@, [driver |-> j.driver, lapsed |-> FALSE, status |-> "PENDING"])]
  /\ Become(w, [j EXCEPT !.pc = "search"])
  /\ UNCHANGED <<ride, count, reachable, crashes>>

\* ride.update by id alone: to SEARCHING, or to NO_DRIVERS_FOUND (giveUp).
EndDispatch(w) == LET j == job[w] IN
  /\ j.pc \in {"search", "giveUp"}
  /\ SetStatus(j.ride, IF j.pc = "search" THEN "SEARCHING" ELSE "NO_DRIVERS_FOUND")
  /\ Become(w, j.then)
  /\ UNCHANGED <<offers, count, reachable, crashes>>

-------------------------------------------------------------------------------
\* The passenger books: the row is created, then dispatched.
RequestRide(w, r) ==
  /\ job[w] = Idle
  /\ ride[r].status = "NONE"
  /\ SetStatus(r, "REQUESTED")
  /\ Become(w, Dispatch(r, Idle))
  /\ UNCHANGED <<offers, count, reachable, crashes>>

\* requireLiveOffer, for the driver the offer was made to.
AnswerOffer(w, answer, o) ==
  /\ job[w] = Idle
  /\ Pending(o) /\ ~At(o).lapsed
  /\ Become(w, [pc |-> answer, offer |-> o])
  /\ UNCHANGED <<ride, offers, count, reachable, crashes>>

\* The transaction of acceptOffer: the offer and the ride are both claimed
\* under a guard, or nothing is written.
CanClaimOfferOnly(o) == Pending(o)  \* mutant: the ride itself is not claimed
CanClaim(o) == Pending(o) /\ ride[o[1]].status \in Looking
Assigned(r, d) == [r EXCEPT !.status = "DRIVER_ASSIGNED", !.driver = d]
AcceptOffer(w) == LET j == job[w] IN
  /\ j.pc = "accept"
  /\ \/ /\ CanClaim(j.offer)
        /\ SetOffer(j.offer, "ACCEPTED")
        /\ ride' = [ride EXCEPT ![j.offer[1]] = Assigned(@, At(j.offer).driver)]
        /\ count' = [count EXCEPT ![At(j.offer).driver] = @ + 1]
     \/ /\ ~CanClaim(j.offer)
        /\ UNCHANGED <<ride, offers, count>>
  /\ Become(w, Idle)
  /\ UNCHANGED <<reachable, crashes>>

\* declineOffer updates the offer by id alone and dispatches the ride again.
DeclineOffer(w) == LET j == job[w] IN
  /\ j.pc = "decline"
  /\ SetOffer(j.offer, "DECLINED")
  /\ Become(w, Dispatch(j.offer[1], Idle))
  /\ UNCHANGED <<ride, count, reachable, crashes>>

\* The read and the checks of markArrived, startTrip, completeTrip,
\* cancelByDriver, cancelRide and cancelRideAsOperations.
BeginTrip(w, op, r) ==
  /\ job[w] = Idle
  /\ ride[r].status \in From(op)
  /\ op \in DriverCalls => ride[r].driver # NoDriver
  /\ Become(w, [pc |-> op, ride |-> r, driver |-> ride[r].driver])
  /\ UNCHANGED <<ride, offers, count, reachable, crashes>>

\* Their write: the ride by id alone, in one transaction with the driver's count.
EndTrip(w) == LET j == job[w] IN
  /\ j.pc \in TripCalls
  /\ SetStatus(j.ride, To(j.pc))
  /\ count' = [d \in Drivers |-> IF d = j.driver THEN Released(j.pc, count[d]) ELSE count[d]]
  /\ Become(w, Idle)
  /\ UNCHANGED <<offers, reachable, crashes>>

-------------------------------------------------------------------------------
\* RideOfferSweepService: one sweep at a time. expireStaleOffers reads the
\* lapsed offers, renews those it has no other driver for, expires the others
\* one by one and dispatches their rides; retryStalledSearches then dispatches
\* the rides that look without a live offer.
BeginSweep(w) ==
  /\ job[w] = Idle
  /\ \A v \in Workers : ~IsSweep(job[v])
  /\ Become(w, [pc |-> "check", expire |-> {},
                todo |-> {o \in Made : Pending(o) /\ At(o).lapsed}])
  /\ UNCHANGED <<ride, offers, count, reachable, crashes>>

KeepOffer(o) ==
  /\ ride[o[1]].status \in Looking
  /\ Eligible \ {At(o).driver} = {}

CheckOffer(w) == LET j == job[w] IN
  /\ j.pc = "check"
  /\ \/ \E o \in j.todo :
          Become(w, IF KeepOffer(o)
                    THEN [pc |-> "renew", offer |-> o, todo |-> j.todo \ {o},
                          expire |-> j.expire]
                    ELSE [j EXCEPT !.todo = @ \ {o}, !.expire = @ \union {o}])
     \/ j.todo = {} /\ Become(w, [pc |-> "expire", expire |-> j.expire])
  /\ UNCHANGED <<ride, offers, count, reachable, crashes>>

\* A new expiresAt, by id alone.
RenewOffer(w) == LET j == job[w] IN
  /\ j.pc = "renew"
  /\ offers' = [offers EXCEPT ![j.offer[1]][j.offer[2]].lapsed = FALSE]
  /\ Become(w, [pc |-> "check", todo |-> j.todo, expire |-> j.expire])
  /\ UNCHANGED <<ride, count, reachable, crashes>>

ExpireOffer(w) == LET j == job[w] IN
  /\ j.pc = "expire"
  /\ \E o \in j.expire :
       /\ SetOffer(o, "EXPIRED")
       /\ Become(w, Dispatch(o[1], [j EXCEPT !.expire = @ \ {o}]))
  /\ UNCHANGED <<ride, count, reachable, crashes>>

StalledRequested(r) == ride[r].status = "REQUESTED" /\ NoPending(r)  \* mutant
Stalled(r) == ride[r].status \in Looking /\ NoPending(r)
\* A batch of them in no order: which are left for the next tick is open.
ReadStalled(w) == LET j == job[w] all == {r \in Rides : Stalled(r)} IN
  /\ j.pc = "expire" /\ j.expire = {}
  /\ \E S \in SUBSET all :
       /\ IF Cardinality(all) <= Batch THEN S = all ELSE Cardinality(S) = Batch
       /\ Become(w, [pc |-> "retry", stalled |-> S])
  /\ UNCHANGED <<ride, offers, count, reachable, crashes>>

RetrySearch(w) == LET j == job[w] IN
  /\ j.pc = "retry"
  /\ \/ \E r \in j.stalled : Become(w, Dispatch(r, [j EXCEPT !.stalled = @ \ {r}]))
     \/ j.stalled = {} /\ Become(w, Idle)
  /\ UNCHANGED <<ride, offers, count, reachable, crashes>>

-------------------------------------------------------------------------------
\* A driver goes online or offline, moves, pauses or is suspended.
DriverChanges(d) ==
  /\ reachable' = IF d \in reachable THEN reachable \ {d} ELSE reachable \union {d}
  /\ UNCHANGED <<ride, offers, count, job, crashes>>

\* RIDE_OFFER_TIMEOUT_MS goes by.
OfferLapses(o) ==
  /\ Pending(o) /\ ~At(o).lapsed
  /\ offers' = [offers EXCEPT ![o[1]][o[2]].lapsed = TRUE]
  /\ UNCHANGED <<ride, count, reachable, job, crashes>>

\* RIDE_SEARCH_WINDOW_MS goes by, which matters only while the ride looks.
WindowCloses(r) ==
  /\ ride[r].status \in Looking /\ ~ride[r].overdue
  /\ ride' = [ride EXCEPT ![r].overdue = TRUE]
  /\ UNCHANGED <<offers, count, reachable, job, crashes>>

\* A handler dies between two statements: the process ends, or one of them throws.
Crash(w) ==
  /\ job[w] # Idle /\ crashes < MaxCrashes
  /\ crashes' = crashes + 1
  /\ Become(w, Idle)
  /\ UNCHANGED <<ride, offers, count, reachable>>

\* The next statement of the handler that worker w runs.
Step(w) ==
  \/ Look(w) \/ Choose(w) \/ CreateOffer(w) \/ EndDispatch(w)
  \/ AcceptOffer(w) \/ DeclineOffer(w) \/ EndTrip(w)
  \/ CheckOffer(w) \/ RenewOffer(w) \/ ExpireOffer(w) \/ ReadStalled(w) \/ RetrySearch(w)

Sweep == \E w \in Workers : BeginSweep(w)

Next ==
  \/ \E w \in Workers :
       \/ Step(w) \/ BeginSweep(w) \/ Crash(w)
       \/ \E r \in Rides : RequestRide(w, r) \/ \E op \in TripCalls : BeginTrip(w, op, r)
       \/ \E o \in Made, answer \in {"accept", "decline"} : AnswerOffer(w, answer, o)
  \/ \E d \in Drivers : DriverChanges(d)
  \/ \E o \in Made : OfferLapses(o)
  \/ \E r \in Rides : WindowCloses(r)

Spec == Init /\ [][Next]_vars

\* A handler that started goes on, the sweep's timer fires again and again
\* whatever requests arrive, and the clock does not stop. Nobody has to book,
\* answer, drive or cancel.
LapsesFor(r) == \E o \in Made : o[1] = r /\ OfferLapses(o)
Fairness ==
  /\ \A w \in Workers : WF_vars(Step(w))
  /\ SF_vars(Sweep)
  /\ \A r \in Rides : WF_vars(LapsesFor(r)) /\ WF_vars(WindowCloses(r))
LiveSpec == Spec /\ Fairness

-------------------------------------------------------------------------------
\* Every row, counter and handler has its type; a driver is named once a ride is
\* under way. activeRideCount is an integer, not a natural number: see CountIsTrips.
TypeOK ==
  /\ ride \in [Rides -> [status : {"NONE"} \union Looking \union Active \union Terminal,
                         driver : Drivers \union {NoDriver}, overdue : BOOLEAN]]
  /\ offers \in [Rides -> Seq(Offer)]
  /\ count \in [Drivers -> Int]
  /\ reachable \in SUBSET Drivers
  /\ job \in [Workers -> Job]
  /\ crashes \in 0..MaxCrashes
  /\ \A r \in Rides : ride[r].status \in Active => ride[r].driver # NoDriver

\* activeRideCount, which hides a driver from dispatch, is the number of rides
\* the driver has under way: no ending leaves it raised, which would keep the
\* driver from work for good, and none lowers it twice (acceptOffer's increment,
\* the decrements of completeTrip and of the three cancellations).
CountIsTrips == \A d \in Drivers :
  count[d] = Cardinality({r \in Rides : ride[r].status \in Active /\ ride[r].driver = d})

\* At most one driver is being asked about a ride, and a driver is asked about
\* at most one ride (the exclusions of dispatchRide and findNearestEligibleDriver).
OneLiveOffer == \A o, p \in Made :
  Pending(o) /\ Pending(p) /\ o # p => o[1] # p[1] /\ At(o).driver # At(p).driver

\* The driver of a ride is the one driver who accepted an offer for it, and the
\* acceptance stands. Only handlers that do not overlap keep this: see the instances.
DriverAccepted == \A r \in Rides :
  LET won == {i \in DOMAIN offers[r] : offers[r][i].status = "ACCEPTED"}
  IN  IF ride[r].driver = NoDriver THEN won = {}
      ELSE \E i \in won : won = {i} /\ offers[r][i].driver = ride[r].driver

\* "The increment must never outlive a failed claim": whoever's count goes up
\* took, in that same step, one ride that still looked for a driver, through a
\* live offer of their own. A driver who loses the race changes nothing.
LoserTakesNothing == [][\A d \in Drivers : count'[d] > count[d] =>
  \E o \in Made :
    /\ At(o).driver = d /\ Pending(o) /\ At(o)'.status = "ACCEPTED"
    /\ ride[o[1]].status \in Looking
    /\ ride'[o[1]] = [ride[o[1]] EXCEPT !.status = "DRIVER_ASSIGNED", !.driver = d]]_vars

\* A ride that looks without a live offer (the booking request died, nobody was
\* in range, the last driver declined) is offered again or leaves the search: the
\* sweep finds it, "by the next tick" if not by this one, since the searches that are
\* in its way have a window too. A live offer for a ride that looks no more ends by itself: it
\* would keep its driver from every other ride.
SearchResumes == \A r \in Rides :
  /\ (ride[r].status \in Looking /\ NoPending(r))
       ~> (ride[r].status \notin Looking \/ ~NoPending(r))
  /\ (ride[r].status \notin Looking /\ ~NoPending(r)) ~> NoPending(r)

-------------------------------------------------------------------------------
\* What a comment of the code says of it, and its handlers refute.
\* "The loser is told so rather than silently overwriting the winner's
\* assignment": the driver of a ride is never replaced by another.
WinnerKeepsRide == [][\A r \in Rides :
  ride[r].driver # NoDriver => ride'[r].driver = ride[r].driver]_vars
===============================================================================
