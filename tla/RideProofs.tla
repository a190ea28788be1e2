------------------------------ MODULE RideProofs ------------------------------
(***************************************************************************)
(* Rides, for any number of rides, drivers, handlers and crashes. Whatever *)
(* the handlers do at once, a driver whose count rises took a ride         *)
(* (LoserTakesNothing). While they do not overlap, the counts are the      *)
(* trips, nobody is asked twice, the driver of a ride accepted it, and the *)
(* whole is an implementation of RideTrips.                                *)
(*                                                                         *)
(* The inductive invariant has two layers. The first holds in every        *)
(* interleaving: what an answer is about exists, and a trip call that      *)
(* needs a driver still has one when it writes. The second is for serial   *)
(* handlers: what the handler in progress found out still holds (Knows),   *)
(* and the tables agree with each other (Tables).                          *)
(***************************************************************************)
EXTENDS MCRideDispatch, FiniteSetTheorems, TLAPS

\* What a handler builds on in any interleaving: the offer it answers exists, the ride
\* it moves as a driver keeps a driver, and it offers a ride to somebody.
Sound(j) ==
  /\ j.pc \in {"accept", "decline"} => j.offer \in Made
  /\ j.pc \in DriverCalls => ride[j.ride].driver # NoDriver
  /\ j.pc = "offer" => j.driver \in Drivers

AnyIInv == TypeOK /\ \A w \in Workers : Sound(job[w])

-------------------------------------------------------------------------------
\* Serial handlers: what the one in progress knows.
AreLive(S) == \A o \in S : o \in Made /\ Pending(o)
Unasked(r) == \A o \in Made : o[1] = r => ~Pending(o)
Free(d) == count[d] = 0 /\ \A o \in Made : ~(Pending(o) /\ At(o).driver = d)

SweepKnows(j) ==
  /\ j.pc = "check"  => AreLive(j.todo) /\ AreLive(j.expire)
  /\ j.pc = "renew"  => AreLive({j.offer}) /\ AreLive(j.todo) /\ AreLive(j.expire)
  /\ j.pc = "expire" => AreLive(j.expire)
  /\ j.pc = "retry"  => \A r \in j.stalled : Unasked(r)

Dispatching == {"look", "choose", "offer", "search", "giveUp"}
DispatchKnows(j) ==
  /\ j.pc \in {"look", "choose", "offer"} => Unasked(j.ride)
  /\ j.pc \in {"choose", "offer", "search", "giveUp"} => ride[j.ride].status \in Looking
  /\ j.pc = "offer" => j.driver \in Drivers /\ Free(j.driver)
  /\ SweepKnows(j.then)
  /\ j.then.pc = "retry" => j.ride \notin j.then.stalled

Knows(j) ==
  /\ SweepKnows(j)
  /\ j.pc \in Dispatching => DispatchKnows(j)
  /\ j.pc = "decline" => AreLive({j.offer})
  /\ j.pc \in TripCalls => ride[j.ride].status \in From(j.pc) /\ ride[j.ride].driver = j.driver

\* Serial handlers: how the tables agree.
Unclaimed == \A r \in Rides :
  /\ ride[r].status \in {"NONE"} \union Looking => ride[r].driver = NoDriver
  /\ ride[r].status = "NONE" => Unasked(r)

Trips(d) == {r \in Rides : ride[r].status \in Active /\ ride[r].driver = d}
CountsAreTrips == \A d \in Drivers :
  IsFiniteSet(Trips(d)) /\ count[d] = Cardinality(Trips(d))

AskedAreFree == \A o \in Made : Pending(o) => count[At(o).driver] = 0

\* DriverAccepted, said of offers instead of their places.
Won(o) == At(o).status = "ACCEPTED"
Winners == \A r \in Rides :
  IF ride[r].driver = NoDriver THEN \A o \in Made : o[1] = r => ~Won(o)
  ELSE \E o \in Made : /\ o[1] = r /\ Won(o) /\ At(o).driver = ride[r].driver
                       /\ \A p \in Made : p[1] = r /\ Won(p) => p = o

Tables == OneLiveOffer /\ Winners /\ Unclaimed /\ CountsAreTrips /\ AskedAreFree

OneHandler == \A v, w \in Workers : job[v] # Idle /\ job[w] # Idle => v = w

SerialIInv == OneHandler /\ Tables /\ \A w \in Workers : Knows(job[w])

RideIInv == AnyIInv /\ (serial => SerialIInv)

-------------------------------------------------------------------------------
\* The offers made, as a function of the table of offers, whole rows of it at once.
MadeOf(f) == {o \in Rides \X UNION {DOMAIN f[r] : r \in Rides} : o[2] \in DOMAIN f[o[1]]}

RideRow == [status : {"NONE"} \union Looking \union Active \union Terminal,
            driver : Drivers \union {NoDriver}, overdue : BOOLEAN]

LEMMA MadeIsMadeOf == Made = MadeOf(offers) /\ (Made' = MadeOf(offers'))
BY DEF Made, MadeOf

LEMMA MadeOfIs ==
  ASSUME NEW f \in [Rides -> Seq(Offer)]
  PROVE  /\ \A r \in Rides : \A i \in DOMAIN f[r] : <<r, i>> \in MadeOf(f)
         /\ \A o \in MadeOf(f) :
              /\ o \in OfferId /\ o = <<o[1], o[2]>>
              /\ o[1] \in Rides /\ o[2] \in DOMAIN f[o[1]]
              /\ f[o[1]][o[2]] \in Offer
<1>1. \A r \in Rides : f[r] \in Seq(Offer) /\ DOMAIN f[r] = 1..Len(f[r]) /\ Len(f[r]) \in Nat
  OBVIOUS
<1>2. ASSUME NEW o \in MadeOf(f)
      PROVE  o = <<o[1], o[2]>> /\ o[1] \in Rides /\ o[2] \in DOMAIN f[o[1]]
  BY <1>2 DEF MadeOf
<1>3. ASSUME NEW o \in MadeOf(f)
      PROVE  o \in OfferId /\ f[o[1]][o[2]] \in Offer
  <2>1. o[2] \in 1..Len(f[o[1]]) /\ f[o[1]] \in Seq(Offer)
    BY <1>1, <1>2
  <2>2. o[2] \in Nat \ {0} /\ f[o[1]][o[2]] \in Offer
    BY <1>1, <1>2, <2>1
  <2> QED
    BY <1>2, <2>2 DEF OfferId
<1>4. \A r \in Rides : \A i \in DOMAIN f[r] : <<r, i>> \in MadeOf(f)
  BY DEF MadeOf
<1> QED
  BY <1>2, <1>3, <1>4

\* Writing an offer, or appending one, and nothing else.
Written(f, g, o, x) == g = [f EXCEPT ![o[1]][o[2]] = x]
Added(f, g, r, x) == g = [f EXCEPT ![r] = Append(@, x)]

LEMMA OfferWritten ==
  ASSUME NEW f \in [Rides -> Seq(Offer)], NEW o \in OfferId, NEW x \in Offer,
         o[2] \in DOMAIN f[o[1]], NEW g, Written(f, g, o, x)
  PROVE  /\ g \in [Rides -> Seq(Offer)]
         /\ \A r \in Rides : DOMAIN g[r] = DOMAIN f[r]
         /\ g[o[1]][o[2]] = x
         /\ \A r \in Rides : \A i \in DOMAIN f[r] : <<r, i>> # o => g[r][i] = f[r][i]
<1> DEFINE s == [f[o[1]] EXCEPT ![o[2]] = x]
<1>1. o[1] \in Rides /\ o[2] \in Nat /\ o = <<o[1], o[2]>>
  BY DEF OfferId
<1>2. f[o[1]] \in Seq(Offer)
  BY <1>1
<1>3. /\ s \in Seq(Offer) /\ DOMAIN s = DOMAIN f[o[1]] /\ s[o[2]] = x
      /\ \A i \in DOMAIN s : i # o[2] => s[i] = f[o[1]][i]
  BY <1>2
<1>4. /\ g \in [Rides -> Seq(Offer)] /\ g[o[1]] = s
      /\ \A r \in Rides : r # o[1] => g[r] = f[r]
  <2>1. g = [f EXCEPT ![o[1]] = s]
    BY DEF Written
  <2> HIDE DEF s
  <2> QED
    BY <1>1, <1>3, <2>1
<1>6. ASSUME NEW r \in Rides, NEW i \in DOMAIN f[r], <<r, i>> # o
      PROVE  g[r][i] = f[r][i]
  <2> HIDE DEF s
  <2>1. r # o[1] \/ i # o[2]
    BY <1>1, <1>6
  <2> QED
    BY <1>3, <1>4, <2>1
<1>7. \A r \in Rides : DOMAIN g[r] = DOMAIN f[r]
  <2> HIDE DEF s
  <2> QED
    BY <1>3, <1>4
<1>8. g[o[1]][o[2]] = x
  <2> HIDE DEF s
  <2> QED
    BY <1>3, <1>4
<1> HIDE DEF s
<1> QED
  BY <1>4, <1>6, <1>7, <1>8

LEMMA OfferAppended ==
  ASSUME NEW f \in [Rides -> Seq(Offer)], NEW r \in Rides, NEW x \in Offer,
         NEW g, Added(f, g, r, x)
  PROVE  /\ g \in [Rides -> Seq(Offer)]
         /\ \A q \in Rides : q # r => g[q] = f[q]
         /\ \E n \in Nat \ {0} :
              /\ n \notin DOMAIN f[r] /\ DOMAIN g[r] = DOMAIN f[r] \union {n}
              /\ g[r][n] = x /\ \A i \in DOMAIN f[r] : g[r][i] = f[r][i]
<1> DEFINE s == Append(f[r], x)
           n == Len(f[r]) + 1
<1>1. f[r] \in Seq(Offer) /\ Len(f[r]) \in Nat /\ DOMAIN f[r] = 1..Len(f[r])
  OBVIOUS
<1>2. s \in Seq(Offer) /\ Len(s) = n /\ DOMAIN s = 1..n /\ s[n] = x
  BY <1>1
<1>3. \A i \in 1..Len(f[r]) : s[i] = f[r][i]
  BY <1>1
<1>4. 1..n = 1..Len(f[r]) \union {n} /\ n \in Nat \ {0} /\ n \notin 1..Len(f[r])
  BY <1>1
<1>5. g \in [Rides -> Seq(Offer)] /\ g[r] = s /\ \A q \in Rides : q # r => g[q] = f[q]
  <2>1. g = [f EXCEPT ![r] = s]
    BY DEF Added
  <2> HIDE DEF s
  <2> QED
    BY <1>2, <2>1
<1> HIDE DEF s, n
<1> QED
  BY <1>1, <1>2, <1>3, <1>4, <1>5

\* A handler's program counter tells the shape of its record.
LEMMA SweepShape ==
  ASSUME NEW j \in {Idle} \union SweepJob
  PROVE  /\ j.pc \notin Dispatching \union TripCalls \union {"accept", "decline"}
         /\ j.pc = "check" =>
              j \in [pc : {"check"}, todo : SUBSET OfferId, expire : SUBSET OfferId]
         /\ j.pc = "renew" =>
              j \in [pc : {"renew"}, offer : OfferId, todo : SUBSET OfferId,
                     expire : SUBSET OfferId]
         /\ j.pc = "expire" => j \in [pc : {"expire"}, expire : SUBSET OfferId]
         /\ j.pc = "retry" => j \in [pc : {"retry"}, stalled : SUBSET Rides]
BY DEF SweepJob, Idle, Dispatching, TripCalls, DriverCalls

LEMMA JobShape ==
  ASSUME NEW j \in Job
  PROVE  /\ j.pc = "check" =>
              j \in [pc : {"check"}, todo : SUBSET OfferId, expire : SUBSET OfferId]
         /\ j.pc = "renew" =>
              j \in [pc : {"renew"}, offer : OfferId, todo : SUBSET OfferId,
                     expire : SUBSET OfferId]
         /\ j.pc = "expire" => j \in [pc : {"expire"}, expire : SUBSET OfferId]
         /\ j.pc = "retry" => j \in [pc : {"retry"}, stalled : SUBSET Rides]
         /\ j.pc \in Dispatching => j \in DispatchJob
         /\ j.pc \in {"accept", "decline"} =>
              j \in [pc : {"accept", "decline"}, offer : OfferId]
         /\ j.pc \in TripCalls =>
              j \in [pc : TripCalls, ride : Rides, driver : Drivers \union {NoDriver}]
BY DEF Job, SweepJob, DispatchJob, Idle, Dispatching, TripCalls, DriverCalls

LEMMA DispatchIsJob ==
  ASSUME NEW r \in Rides, NEW s \in {Idle} \union SweepJob
  PROVE  Dispatch(r, s) \in DispatchJob /\ Dispatch(r, s) \in Job
BY DEF Dispatch, DispatchJob, Job, Looking

\* What any step has to respect for the first layer of the invariant.
LEMMA AnyKeeps ==
  ASSUME AnyIInv,
         offers' \in [Rides -> Seq(Offer)], ride' \in [Rides -> RideRow],
         count' \in [Drivers -> Int], reachable' \in SUBSET Drivers,
         crashes' \in 0..MaxCrashes, job' \in [Workers -> Job],
         \A r \in Rides : DOMAIN offers[r] \subseteq DOMAIN offers'[r],
         \A r \in Rides : ride[r].driver # NoDriver => ride'[r].driver # NoDriver,
         \A r \in Rides : ride'[r].status \in Active => ride'[r].driver # NoDriver,
         \A w \in Workers : job'[w] = job[w] \/ Sound(job'[w])
  PROVE  AnyIInv'
<1>1. TypeOK'
  BY DEF TypeOK, RideRow
<1>2. ASSUME NEW o \in Made PROVE o \in Made'
  <2>1. o = <<o[1], o[2]>> /\ o[1] \in Rides /\ o[2] \in DOMAIN offers[o[1]]
    BY <1>2, MadeIsMadeOf, MadeOfIs DEF AnyIInv, TypeOK
  <2>2. <<o[1], o[2]>> \in MadeOf(offers')
    BY <2>1, MadeOfIs
  <2> QED
    BY <2>1, <2>2, MadeIsMadeOf
<1>3. \A w \in Workers : job'[w].pc \in DriverCalls => job'[w].ride \in Rides
  BY JobShape DEF TripCalls
<1>4. \A w \in Workers : Sound(job[w])'
  BY <1>2, <1>3 DEF AnyIInv, Sound
<1> QED
  BY <1>1, <1>4 DEF AnyIInv

LEMMA InitAny == Init => AnyIInv
<1> SUFFICES ASSUME Init PROVE AnyIInv
  OBVIOUS
<1>1. offers \in [Rides -> Seq(Offer)]
  BY DEF Init
<1>2. TypeOK
  BY <1>1, ConfigOK DEF Init, TypeOK, Job, Active
<1>3. \A w \in Workers : Sound(job[w])
  BY DEF Init, Sound, Idle, DriverCalls
<1> QED
  BY <1>2, <1>3 DEF AnyIInv

\* Steps that leave rides and offers alone, by the record they leave.
LEMMA QuietAny ==
  ASSUME AnyIInv, NEW w \in Workers, NEW j \in Job, Become(w, j),
         UNCHANGED <<ride, offers, count, reachable>>, crashes' \in 0..MaxCrashes,
         Sound(j)
  PROVE  AnyIInv'
<1>1. job' \in [Workers -> Job] /\ \A v \in Workers : job'[v] = IF v = w THEN j ELSE job[v]
  BY DEF AnyIInv, TypeOK, Become
<1>2. \A r \in Rides : ride[r].status \in Active => ride[r].driver # NoDriver
  BY DEF AnyIInv, TypeOK
<1> QED
  BY <1>1, <1>2, AnyKeeps DEF AnyIInv, TypeOK, RideRow

\* ... and steps that write an offer and go on to something that needs no memory.
LEMMA OfferAny ==
  ASSUME AnyIInv, NEW w \in Workers, NEW j \in Job, Become(w, j),
         UNCHANGED <<ride, count, reachable, crashes>>,
         offers' \in [Rides -> Seq(Offer)],
         \A r \in Rides : DOMAIN offers[r] \subseteq DOMAIN offers'[r],
         Sound(j)
  PROVE  AnyIInv'
<1>1. job' \in [Workers -> Job] /\ \A v \in Workers : job'[v] = IF v = w THEN j ELSE job[v]
  BY DEF AnyIInv, TypeOK, Become
<1>2. \A r \in Rides : ride[r].status \in Active => ride[r].driver # NoDriver
  BY DEF AnyIInv, TypeOK
<1> QED
  BY <1>1, <1>2, AnyKeeps DEF AnyIInv, TypeOK, RideRow

\* ... and steps that write a ride and are done, or go on with a dispatch.
LEMMA RideAny ==
  ASSUME AnyIInv, NEW w \in Workers, NEW j \in Job, Become(w, j),
         UNCHANGED <<reachable, crashes>>, count' \in [Drivers -> Int],
         offers' \in [Rides -> Seq(Offer)],
         \A r \in Rides : DOMAIN offers[r] \subseteq DOMAIN offers'[r],
         NEW q \in Rides, NEW x \in RideRow, ride' = [ride EXCEPT ![q] = x],
         ride[q].driver # NoDriver => x.driver # NoDriver,
         x.status \in Active => x.driver # NoDriver,
         Sound(j)
  PROVE  AnyIInv'
<1>1. job' \in [Workers -> Job] /\ \A v \in Workers : job'[v] = IF v = w THEN j ELSE job[v]
  BY DEF AnyIInv, TypeOK, Become
<1>2. /\ ride' \in [Rides -> RideRow]
      /\ \A r \in Rides : ride'[r] = IF r = q THEN x ELSE ride[r]
      /\ \A r \in Rides : ride[r].status \in Active => ride[r].driver # NoDriver
  BY DEF AnyIInv, TypeOK, RideRow
<1> QED
  BY <1>1, <1>2, AnyKeeps DEF AnyIInv, TypeOK

\* Types and shapes that every step of the proof starts from.
LEMMA AnyFacts ==
  ASSUME AnyIInv
  PROVE  /\ ride \in [Rides -> RideRow] /\ offers \in [Rides -> Seq(Offer)]
         /\ count \in [Drivers -> Int] /\ reachable \in SUBSET Drivers
         /\ job \in [Workers -> Job] /\ crashes \in 0..MaxCrashes
         /\ \A r \in Rides : ride[r].status \in Active => ride[r].driver # NoDriver
         /\ \A o \in Made : /\ o \in OfferId /\ o = <<o[1], o[2]>>
                            /\ o[1] \in Rides /\ o[2] \in DOMAIN offers[o[1]]
                            /\ At(o) \in Offer /\ At(o).driver \in Drivers
BY MadeIsMadeOf, MadeOfIs DEF AnyIInv, TypeOK, RideRow, At, Offer

\* Writing the status, or the freshness, of an offer.
LEMMA SetOfferTypes ==
  ASSUME AnyIInv, NEW o \in OfferId, NEW s \in {"PENDING", "ACCEPTED", "DECLINED", "EXPIRED"},
         SetOffer(o, s)
  PROVE  /\ offers' \in [Rides -> Seq(Offer)]
         /\ \A r \in Rides : DOMAIN offers'[r] = DOMAIN offers[r]
<1>1. o[1] \in Rides /\ offers \in [Rides -> Seq(Offer)]
  BY AnyFacts DEF OfferId
<1>2. CASE o[2] \in DOMAIN offers[o[1]]
  <2> DEFINE x == [offers[o[1]][o[2]] EXCEPT !.status = s]
  <2>1. offers[o[1]][o[2]] \in Offer
    BY <1>1, <1>2
  <2>2. x \in Offer
    BY <2>1 DEF Offer
  <2>3. Written(offers, offers', o, x)
    BY DEF SetOffer, Written
  <2> HIDE DEF x
  <2> QED
    BY <1>1, <1>2, <2>2, <2>3, OfferWritten
<1>3. CASE o[2] \notin DOMAIN offers[o[1]]
  <2>1. [offers[o[1]] EXCEPT ![o[2]].status = s] = offers[o[1]]
    BY <1>1, <1>3
  <2>2. offers' = offers
    BY <1>1, <2>1 DEF SetOffer
  <2> QED
    BY <1>1, <2>2
<1> QED
  BY <1>2, <1>3

LEMMA ThenIsJob ==
  ASSUME NEW j \in DispatchJob
  PROVE  /\ j.then \in {Idle} \union SweepJob /\ j.then \in Job
         /\ Sound(j.then)
         /\ j.ride \in Rides /\ j.driver \in Drivers \union {NoDriver}
         /\ j.pc \in Dispatching /\ j \in Job
         /\ \A pc \in Dispatching : [j EXCEPT !.pc = pc] \in DispatchJob
<1>1. j.then \in {Idle} \union SweepJob /\ j.ride \in Rides
      /\ j.driver \in Drivers \union {NoDriver}
  BY DEF DispatchJob
<1>2. j.then \in Job /\ j.pc \in Dispatching /\ j \in Job
  BY <1>1 DEF Job, DispatchJob, Dispatching
<1>3. Sound(j.then)
  BY <1>1, SweepShape DEF Sound, TripCalls, Dispatching
<1>4. \A pc \in Dispatching : [j EXCEPT !.pc = pc] \in DispatchJob
  BY DEF DispatchJob, Dispatching
<1> QED
  BY <1>1, <1>2, <1>3, <1>4

LEMMA LookAny ==
  ASSUME AnyIInv, NEW w \in Workers, Look(w) \/ Choose(w)
  PROVE  AnyIInv'
<1> DEFINE j == job[w]
<1>1. j \in DispatchJob /\ UNCHANGED <<ride, offers, count, reachable, crashes>>
      /\ crashes' \in 0..MaxCrashes
  BY AnyFacts, JobShape DEF Look, Choose, Dispatching
<1>2. "giveUp" \in Dispatching /\ "search" \in Dispatching
  BY DEF Dispatching
<1>3. ASSUME NEW k \in DispatchJob, Become(w, k), k.pc = "offer" => k.driver \in Drivers
      PROVE  AnyIInv'
  <2>1. k \in Job /\ Sound(k)
    BY <1>3, ThenIsJob DEF Dispatching, DriverCalls, Sound
  <2> QED
    BY <1>1, <1>3, <2>1, QuietAny
<1>4. ASSUME Become(w, j.then) PROVE AnyIInv'
  BY <1>1, <1>4, ThenIsJob, QuietAny
<1>5. ASSUME Look(w) PROVE AnyIInv'
  <2>1. ASSUME ride[j.ride].status \in Looking
        PROVE  /\ [j EXCEPT !.pc = "choose", !.saw = ride[j.ride].status] \in DispatchJob
               /\ [j EXCEPT !.pc = "choose", !.saw = ride[j.ride].status].pc = "choose"
    BY <1>1, <2>1 DEF DispatchJob
  <2> QED
    BY <1>3, <1>4, <1>5, <2>1 DEF Look
<1>6. ASSUME Choose(w) PROVE AnyIInv'
  <2>1. \A pc \in {"giveUp", "search"} :
          [j EXCEPT !.pc = pc] \in DispatchJob /\ [j EXCEPT !.pc = pc].pc = pc
    BY <1>1, <1>2, ThenIsJob DEF DispatchJob
  <2>2. ASSUME NEW d \in Candidates(j.ride)
        PROVE  /\ [j EXCEPT !.pc = "offer", !.driver = d] \in DispatchJob
               /\ [j EXCEPT !.pc = "offer", !.driver = d].driver \in Drivers
    <3>1. d \in Drivers
      BY AnyFacts DEF Candidates, Eligible
    <3> QED
      BY <1>1, <3>1 DEF DispatchJob
  <2>3. \/ Become(w, [j EXCEPT !.pc = "giveUp"])
        \/ \E d \in Candidates(j.ride) : Become(w, [j EXCEPT !.pc = "offer", !.driver = d])
        \/ Become(w, [j EXCEPT !.pc = "search"])
        \/ Become(w, j.then)
    <3>1. CASE Exhausted(j.ride)
      BY <1>6, <3>1 DEF Choose
    <3>2. CASE ~Exhausted(j.ride) /\ ride[j.ride].overdue
      BY <1>6, <3>2 DEF Choose
    <3>3. CASE ~Exhausted(j.ride) /\ ~ride[j.ride].overdue /\ j.saw = "REQUESTED"
      BY <1>6, <3>3 DEF Choose
    <3>4. CASE ~Exhausted(j.ride) /\ ~ride[j.ride].overdue /\ j.saw # "REQUESTED"
      BY <1>6, <3>4 DEF Choose
    <3> QED
      BY <3>1, <3>2, <3>3, <3>4
  <2> QED
    BY <1>3, <1>4, <2>1, <2>2, <2>3
<1> QED
  BY <1>5, <1>6

LEMMA EndDispatchAny ==
  ASSUME AnyIInv, NEW w \in Workers, CreateOffer(w) \/ EndDispatch(w)
  PROVE  AnyIInv'
<1> DEFINE j == job[w]
<1>1. j \in DispatchJob
  BY AnyFacts, JobShape DEF CreateOffer, EndDispatch, Dispatching
<1>2. ASSUME CreateOffer(w) PROVE AnyIInv'
  <2> DEFINE x == [driver |-> j.driver, lapsed |-> FALSE, status |-> "PENDING"]
  <2>1. x \in Offer
    BY <1>2 DEF Offer, AnyIInv, Sound, CreateOffer
  <2>2. Added(offers, offers', j.ride, x)
    BY <1>2 DEF CreateOffer, Added
  <2>3. /\ offers' \in [Rides -> Seq(Offer)]
        /\ \A r \in Rides : DOMAIN offers[r] \subseteq DOMAIN offers'[r]
    <3> HIDE DEF x
    <3>0. j.ride \in Rides /\ offers \in [Rides -> Seq(Offer)]
      BY <1>1, AnyFacts, ThenIsJob
    <3>1. /\ offers' \in [Rides -> Seq(Offer)]
          /\ \A q \in Rides : q # j.ride => offers'[q] = offers[q]
          /\ \E n \in Nat \ {0} : DOMAIN offers'[j.ride] = DOMAIN offers[j.ride] \union {n}
      BY <2>1, <2>2, <3>0, OfferAppended
    <3> QED
      BY <3>1
  <2>4. [j EXCEPT !.pc = "search"] \in Job /\ [j EXCEPT !.pc = "search"].pc = "search"
    BY <1>1, ThenIsJob DEF Dispatching, Job, DispatchJob
  <2>5. Sound([j EXCEPT !.pc = "search"])
    BY <2>4 DEF Sound, DriverCalls
  <2> QED
    BY <1>2, <2>3, <2>4, <2>5, OfferAny DEF CreateOffer
<1>3. ASSUME EndDispatch(w) PROVE AnyIInv'
  <2> DEFINE s == IF j.pc = "search" THEN "SEARCHING" ELSE "NO_DRIVERS_FOUND"
             x == [ride[j.ride] EXCEPT !.status = s]
  <2>1. j.ride \in Rides /\ ride[j.ride] \in RideRow
    BY <1>1, ThenIsJob, AnyFacts
  <2>2. x \in RideRow /\ x.driver = ride[j.ride].driver /\ x.status \notin Active
    BY <2>1 DEF RideRow, Looking, Active, Terminal
  <2>3. ride' = [ride EXCEPT ![j.ride] = x]
    BY <1>3 DEF EndDispatch, SetStatus
  <2>4. offers' \in [Rides -> Seq(Offer)] /\ count' \in [Drivers -> Int]
        /\ \A r \in Rides : DOMAIN offers[r] \subseteq DOMAIN offers'[r]
    BY <1>3, AnyFacts DEF EndDispatch
  <2> HIDE DEF x
  <2> QED
    BY <1>1, <1>3, <2>1, <2>2, <2>3, <2>4, ThenIsJob, RideAny DEF EndDispatch
<1> QED
  BY <1>2, <1>3

LEMMA BookAny ==
  ASSUME AnyIInv, NEW w \in Workers, NEW r \in Rides, RequestRide(w, r)
  PROVE  AnyIInv'
<1> DEFINE x == [ride[r] EXCEPT !.status = "REQUESTED"]
<1>1. x \in RideRow /\ x.driver = ride[r].driver /\ x.status \notin Active
  BY AnyFacts DEF RideRow, Looking, Active
<1>2. ride' = [ride EXCEPT ![r] = x]
  BY DEF RequestRide, SetStatus
<1>3. Dispatch(r, Idle) \in Job /\ Sound(Dispatch(r, Idle))
  BY DispatchIsJob DEF Sound, Dispatch, DriverCalls
<1>4. offers' \in [Rides -> Seq(Offer)] /\ count' \in [Drivers -> Int]
      /\ \A q \in Rides : DOMAIN offers[q] \subseteq DOMAIN offers'[q]
  BY AnyFacts DEF RequestRide
<1> HIDE DEF x
<1> QED
  BY <1>1, <1>2, <1>3, <1>4, RideAny DEF RequestRide

LEMMA AnswerAny ==
  ASSUME AnyIInv, NEW w \in Workers, NEW o \in Made, NEW answer \in {"accept", "decline"},
         AnswerOffer(w, answer, o)
  PROVE  AnyIInv'
<1>1. [pc |-> answer, offer |-> o] \in Job /\ Sound([pc |-> answer, offer |-> o])
  BY AnyFacts DEF Job, Sound, DriverCalls
<1>2. crashes' \in 0..MaxCrashes
  BY AnyFacts DEF AnswerOffer
<1> QED
  BY <1>1, <1>2, QuietAny DEF AnswerOffer

LEMMA AcceptAny ==
  ASSUME AnyIInv, NEW w \in Workers, AcceptOffer(w)
  PROVE  AnyIInv'
<1> DEFINE j == job[w]
           o == j.offer
           x == Assigned(ride[o[1]], At(o).driver)
<1>1. o \in Made /\ j.pc = "accept"
  BY DEF AnyIInv, Sound, AcceptOffer
<1>2. Idle \in Job /\ Sound(Idle)
  BY DEF Job, Sound, Idle, DriverCalls
<1>3. CASE CanClaim(o)
  <2>1. /\ offers' \in [Rides -> Seq(Offer)]
        /\ \A r \in Rides : DOMAIN offers'[r] = DOMAIN offers[r]
    BY <1>1, <1>3, AnyFacts, SetOfferTypes DEF AcceptOffer
  <2>2. o[1] \in Rides /\ ride[o[1]] \in RideRow /\ At(o).driver \in Drivers
    BY <1>1, AnyFacts
  <2>3. x \in RideRow /\ x.driver # NoDriver
    BY <2>2, ConfigOK DEF Assigned, RideRow, Active
  <2>4. ride' = [ride EXCEPT ![o[1]] = x] /\ count' = [count EXCEPT ![At(o).driver] = @ + 1]
    BY <1>3 DEF AcceptOffer
  <2>5. count' \in [Drivers -> Int]
    BY <2>2, <2>4, AnyFacts
  <2> HIDE DEF x
  <2> QED
    BY <1>2, <2>1, <2>2, <2>3, <2>4, <2>5, RideAny DEF AcceptOffer
<1>4. CASE ~CanClaim(o)
  <2>1. crashes' \in 0..MaxCrashes
    BY AnyFacts DEF AcceptOffer
  <2> QED
    BY <1>2, <1>4, <2>1, QuietAny DEF AcceptOffer
<1> QED
  BY <1>3, <1>4

LEMMA DeclineAny ==
  ASSUME AnyIInv, NEW w \in Workers, DeclineOffer(w)
  PROVE  AnyIInv'
<1> DEFINE o == job[w].offer
<1>1. o \in Made
  BY DEF AnyIInv, Sound, DeclineOffer
<1>2. /\ offers' \in [Rides -> Seq(Offer)]
      /\ \A r \in Rides : DOMAIN offers'[r] = DOMAIN offers[r]
  BY <1>1, AnyFacts, SetOfferTypes DEF DeclineOffer
<1>3. Dispatch(o[1], Idle) \in Job /\ Sound(Dispatch(o[1], Idle))
  BY <1>1, AnyFacts, DispatchIsJob DEF Sound, Dispatch, DriverCalls
<1> QED
  BY <1>2, <1>3, OfferAny DEF DeclineOffer

LEMMA TripAny ==
  ASSUME AnyIInv, NEW w \in Workers,
         (\E r \in Rides, op \in TripCalls : BeginTrip(w, op, r)) \/ EndTrip(w)
  PROVE  AnyIInv'
<1>1. ASSUME NEW r \in Rides, NEW op \in TripCalls, BeginTrip(w, op, r) PROVE AnyIInv'
  <2> DEFINE k == [pc |-> op, ride |-> r, driver |-> ride[r].driver]
  <2>1. k \in Job
    BY AnyFacts DEF Job, RideRow
  <2>2. Sound(k)
    BY <1>1 DEF Sound, BeginTrip, TripCalls, DriverCalls
  <2>3. crashes' \in 0..MaxCrashes
    BY <1>1, AnyFacts DEF BeginTrip
  <2> QED
    BY <1>1, <2>1, <2>2, <2>3, QuietAny DEF BeginTrip
<1>2. ASSUME EndTrip(w) PROVE AnyIInv'
  <2> DEFINE j == job[w]
             x == [ride[j.ride] EXCEPT !.status = To(j.pc)]
  <2>1. j \in [pc : TripCalls, ride : Rides, driver : Drivers \union {NoDriver}]
    BY <1>2, AnyFacts, JobShape DEF EndTrip
  <2>2. j.ride \in Rides /\ ride[j.ride] \in RideRow
    BY <2>1, AnyFacts
  <2>3. To(j.pc) \in {"ARRIVED", "IN_PROGRESS", "COMPLETED", "CANCELLED"}
        /\ (j.pc \notin DriverCalls => To(j.pc) = "CANCELLED")
    BY DEF To, DriverCalls
  <2>4. x \in RideRow /\ x.driver = ride[j.ride].driver /\ x.status = To(j.pc)
    BY <2>2, <2>3 DEF RideRow, Active, Terminal
  <2>5. x.status \in Active => x.driver # NoDriver
    BY <2>3, <2>4 DEF AnyIInv, Sound, Active
  <2>6. count' \in [Drivers -> Int]
    <3>1. \A n \in Int : Released(j.pc, n) \in Int
      BY DEF Released
    <3> QED
      BY <1>2, <3>1, AnyFacts DEF EndTrip
  <2>7. Idle \in Job /\ Sound(Idle)
    BY DEF Job, Sound, Idle, DriverCalls
  <2>8. offers' \in [Rides -> Seq(Offer)]
        /\ \A q \in Rides : DOMAIN offers[q] \subseteq DOMAIN offers'[q]
    BY <1>2, AnyFacts DEF EndTrip
  <2>9. ride' = [ride EXCEPT ![j.ride] = x]
    BY <1>2 DEF EndTrip, SetStatus
  <2> HIDE DEF x
  <2> QED
    BY <1>2, <2>2, <2>4, <2>5, <2>6, <2>7, <2>8, <2>9, RideAny DEF EndTrip
<1> QED
  BY <1>1, <1>2

LEMMA SweepAny ==
  ASSUME AnyIInv, NEW w \in Workers,
         BeginSweep(w) \/ CheckOffer(w) \/ ReadStalled(w) \/ RetrySearch(w)
  PROVE  AnyIInv'
<1> DEFINE j == job[w]
<1>1. UNCHANGED <<ride, offers, count, reachable>> /\ crashes' \in 0..MaxCrashes
  BY AnyFacts DEF BeginSweep, CheckOffer, ReadStalled, RetrySearch
<1>2. ASSUME NEW k \in SweepJob \union {Idle}, Become(w, k) PROVE AnyIInv'
  <2>1. k \in Job /\ Sound(k)
    BY SweepShape DEF Job, Sound, TripCalls, Dispatching
  <2> QED
    BY <1>1, <1>2, <2>1, QuietAny
<1>3. ASSUME BeginSweep(w) PROVE AnyIInv'
  <2>1. {o \in Made : Pending(o) /\ At(o).lapsed} \in SUBSET OfferId
    BY AnyFacts
  <2>2. [pc |-> "check", expire |-> {}, todo |-> {o \in Made : Pending(o) /\ At(o).lapsed}]
          \in SweepJob
    BY <2>1 DEF SweepJob
  <2> QED
    BY <1>2, <1>3, <2>2 DEF BeginSweep
<1>4. ASSUME CheckOffer(w) PROVE AnyIInv'
  <2>1. j \in [pc : {"check"}, todo : SUBSET OfferId, expire : SUBSET OfferId]
    BY <1>4, AnyFacts, JobShape DEF CheckOffer
  <2>2. [pc |-> "expire", expire |-> j.expire] \in SweepJob
    BY <2>1 DEF SweepJob
  <2>3. \A o \in j.todo :
          /\ [pc |-> "renew", offer |-> o, todo |-> j.todo \ {o}, expire |-> j.expire]
               \in SweepJob
          /\ [j EXCEPT !.todo = @ \ {o}, !.expire = @ \union {o}] \in SweepJob
    BY <2>1 DEF SweepJob
  <2> QED
    BY <1>2, <1>4, <2>2, <2>3 DEF CheckOffer
<1>5. ASSUME ReadStalled(w) PROVE AnyIInv'
  <2>1. \A S \in SUBSET Rides : [pc |-> "retry", stalled |-> S] \in SweepJob
    BY DEF SweepJob
  <2> QED
    BY <1>2, <1>5, <2>1 DEF ReadStalled
<1>6. ASSUME RetrySearch(w) PROVE AnyIInv'
  <2>1. j \in [pc : {"retry"}, stalled : SUBSET Rides]
    BY <1>6, AnyFacts, JobShape DEF RetrySearch
  <2>2. ASSUME NEW r \in j.stalled, Become(w, Dispatch(r, [j EXCEPT !.stalled = @ \ {r}]))
        PROVE  AnyIInv'
    <3>1. r \in Rides /\ [j EXCEPT !.stalled = @ \ {r}] \in SweepJob
      BY <2>1 DEF SweepJob
    <3>2. Dispatch(r, [j EXCEPT !.stalled = @ \ {r}]) \in Job
      BY <3>1, DispatchIsJob
    <3>3. Sound(Dispatch(r, [j EXCEPT !.stalled = @ \ {r}]))
      BY DEF Dispatch, Sound, DriverCalls
    <3> QED
      BY <1>1, <2>2, <3>2, <3>3, QuietAny
  <2> QED
    BY <1>2, <1>6, <2>2 DEF RetrySearch
<1> QED
  BY <1>3, <1>4, <1>5, <1>6

\* Renewing an offer, or letting one lapse, rewrites nothing else of it.
SetLapsed(o, b) == offers' = [offers EXCEPT ![o[1]][o[2]].lapsed = b]

LEMMA LapseWritten ==
  ASSUME AnyIInv, NEW o \in OfferId, NEW b \in BOOLEAN, SetLapsed(o, b)
  PROVE  /\ offers' \in [Rides -> Seq(Offer)]
         /\ \A r \in Rides : /\ DOMAIN offers'[r] = DOMAIN offers[r]
                             /\ \A i \in DOMAIN offers[r] :
                                  /\ offers'[r][i].status = offers[r][i].status
                                  /\ offers'[r][i].driver = offers[r][i].driver
<1>1. o[1] \in Rides /\ offers \in [Rides -> Seq(Offer)] /\ o = <<o[1], o[2]>>
  BY AnyFacts DEF OfferId
<1>2. CASE o[2] \in DOMAIN offers[o[1]]
  <2> DEFINE x == [offers[o[1]][o[2]] EXCEPT !.lapsed = b]
  <2>1. offers[o[1]][o[2]] \in Offer
    BY <1>1, <1>2
  <2>2. /\ x \in Offer /\ x.status = offers[o[1]][o[2]].status
        /\ x.driver = offers[o[1]][o[2]].driver
    BY <2>1 DEF Offer
  <2>3. Written(offers, offers', o, x)
    BY DEF SetLapsed, Written
  <2> HIDE DEF x
  <2>4. /\ offers' \in [Rides -> Seq(Offer)]
        /\ \A r \in Rides : DOMAIN offers'[r] = DOMAIN offers[r]
        /\ offers'[o[1]][o[2]] = x
        /\ \A r \in Rides : \A i \in DOMAIN offers[r] :
             <<r, i>> # o => offers'[r][i] = offers[r][i]
    BY <1>1, <1>2, <2>2, <2>3, OfferWritten
  <2>5. ASSUME NEW r \in Rides, NEW i \in DOMAIN offers[r]
        PROVE  /\ offers'[r][i].status = offers[r][i].status
               /\ offers'[r][i].driver = offers[r][i].driver
    <3>1. CASE <<r, i>> = o
      <4>1. r = o[1] /\ i = o[2]
        BY <3>1
      <4> QED
        BY <2>2, <2>4, <4>1
    <3>2. CASE <<r, i>> # o
      BY <2>4, <3>2
    <3> QED
      BY <3>1, <3>2
  <2> QED
    BY <2>4, <2>5
<1>3. CASE o[2] \notin DOMAIN offers[o[1]]
  <2>1. [offers[o[1]] EXCEPT ![o[2]].lapsed = b] = offers[o[1]]
    BY <1>1, <1>3
  <2>2. offers' = offers
    BY <1>1, <2>1 DEF SetLapsed
  <2> QED
    BY <1>1, <2>2
<1> QED
  BY <1>2, <1>3

LEMMA RenewAny ==
  ASSUME AnyIInv, NEW w \in Workers, RenewOffer(w) \/ ExpireOffer(w)
  PROVE  AnyIInv'
<1> DEFINE j == job[w]
<1>1. ASSUME RenewOffer(w) PROVE AnyIInv'
  <2>1. j \in [pc : {"renew"}, offer : OfferId, todo : SUBSET OfferId,
               expire : SUBSET OfferId]
    BY <1>1, AnyFacts, JobShape DEF RenewOffer
  <2> DEFINE k == [pc |-> "check", todo |-> j.todo, expire |-> j.expire]
  <2>2. k \in SweepJob
    BY <2>1 DEF SweepJob
  <2>3. k \in Job /\ Sound(k)
    BY <2>2, SweepShape DEF Job, Sound, TripCalls, Dispatching
  <2>4. /\ offers' \in [Rides -> Seq(Offer)]
        /\ \A r \in Rides : DOMAIN offers[r] \subseteq DOMAIN offers'[r]
    BY <1>1, <2>1, LapseWritten DEF RenewOffer, SetLapsed
  <2> QED
    BY <1>1, <2>3, <2>4, OfferAny DEF RenewOffer
<1>2. ASSUME ExpireOffer(w) PROVE AnyIInv'
  <2>1. j \in [pc : {"expire"}, expire : SUBSET OfferId]
    BY <1>2, AnyFacts, JobShape DEF ExpireOffer
  <2>2. PICK o \in j.expire :
          /\ SetOffer(o, "EXPIRED")
          /\ Become(w, Dispatch(o[1], [j EXCEPT !.expire = @ \ {o}]))
    BY <1>2 DEF ExpireOffer
  <2>3. o \in OfferId /\ o[1] \in Rides /\ [j EXCEPT !.expire = @ \ {o}] \in SweepJob
    BY <2>1 DEF SweepJob, OfferId
  <2>4. /\ offers' \in [Rides -> Seq(Offer)]
        /\ \A r \in Rides : DOMAIN offers[r] \subseteq DOMAIN offers'[r]
    BY <2>2, <2>3, SetOfferTypes
  <2>5. Dispatch(o[1], [j EXCEPT !.expire = @ \ {o}]) \in Job
    BY <2>3, DispatchIsJob
  <2>6. Sound(Dispatch(o[1], [j EXCEPT !.expire = @ \ {o}]))
    BY DEF Dispatch, Sound, DriverCalls
  <2> QED
    BY <1>2, <2>2, <2>4, <2>5, <2>6, OfferAny DEF ExpireOffer
<1> QED
  BY <1>1, <1>2

LEMMA WorldAny ==
  ASSUME AnyIInv,
         \/ \E d \in Drivers : DriverChanges(d)
         \/ \E o \in Made : OfferLapses(o)
         \/ \E r \in Rides : WindowCloses(r)
  PROVE  AnyIInv'
<1>1. ASSUME NEW d \in Drivers, DriverChanges(d) PROVE AnyIInv'
  <2>1. reachable' \in SUBSET Drivers /\ UNCHANGED <<ride, offers, count, job, crashes>>
    BY <1>1, AnyFacts DEF DriverChanges
  <2> QED
    BY <2>1, AnyFacts, AnyKeeps
<1>2. ASSUME NEW o \in Made, OfferLapses(o) PROVE AnyIInv'
  <2>1. /\ offers' \in [Rides -> Seq(Offer)]
        /\ \A r \in Rides : DOMAIN offers[r] \subseteq DOMAIN offers'[r]
    BY <1>2, AnyFacts, LapseWritten DEF OfferLapses, SetLapsed
  <2> QED
    BY <1>2, <2>1, AnyFacts, AnyKeeps DEF OfferLapses
<1>3. ASSUME NEW r \in Rides, WindowCloses(r) PROVE AnyIInv'
  <2> DEFINE x == [ride[r] EXCEPT !.overdue = TRUE]
  <2>1. /\ x \in RideRow /\ x.driver = ride[r].driver /\ x.status = ride[r].status
        /\ ride' = [ride EXCEPT ![r] = x]
    <3>1. ride[r] \in RideRow
      BY AnyFacts
    <3>2. x \in RideRow /\ x.driver = ride[r].driver /\ x.status = ride[r].status
      BY <3>1 DEF RideRow
    <3> QED
      BY <1>3, <3>2 DEF WindowCloses
  <2> HIDE DEF x
  <2>2. /\ ride' \in [Rides -> RideRow]
        /\ \A q \in Rides : ride'[q].driver = ride[q].driver /\ ride'[q].status = ride[q].status
    BY <2>1, AnyFacts
  <2> QED
    BY <1>3, <2>2, AnyFacts, AnyKeeps DEF WindowCloses
<1> QED
  BY <1>1, <1>2, <1>3

LEMMA CrashAny ==
  ASSUME AnyIInv, NEW w \in Workers, Crash(w)
  PROVE  AnyIInv'
<1>1. Idle \in Job /\ Sound(Idle)
  BY DEF Job, Sound, Idle, DriverCalls
<1>2. crashes' \in 0..MaxCrashes
  BY AnyFacts, ConfigOK DEF Crash
<1> QED
  BY <1>1, <1>2, QuietAny DEF Crash

LEMMA StepAny == AnyIInv /\ [Next]_vars => AnyIInv'
<1>1. ASSUME AnyIInv, Next PROVE AnyIInv'
  BY <1>1, LookAny, EndDispatchAny, BookAny, AnswerAny, AcceptAny, DeclineAny, TripAny,
     SweepAny, RenewAny, WorldAny, CrashAny DEF Next, Step
<1>2. ASSUME AnyIInv, UNCHANGED vars PROVE AnyIInv'
  BY <1>2, AnyFacts, AnyKeeps DEF vars
<1> QED
  BY <1>1, <1>2

\* With handlers that overlap at every statement: rows and handlers keep their types, a
\* ride that is under way names its driver, whoever wrote its status, a driver's call
\* keeps the driver it checked, and the offer that an answer is about was made.
THEOREM RideTypes == Spec => [](TypeOK /\ \A w \in Workers : Sound(job[w]))
<1>1. AnyIInv => TypeOK /\ \A w \in Workers : Sound(job[w])
  BY DEF AnyIInv
<1> QED
  BY InitAny, StepAny, <1>1, PTL DEF Spec

-------------------------------------------------------------------------------
\* Only an acceptance raises a count.
LEMMA OnlyAcceptanceRaises ==
  ASSUME AnyIInv, Next, NEW d \in Drivers, count'[d] > count[d]
  PROVE  \E w \in Workers : AcceptOffer(w) /\ CanClaim(job[w].offer)
                              /\ d = At(job[w].offer).driver
<1>1. count[d] \in Int /\ job \in [Workers -> Job] /\ count \in [Drivers -> Int]
  BY AnyFacts
<1>2. count' # count
  BY <1>1
<1>3. ASSUME NEW w \in Workers, EndTrip(w) PROVE FALSE
  <2>1. \A n \in Int : Released(job[w].pc, n) \in Int /\ Released(job[w].pc, n) <= n
    BY DEF Released
  <2>2. count'[d] <= count[d]
    BY <1>1, <1>3, <2>1 DEF EndTrip
  <2> QED
    BY <1>1, <1>3, <2>1, <2>2 DEF EndTrip
<1>4. PICK w \in Workers : AcceptOffer(w)
  BY <1>2, <1>3 DEF Next, Step, Look, Choose, CreateOffer, EndDispatch, DeclineOffer,
     CheckOffer, RenewOffer, ExpireOffer, ReadStalled, RetrySearch, BeginSweep, Crash,
     RequestRide, BeginTrip, AnswerOffer, DriverChanges, OfferLapses, WindowCloses
<1>5. CanClaim(job[w].offer)
  BY <1>2, <1>4 DEF AcceptOffer
<1>6. At(job[w].offer).driver = d
  BY <1>1, <1>4, <1>5 DEF AcceptOffer
<1> QED
  BY <1>4, <1>5, <1>6

\* "The increment must never outlive a failed claim", with any number of drivers who
\* tap accept at once and any handler that dies: a driver's count rises only in the
\* step that gives the driver a ride that still looked for one.
THEOREM LosersTakeNothing == Spec => LoserTakesNothing
<1> DEFINE Claimed(d) ==
      \E o \in Made :
        /\ At(o).driver = d /\ Pending(o) /\ At(o)'.status = "ACCEPTED"
        /\ ride[o[1]].status \in Looking
        /\ ride'[o[1]] = [ride[o[1]] EXCEPT !.status = "DRIVER_ASSIGNED", !.driver = d]
<1>1. ASSUME AnyIInv, Next, NEW d \in Drivers, count'[d] > count[d]
      PROVE  Claimed(d)
  <2>1. PICK w \in Workers : AcceptOffer(w) /\ CanClaim(job[w].offer)
                               /\ d = At(job[w].offer).driver
    BY <1>1, OnlyAcceptanceRaises
  <2>2. PICK o \in Made : o = job[w].offer
    BY <1>1, <2>1 DEF AnyIInv, Sound, AcceptOffer
  <2> DEFINE x == [offers[o[1]][o[2]] EXCEPT !.status = "ACCEPTED"]
  <2>3. /\ o \in OfferId /\ o[1] \in Rides /\ o[2] \in DOMAIN offers[o[1]]
        /\ ride \in [Rides -> RideRow] /\ offers \in [Rides -> Seq(Offer)]
        /\ offers[o[1]][o[2]] \in Offer
    BY <1>1, <2>2, AnyFacts DEF At
  <2>4. x \in Offer /\ x.status = "ACCEPTED" /\ Written(offers, offers', o, x)
    BY <2>1, <2>2, <2>3 DEF AcceptOffer, SetOffer, Offer, Written
  <2>5. At(o)' = x
    <3> HIDE DEF x
    <3> QED
      BY <2>3, <2>4, OfferWritten DEF At
  <2>6. ride'[o[1]] = [ride[o[1]] EXCEPT !.status = "DRIVER_ASSIGNED", !.driver = d]
    BY <2>1, <2>2, <2>3 DEF AcceptOffer, Assigned
  <2> QED
    BY <2>1, <2>2, <2>4, <2>5, <2>6 DEF CanClaim, Pending
<1>2. AnyIInv /\ [Next]_vars
        => [\A d \in Drivers : count'[d] > count[d] => Claimed(d)]_vars
  BY <1>1
<1> QED
  BY InitAny, StepAny, <1>2, PTL DEF Spec, LoserTakesNothing

-------------------------------------------------------------------------------
\* What a serial step may do to the offers: nothing that matters here, end one, or
\* make one.
OffersSame == Made' = Made /\ \A o \in Made :
  At(o)'.status = At(o).status /\ At(o)'.driver = At(o).driver
OfferEnds(o) ==
  /\ o \in Made /\ Made' = Made /\ Pending(o) /\ ~Pending(o)' /\ ~Won(o)'
  /\ At(o)'.driver = At(o).driver
  /\ \A p \in Made : p # o => At(p)'.status = At(p).status /\ At(p)'.driver = At(p).driver
OfferMade(r, d) == \E p :
  /\ p \notin Made /\ Made' = Made \union {p}
  /\ p[1] = r /\ At(p)'.driver = d /\ Pending(p)'
  /\ \A o \in Made : At(o)'.status = At(o).status /\ At(o)'.driver = At(o).driver
RidesSame == \A r \in Rides : ride'[r].status = ride[r].status /\ ride'[r].driver = ride[r].driver

LEMMA NextFacts ==
  ASSUME AnyIInv'
  PROVE  /\ offers' \in [Rides -> Seq(Offer)] /\ ride' \in [Rides -> RideRow]
         /\ job' \in [Workers -> Job] /\ count' \in [Drivers -> Int]
         /\ \A o \in Made' : o = <<o[1], o[2]>> /\ o[1] \in Rides /\ o[2] \in DOMAIN offers'[o[1]]
         /\ \A r \in Rides : \A i \in DOMAIN offers'[r] : <<r, i>> \in Made'
BY MadeIsMadeOf, MadeOfIs DEF AnyIInv, TypeOK, RideRow

LEMMA SameMade ==
  ASSUME AnyIInv, AnyIInv', \A r \in Rides : DOMAIN offers'[r] = DOMAIN offers[r]
  PROVE  Made' = Made
<1>1. offers \in [Rides -> Seq(Offer)]
  BY AnyFacts
<1>2. ASSUME NEW o PROVE o \in Made' <=> o \in Made
  <2>1. ASSUME o \in Made PROVE o \in Made'
    <3>1. o = <<o[1], o[2]>> /\ o[1] \in Rides /\ o[2] \in DOMAIN offers'[o[1]]
      BY <2>1, AnyFacts
    <3> QED
      BY <3>1, NextFacts
  <2>2. ASSUME o \in Made' PROVE o \in Made
    <3>1. o = <<o[1], o[2]>> /\ o[1] \in Rides /\ o[2] \in DOMAIN offers[o[1]]
      BY <2>2, NextFacts
    <3> QED
      BY <1>1, <3>1, MadeOfIs, MadeIsMadeOf
  <2> QED
    BY <2>1, <2>2
<1> QED
  BY <1>2

LEMMA UntouchedOffers ==
  ASSUME AnyIInv, AnyIInv', offers' = offers
  PROVE  OffersSame
<1>1. Made' = Made
  BY SameMade
<1> QED
  BY <1>1 DEF OffersSame, At

LEMMA LapsedOffers ==
  ASSUME AnyIInv, AnyIInv', NEW o \in OfferId, NEW b \in BOOLEAN, SetLapsed(o, b)
  PROVE  OffersSame
<1>1. Made' = Made
  BY SameMade, LapseWritten
<1>2. \A p \in Made : p[1] \in Rides /\ p[2] \in DOMAIN offers[p[1]]
  BY AnyFacts
<1> QED
  BY <1>1, <1>2, LapseWritten DEF OffersSame, At

LEMMA SetOfferSets ==
  ASSUME AnyIInv, AnyIInv', NEW o \in Made,
         NEW s \in {"PENDING", "ACCEPTED", "DECLINED", "EXPIRED"}, SetOffer(o, s)
  PROVE  /\ Made' = Made /\ At(o)'.status = s /\ At(o)'.driver = At(o).driver
         /\ \A p \in Made : p # o => At(p)'.status = At(p).status /\ At(p)'.driver = At(p).driver
<1> DEFINE x == [offers[o[1]][o[2]] EXCEPT !.status = s]
<1>1. /\ o \in OfferId /\ o[1] \in Rides /\ o[2] \in DOMAIN offers[o[1]] /\ At(o) \in Offer
      /\ offers \in [Rides -> Seq(Offer)]
  BY AnyFacts
<1>2. x \in Offer /\ x.status = s /\ x.driver = At(o).driver
  BY <1>1 DEF Offer, At
<1>3. Written(offers, offers', o, x)
  BY DEF SetOffer, Written
<1> HIDE DEF x
<1>4. /\ \A r \in Rides : DOMAIN offers'[r] = DOMAIN offers[r]
      /\ offers'[o[1]][o[2]] = x
      /\ \A r \in Rides : \A i \in DOMAIN offers[r] :
           <<r, i>> # o => offers'[r][i] = offers[r][i]
  BY <1>1, <1>2, <1>3, OfferWritten
<1>5. Made' = Made
  BY <1>4, SameMade
<1>6. \A p \in Made : p = <<p[1], p[2]>> /\ p[1] \in Rides /\ p[2] \in DOMAIN offers[p[1]]
  BY AnyFacts
<1>7. \A p \in Made : p # o => offers'[p[1]][p[2]] = offers[p[1]][p[2]]
  BY <1>4, <1>6
<1> QED
  BY <1>2, <1>4, <1>5, <1>7 DEF At

LEMMA EndOffer ==
  ASSUME AnyIInv, AnyIInv', NEW o \in Made, Pending(o),
         NEW s \in {"DECLINED", "EXPIRED"}, SetOffer(o, s)
  PROVE  OfferEnds(o)
BY SetOfferSets DEF OfferEnds, Pending, Won

LEMMA MakeOffer ==
  ASSUME AnyIInv, AnyIInv', NEW r \in Rides, NEW d \in Drivers,
         Added(offers, offers', r, [driver |-> d, lapsed |-> FALSE, status |-> "PENDING"])
  PROVE  OfferMade(r, d)
<1> DEFINE x == [driver |-> d, lapsed |-> FALSE, status |-> "PENDING"]
<1>1. x \in Offer /\ x.driver = d /\ x.status = "PENDING"
  BY DEF Offer
<1>2. offers \in [Rides -> Seq(Offer)] /\ Added(offers, offers', r, x)
  BY AnyFacts
<1> HIDE DEF x
<1>3. PICK n \in Nat \ {0} :
        /\ n \notin DOMAIN offers[r] /\ DOMAIN offers'[r] = DOMAIN offers[r] \union {n}
        /\ offers'[r][n] = x /\ \A i \in DOMAIN offers[r] : offers'[r][i] = offers[r][i]
  BY <1>1, <1>2, OfferAppended
<1>4. \A q \in Rides : q # r => offers'[q] = offers[q]
  BY <1>1, <1>2, OfferAppended
<1> DEFINE p == <<r, n>>
<1>5. p \notin Made
  BY <1>3, AnyFacts
<1>6. \A o \in Made : o = <<o[1], o[2]>> /\ o[1] \in Rides /\ o[2] \in DOMAIN offers[o[1]]
  BY AnyFacts
<1>7. \A q \in Rides : \A i \in DOMAIN offers[q] : <<q, i>> \in Made
  BY <1>2, MadeIsMadeOf, MadeOfIs
<1>8. ASSUME NEW o PROVE o \in Made' <=> o \in Made \/ o = p
  <2>1. ASSUME o \in Made PROVE o \in Made'
    <3>1. o[2] \in DOMAIN offers'[o[1]]
      BY <1>3, <1>4, <1>6, <2>1
    <3>2. <<o[1], o[2]>> \in Made'
      BY <1>6, <2>1, <3>1, NextFacts
    <3> QED
      BY <1>6, <2>1, <3>2
  <2>2. p \in Made'
    BY <1>3, NextFacts
  <2>3. ASSUME o \in Made', o # p PROVE o \in Made
    <3>1. o = <<o[1], o[2]>> /\ o[1] \in Rides /\ o[2] \in DOMAIN offers'[o[1]]
      BY <2>3, NextFacts
    <3>2. CASE o[1] = r
      <4>1. o[2] # n
        BY <2>3, <3>1, <3>2
      <4> QED
        BY <1>3, <1>7, <3>1, <3>2, <4>1
    <3>3. CASE o[1] # r
      BY <1>4, <1>7, <3>1, <3>3
    <3> QED
      BY <3>2, <3>3
  <2> QED
    BY <2>1, <2>2, <2>3
<1>9. Made' = Made \union {p}
  BY <1>8
<1>10. \A o \in Made : offers'[o[1]][o[2]] = offers[o[1]][o[2]]
  BY <1>3, <1>4, <1>6
<1>11. p[1] = r /\ offers'[p[1]][p[2]] = x
  BY <1>3
<1>12. \A o \in Made : At(o)'.status = At(o).status /\ At(o)'.driver = At(o).driver
  BY <1>10 DEF At
<1>13. At(p)'.driver = d /\ Pending(p)'
  BY <1>1, <1>11 DEF At, Pending
<1> HIDE DEF p
<1> QED
  BY <1>5, <1>9, <1>11, <1>12, <1>13 DEF OfferMade

-------------------------------------------------------------------------------
\* What a serial handler knows survives a step that changes nothing that matters.
LEMMA SameKnows ==
  ASSUME AnyIInv, OffersSame, RidesSame, count' = count, NEW k \in Job, Knows(k)
  PROVE  Knows(k)'
<1>1. \A S : AreLive(S) => AreLive(S)'
  BY DEF AreLive, OffersSame, Pending
<1>2. \A r : Unasked(r) => Unasked(r)'
  BY DEF Unasked, OffersSame, Pending
<1>3. \A d : Free(d) => Free(d)'
  BY DEF Free, OffersSame, Pending
<1>4. \A j : SweepKnows(j) => SweepKnows(j)'
  BY <1>1, <1>2 DEF SweepKnows
<1>5. k.pc \in Dispatching => k.ride \in Rides
  BY JobShape, ThenIsJob
<1>6. k.pc \in TripCalls => k.ride \in Rides
  BY JobShape
<1>7. k.pc \in Dispatching => DispatchKnows(k)'
  BY <1>2, <1>3, <1>4, <1>5 DEF Knows, DispatchKnows, RidesSame
<1>8. k.pc = "decline" => AreLive({k.offer})'
  BY <1>1 DEF Knows
<1>9. k.pc \in TripCalls
        => ride'[k.ride].status \in From(k.pc) /\ ride'[k.ride].driver = k.driver
  BY <1>6 DEF Knows, RidesSame
<1> QED
  BY <1>4, <1>7, <1>8, <1>9 DEF Knows

LEMMA TripsStand ==
  ASSUME AnyIInv, CountsAreTrips, count' = count,
         \A r \in Rides : ride[r].status \in Active \/ ride'[r].status \in Active =>
           /\ ride[r].status \in Active /\ ride'[r].status \in Active
           /\ ride'[r].driver = ride[r].driver
  PROVE  CountsAreTrips'
<1>1. ASSUME NEW d \in Drivers PROVE Trips(d)' = Trips(d)
  BY DEF Trips
<1> QED
  BY <1>1 DEF CountsAreTrips

\* The tables agree after a step that changes nothing that matters, ends an offer, or
\* makes one for a free driver and an unasked ride that looks.
LEMMA SameTables ==
  ASSUME AnyIInv, Tables, OffersSame, RidesSame, count' = count
  PROVE  Tables'
<1>1. OneLiveOffer'
  BY DEF Tables, OneLiveOffer, OffersSame, Pending
<1>2. Winners'
  BY DEF Tables, Winners, Won, OffersSame, RidesSame
<1>3. Unclaimed'
  BY DEF Tables, Unclaimed, Unasked, Pending, OffersSame, RidesSame
<1>4. CountsAreTrips'
  BY TripsStand DEF Tables, RidesSame
<1>5. AskedAreFree'
  BY DEF Tables, AskedAreFree, OffersSame, Pending
<1> QED
  BY <1>1, <1>2, <1>3, <1>4, <1>5 DEF Tables

LEMMA EndedTables ==
  ASSUME AnyIInv, Tables, NEW o, OfferEnds(o), UNCHANGED <<ride, count>>
  PROVE  Tables' /\ Unasked(o[1])'
<1>1. \A p \in Made : /\ Pending(p)' => Pending(p) /\ p # o
                      /\ Won(p)' <=> Won(p)
                      /\ At(p)'.driver = At(p).driver
  BY DEF OfferEnds, Pending, Won
<1>2. Made' = Made /\ o \in Made /\ Pending(o)
  BY DEF OfferEnds
<1>3. OneLiveOffer' /\ Unasked(o[1])'
  BY <1>1, <1>2 DEF Tables, OneLiveOffer, Unasked
<1>4. Winners'
  BY <1>1, <1>2 DEF Tables, Winners
<1>5. Unclaimed'
  BY <1>1, <1>2 DEF Tables, Unclaimed, Unasked
<1>6. CountsAreTrips'
  BY TripsStand DEF Tables
<1>7. AskedAreFree'
  BY <1>1, <1>2 DEF Tables, AskedAreFree
<1> QED
  BY <1>3, <1>4, <1>5, <1>6, <1>7 DEF Tables

LEMMA MadeTables ==
  ASSUME AnyIInv, Tables, NEW r \in Rides, NEW d \in Drivers, OfferMade(r, d),
         UNCHANGED <<ride, count>>, ride[r].status \in Looking, Unasked(r), Free(d)
  PROVE  Tables'
<1>1. PICK p : /\ p \notin Made /\ Made' = Made \union {p}
               /\ p[1] = r /\ At(p)'.driver = d /\ Pending(p)'
               /\ \A o \in Made : /\ At(o)'.status = At(o).status
                                  /\ At(o)'.driver = At(o).driver
  BY DEF OfferMade
<1>2. /\ \A o \in Made : (Pending(o)' <=> Pending(o)) /\ (Won(o)' <=> Won(o))
      /\ ~Won(p)'
  BY <1>1 DEF Pending, Won
<1>3. OneLiveOffer'
  BY <1>1, <1>2 DEF Tables, OneLiveOffer, Unasked, Free
<1>4. Winners'
  BY <1>1, <1>2 DEF Tables, Winners
<1>5. Unclaimed'
  BY <1>1, <1>2 DEF Tables, Unclaimed, Unasked, Looking
<1>6. CountsAreTrips'
  BY TripsStand DEF Tables
<1>7. AskedAreFree'
  BY <1>1, <1>2 DEF Tables, AskedAreFree, Free
<1> QED
  BY <1>3, <1>4, <1>5, <1>6, <1>7 DEF Tables

\* ... or moves a ride that nobody carries, before and after.
LEMMA IdleRideTables ==
  ASSUME AnyIInv, Tables, OffersSame, count' = count, NEW r \in Rides, NEW s,
         ride' = [ride EXCEPT ![r].status = s], ride[r].status \in {"NONE"} \union Looking,
         s \in Looking \union Terminal
  PROVE  Tables'
<1>1. /\ \A q \in Rides : ride'[q].driver = ride[q].driver
      /\ \A q \in Rides : ride'[q].status = IF q = r THEN s ELSE ride[q].status
  BY AnyFacts DEF RideRow
<1>2. s \notin Active /\ ride[r].status \notin Active /\ s # "NONE"
  BY DEF Looking, Active, Terminal
<1>3. OneLiveOffer'
  BY DEF Tables, OneLiveOffer, OffersSame, Pending
<1>4. Winners'
  BY <1>1 DEF Tables, Winners, Won, OffersSame
<1>5. Unclaimed'
  BY <1>1, <1>2 DEF Tables, Unclaimed, Unasked, Pending, OffersSame
<1>6. CountsAreTrips'
  BY <1>1, <1>2, TripsStand DEF Tables
<1>7. AskedAreFree'
  BY DEF Tables, AskedAreFree, OffersSame, Pending
<1> QED
  BY <1>3, <1>4, <1>5, <1>6, <1>7 DEF Tables

\* A claim takes one offer, one ride, and adds one to one count.
LEMMA AcceptedTables ==
  ASSUME AnyIInv, Tables, NEW o \in Made, CanClaim(o),
         Made' = Made, At(o)'.status = "ACCEPTED", At(o)'.driver = At(o).driver,
         \A p \in Made : p # o => At(p)'.status = At(p).status /\ At(p)'.driver = At(p).driver,
         ride' = [ride EXCEPT ![o[1]] = Assigned(@, At(o).driver)],
         count' = [count EXCEPT ![At(o).driver] = @ + 1]
  PROVE  Tables'
<1> DEFINE d == At(o).driver
           r == o[1]
<1>1. d \in Drivers /\ r \in Rides /\ ride[r] \in RideRow /\ d # NoDriver
  BY AnyFacts, ConfigOK
<1>2. /\ ride'[r].status = "DRIVER_ASSIGNED" /\ ride'[r].driver = d
      /\ \A q \in Rides : q # r => ride'[q] = ride[q]
  BY <1>1, AnyFacts DEF Assigned, RideRow
<1>3. ride[r].status \in Looking /\ ride[r].driver = NoDriver /\ Pending(o)
  BY <1>1 DEF CanClaim, Tables, Unclaimed
<1>4. /\ count'[d] = count[d] + 1 /\ count[d] = 0
      /\ \A e \in Drivers : e # d => count'[e] = count[e]
  BY <1>1, <1>3, AnyFacts DEF Tables, AskedAreFree
<1>5. \A p \in Made : /\ Pending(p)' => Pending(p) /\ p # o
                      /\ Won(p)' <=> Won(p) \/ p = o
                      /\ At(p)'.driver = At(p).driver
  BY DEF Pending, Won
<1>6. OneLiveOffer'
  BY <1>5 DEF Tables, OneLiveOffer
<1>7. Winners'
  <2> SUFFICES ASSUME NEW q \in Rides
               PROVE  IF ride'[q].driver = NoDriver THEN \A p \in Made : p[1] = q => ~Won(p)'
                      ELSE \E p \in Made :
                             /\ p[1] = q /\ Won(p)' /\ At(p)'.driver = ride'[q].driver
                             /\ \A x \in Made : x[1] = q /\ Won(x)' => x = p
    BY DEF Winners
  <2>1. CASE q = r
    <3>1. \A p \in Made : p[1] = r => ~Won(p)
      BY <1>1, <1>3 DEF Tables, Winners
    <3> QED
      BY <1>1, <1>2, <1>5, <2>1, <3>1
  <2>2. CASE q # r
    BY <1>2, <1>5, <2>2 DEF Tables, Winners
  <2> QED
    BY <2>1, <2>2
<1>8. Unclaimed'
  <2>1. ride'[r].status \notin {"NONE"} \union Looking
    BY <1>2 DEF Looking
  <2> QED
    BY <1>2, <1>5, <2>1 DEF Tables, Unclaimed, Unasked
<1>9. CountsAreTrips'
  <2>1. r \notin Trips(d) /\ Trips(d)' = Trips(d) \union {r}
    BY <1>1, <1>2, <1>3 DEF Trips, Looking, Active
  <2>2. \A e \in Drivers : e # d => Trips(e)' = Trips(e)
    BY <1>1, <1>2, <1>3 DEF Trips, Looking, Active
  <2>3. IsFiniteSet(Trips(d)) /\ count[d] = Cardinality(Trips(d))
    BY <1>1 DEF Tables, CountsAreTrips
  <2>4. /\ IsFiniteSet(Trips(d) \union {r})
        /\ Cardinality(Trips(d) \union {r}) = Cardinality(Trips(d)) + 1
    <3>1. PICK T : T = Trips(d)
      OBVIOUS
    <3> HIDE DEF d, r
    <3> QED
      BY <2>1, <2>3, <3>1, FS_AddElement
  <2> QED
    BY <1>4, <2>1, <2>2, <2>3, <2>4 DEF Tables, CountsAreTrips
<1>10. AskedAreFree'
  <2>1. \A p \in Made : Pending(p)' => At(p).driver # d /\ At(p).driver \in Drivers
    BY <1>3, <1>5, AnyFacts DEF Tables, OneLiveOffer
  <2> QED
    BY <1>4, <1>5, <2>1 DEF Tables, AskedAreFree
<1> QED
  BY <1>6, <1>7, <1>8, <1>9, <1>10 DEF Tables

\* The end of a trip lowers the count of the driver who carried the ride, once.
LEMMA EndedTripTables ==
  ASSUME AnyIInv, Tables, OffersSame, NEW op \in TripCalls, NEW r \in Rides,
         NEW d \in Drivers \union {NoDriver},
         ride[r].status \in From(op), ride[r].driver = d,
         ride' = [ride EXCEPT ![r].status = To(op)],
         count' = [e \in Drivers |-> IF e = d THEN Released(op, count[e]) ELSE count[e]]
  PROVE  Tables'
<1> DEFINE s == To(op)
<1>1. ride[r] \in RideRow /\ ride \in [Rides -> RideRow]
  BY AnyFacts
<1>2. \A q \in Rides : /\ ride'[q].driver = ride[q].driver
                       /\ ride'[q].status = IF q = r THEN s ELSE ride[q].status
  BY <1>1 DEF RideRow
<1>3. /\ count \in [Drivers -> Int] /\ count' \in [Drivers -> Int]
      /\ \A e \in Drivers : count'[e] = IF e = d THEN Released(op, count[e]) ELSE count[e]
  <2>1. \A n \in Int : Released(op, n) \in Int
    BY DEF Released
  <2> QED
    BY <2>1, AnyFacts
<1>4. OneLiveOffer'
  BY DEF Tables, OneLiveOffer, OffersSame, Pending
<1>5. Winners'
  BY <1>2 DEF Tables, Winners, Won, OffersSame
<1>6. CASE ride[r].status \in Looking
  <2>1. d = NoDriver /\ s = "CANCELLED"
    BY <1>1, <1>6 DEF Tables, Unclaimed, To, From, TripCalls, DriverCalls, Looking, Active
  <2>2. count' = count
    BY <1>3, <2>1, ConfigOK
  <2>3. s \in Looking \union Terminal
    BY <2>1 DEF Terminal
  <2> QED
    BY <1>1, <1>6, <2>2, <2>3, IdleRideTables
<1>7. CASE ride[r].status \in Active
  <2>1. d \in Drivers /\ s \notin {"NONE"} \union Looking
    BY <1>1, <1>7, AnyFacts DEF To, Looking
  <2>2. Unclaimed'
    BY <1>2, <1>7, <2>1 DEF Tables, Unclaimed, Unasked, Pending, OffersSame, Looking, Active
  <2>3. IsFiniteSet(Trips(d)) /\ count[d] = Cardinality(Trips(d)) /\ r \in Trips(d)
    BY <1>1, <1>7, <2>1 DEF Tables, CountsAreTrips, Trips
  <2>4. count[d] # 0 /\ count[d] \in Nat
    BY <2>3, FS_EmptySet, FS_CardinalityType
  <2>5. AskedAreFree'
    <3>1. \A o \in Made : Pending(o) => At(o).driver # d /\ At(o).driver \in Drivers
      BY <2>4, AnyFacts DEF Tables, AskedAreFree
    <3> QED
      BY <1>3, <3>1 DEF Tables, AskedAreFree, OffersSame, Pending
  <2>6. CASE op \in {"arrive", "start"}
    <3>1. s \in Active /\ count' = count
      BY <1>3, <2>6 DEF To, Active, Released
    <3>2. CountsAreTrips'
      BY <1>2, <1>7, <3>1, TripsStand DEF Tables
    <3> QED
      BY <1>4, <1>5, <2>2, <2>5, <3>2 DEF Tables
  <2>7. CASE op \notin {"arrive", "start"}
    <3>1. s \notin Active /\ count'[d] = count[d] - 1
      BY <1>1, <1>3, <2>1, <2>4, <2>7 DEF To, Active, Released, TripCalls, DriverCalls
    <3>2. Trips(d)' = Trips(d) \ {r}
      BY <1>2, <3>1 DEF Trips
    <3>3. \A e \in Drivers : e # d => Trips(e)' = Trips(e)
      BY <1>1, <1>2, <3>1 DEF Trips
    <3>4. /\ IsFiniteSet(Trips(d) \ {r})
          /\ Cardinality(Trips(d) \ {r}) = Cardinality(Trips(d)) - 1
      BY <2>3, FS_RemoveElement
    <3>5. CountsAreTrips'
      BY <1>3, <2>3, <3>1, <3>2, <3>3, <3>4 DEF Tables, CountsAreTrips
    <3> QED
      BY <1>4, <1>5, <2>2, <2>5, <3>5 DEF Tables
  <2> QED
    BY <2>6, <2>7
<1>8. From(op) \subseteq Looking \union Active
  BY <1>1 DEF From, Looking, Active, TripCalls, DriverCalls
<1> QED
  BY <1>1, <1>6, <1>7, <1>8

-------------------------------------------------------------------------------
\* The invariant of serial handlers is about the one in progress.
LEMMA AloneKnows ==
  ASSUME AnyIInv, AnyIInv', OneHandler, OneHandler', Tables', NEW w \in Workers, NEW k,
         Become(w, k), job[w] # Idle \/ k # Idle, Knows(k)'
  PROVE  SerialIInv'
<1>1. job'[w] = k /\ \A v \in Workers : v # w => job'[v] = job[v]
  BY AnyFacts DEF Become
<1>2. \A v \in Workers : v # w => job'[v] = Idle
  BY <1>1 DEF OneHandler
<1>3. Knows(Idle)'
  BY DEF Knows, SweepKnows, Idle, Dispatching, TripCalls, DriverCalls
<1>4. \A v \in Workers : v # w => Knows(job[v])'
  BY <1>2, <1>3 DEF Knows, SweepKnows, DispatchKnows
<1>5. Knows(job[w])'
  BY <1>1 DEF Knows, SweepKnows, DispatchKnows
<1> QED
  BY <1>4, <1>5 DEF SerialIInv

LEMMA QuietSerial ==
  ASSUME AnyIInv, AnyIInv', SerialIInv, OneHandler', OffersSame, RidesSame, count' = count,
         NEW w \in Workers, NEW k, Become(w, k), job[w] # Idle \/ k # Idle, Knows(k)
  PROVE  SerialIInv'
<1>1. k \in Job
  BY AnyFacts, NextFacts DEF Become
<1>2. Tables' /\ Knows(k)'
  BY <1>1, SameKnows, SameTables DEF SerialIInv
<1> QED
  BY <1>2, AloneKnows DEF SerialIInv

\* A handler without anything to know, and one that goes back to the sweep.
LEMMA SweepKnowsAll ==
  ASSUME NEW k \in {Idle} \union SweepJob, SweepKnows(k)
  PROVE  Knows(k)
BY SweepShape DEF Knows

LEMMA IdleKnows == Knows(Idle) /\ SweepKnows(Idle)
BY DEF Knows, SweepKnows, Idle, Dispatching, TripCalls, DriverCalls

\* The steps of a dispatch that only read.
LEMMA LookSerial ==
  ASSUME AnyIInv, AnyIInv', SerialIInv, OneHandler', NEW w \in Workers,
         Look(w) \/ Choose(w)
  PROVE  SerialIInv'
<1>1. PICK j \in DispatchJob : j = job[w]
  BY AnyFacts, JobShape DEF Look, Choose, Dispatching
<1>2. /\ Knows(j) /\ DispatchKnows(j) /\ SweepKnows(j.then) /\ j.pc \in Dispatching
      /\ j.then \in {Idle} \union SweepJob /\ j.ride \in Rides
  BY <1>1, ThenIsJob DEF SerialIInv, Knows, DispatchKnows
<1>3. Knows(j.then)
  BY <1>2, SweepKnowsAll
<1>4. job[w] # Idle /\ OffersSame /\ RidesSame /\ count' = count
  <2>1. j # Idle
    BY <1>2 DEF Idle, Dispatching
  <2>2. offers' = offers /\ ride' = ride /\ count' = count
    BY DEF Look, Choose
  <2>3. OffersSame
    BY <2>2, UntouchedOffers
  <2> QED
    BY <1>1, <2>1, <2>2, <2>3 DEF RidesSame
<1>5. ASSUME NEW k, Become(w, k), Knows(k) PROVE SerialIInv'
  BY <1>4, <1>5, QuietSerial
<1>6. ASSUME NEW k \in DispatchJob, DispatchKnows(k) PROVE Knows(k)
  BY <1>6, ThenIsJob DEF Knows, SweepKnows, Dispatching, TripCalls, DriverCalls
<1>7. CASE Look(w)
  <2>1. CASE ride[j.ride].status \in Looking
    <3>1. PICK s : s = ride[j.ride].status
      OBVIOUS
    <3> DEFINE k == [j EXCEPT !.pc = "choose", !.saw = s]
    <3>2. /\ k \in DispatchJob /\ k.pc = "choose" /\ k.ride = j.ride /\ k.then = j.then
      BY <2>1, <3>1 DEF DispatchJob
    <3>3. j.pc = "look" /\ Become(w, k)
      BY <1>1, <1>7, <2>1, <3>1 DEF Look
    <3> HIDE DEF k
    <3>4. DispatchKnows(k)
      BY <1>2, <2>1, <3>2, <3>3 DEF DispatchKnows
    <3> QED
      BY <1>5, <1>6, <3>2, <3>3, <3>4
  <2>2. CASE ride[j.ride].status \notin Looking
    BY <1>1, <1>3, <1>5, <1>7, <2>2 DEF Look
  <2> QED
    BY <2>1, <2>2
<1>8. CASE Choose(w)
  <2>1. j.pc = "choose" /\ Unasked(j.ride) /\ ride[j.ride].status \in Looking
    BY <1>1, <1>2, <1>8 DEF Choose, DispatchKnows
  <2>2. ASSUME NEW pc \in {"giveUp", "search"}, Become(w, [j EXCEPT !.pc = pc])
        PROVE  SerialIInv'
    <3> DEFINE k == [j EXCEPT !.pc = pc]
    <3>1. k \in DispatchJob /\ k.pc = pc /\ k.ride = j.ride /\ k.then = j.then
      BY ThenIsJob DEF DispatchJob
    <3>2. Become(w, k)
      BY <2>2
    <3> HIDE DEF k
    <3>3. DispatchKnows(k)
      BY <1>2, <2>1, <3>1 DEF DispatchKnows
    <3> QED
      BY <1>5, <1>6, <3>1, <3>2, <3>3
  <2>3. ASSUME NEW d \in Candidates(j.ride), Become(w, [j EXCEPT !.pc = "offer", !.driver = d])
        PROVE  SerialIInv'
    <3> DEFINE k == [j EXCEPT !.pc = "offer", !.driver = d]
    <3>1. d \in Drivers /\ Free(d)
      BY AnyFacts DEF Candidates, Eligible, Free
    <3>2. /\ k \in DispatchJob /\ k.pc = "offer" /\ k.ride = j.ride /\ k.then = j.then
          /\ k.driver = d
      BY <3>1 DEF DispatchJob
    <3>3. Become(w, k)
      BY <2>3
    <3> HIDE DEF k
    <3>4. DispatchKnows(k)
      BY <1>2, <2>1, <3>1, <3>2 DEF DispatchKnows
    <3> QED
      BY <1>5, <1>6, <3>2, <3>3, <3>4
  <2>4. \/ Become(w, [j EXCEPT !.pc = "giveUp"])
        \/ \E d \in Candidates(j.ride) : Become(w, [j EXCEPT !.pc = "offer", !.driver = d])
        \/ Become(w, [j EXCEPT !.pc = "search"])
        \/ Become(w, j.then)
    <3>1. CASE Exhausted(j.ride)
      BY <1>1, <1>8, <3>1 DEF Choose
    <3>2. CASE ~Exhausted(j.ride) /\ ride[j.ride].overdue
      BY <1>1, <1>8, <3>2 DEF Choose
    <3>3. CASE ~Exhausted(j.ride) /\ ~ride[j.ride].overdue /\ j.saw = "REQUESTED"
      BY <1>1, <1>8, <3>3 DEF Choose
    <3>4. CASE ~Exhausted(j.ride) /\ ~ride[j.ride].overdue /\ j.saw # "REQUESTED"
      BY <1>1, <1>8, <3>4 DEF Choose
    <3> QED
      BY <3>1, <3>2, <3>3, <3>4
  <2> QED
    BY <1>3, <1>5, <2>2, <2>3, <2>4
<1> QED
  BY <1>7, <1>8

\* The sweep's reads, from one list to the next.
LEMMA SweepSerial ==
  ASSUME AnyIInv, AnyIInv', SerialIInv, OneHandler', NEW w \in Workers,
         BeginSweep(w) \/ CheckOffer(w) \/ ReadStalled(w) \/ RetrySearch(w)
  PROVE  SerialIInv'
<1>1. PICK j \in Job : j = job[w]
  BY AnyFacts
<1>2. OffersSame /\ RidesSame /\ count' = count
  BY UntouchedOffers DEF BeginSweep, CheckOffer, ReadStalled, RetrySearch, RidesSame
<1>3. ASSUME NEW k, Become(w, k), j # Idle \/ k # Idle, Knows(k) PROVE SerialIInv'
  BY <1>1, <1>2, <1>3, QuietSerial
<1>4. Knows(j) /\ SweepKnows(j)
  BY <1>1 DEF SerialIInv, Knows
<1>5. ASSUME BeginSweep(w) PROVE SerialIInv'
  <2>1. PICK T : T = {o \in Made : Pending(o) /\ At(o).lapsed}
    OBVIOUS
  <2> DEFINE k == [pc |-> "check", expire |-> {}, todo |-> T]
  <2>2. k \in SweepJob /\ Become(w, k) /\ k # Idle
    BY <1>5, <2>1, AnyFacts DEF BeginSweep, SweepJob, Idle
  <2>3. SweepKnows(k)
    BY <2>1 DEF SweepKnows, AreLive
  <2> HIDE DEF k
  <2> QED
    BY <1>3, <2>2, <2>3, SweepKnowsAll
<1>6. ASSUME CheckOffer(w) PROVE SerialIInv'
  <2>1. /\ j \in [pc : {"check"}, todo : SUBSET OfferId, expire : SUBSET OfferId]
        /\ AreLive(j.todo) /\ AreLive(j.expire) /\ j # Idle
    <3>1. j.pc = "check"
      BY <1>1, <1>6 DEF CheckOffer
    <3>2. j # Idle
      BY <3>1 DEF Idle
    <3> QED
      BY <1>4, <3>1, <3>2, JobShape DEF SweepKnows
  <2>2. ASSUME NEW o \in j.todo,
               Become(w, [pc |-> "renew", offer |-> o, todo |-> j.todo \ {o},
                          expire |-> j.expire])
        PROVE  SerialIInv'
    <3> DEFINE k == [pc |-> "renew", offer |-> o, todo |-> j.todo \ {o}, expire |-> j.expire]
    <3>1. k \in SweepJob
      BY <2>1 DEF SweepJob
    <3>2. SweepKnows(k)
      BY <2>1 DEF SweepKnows, AreLive
    <3> QED
      BY <1>3, <2>1, <2>2, <3>1, <3>2, SweepKnowsAll
  <2>3. ASSUME NEW o \in j.todo,
               Become(w, [j EXCEPT !.todo = @ \ {o}, !.expire = @ \union {o}])
        PROVE  SerialIInv'
    <3> DEFINE k == [j EXCEPT !.todo = @ \ {o}, !.expire = @ \union {o}]
    <3>1. k \in SweepJob /\ k.pc = "check" /\ k.todo = j.todo \ {o}
          /\ k.expire = j.expire \union {o} /\ Become(w, k)
      BY <2>1, <2>3 DEF SweepJob
    <3> HIDE DEF k
    <3>2. SweepKnows(k)
      BY <2>1, <3>1 DEF SweepKnows, AreLive
    <3> QED
      BY <1>3, <2>1, <3>1, <3>2, SweepKnowsAll
  <2>4. ASSUME Become(w, [pc |-> "expire", expire |-> j.expire]) PROVE SerialIInv'
    <3> DEFINE k == [pc |-> "expire", expire |-> j.expire]
    <3>1. k \in SweepJob
      BY <2>1 DEF SweepJob
    <3>2. SweepKnows(k)
      BY <2>1 DEF SweepKnows
    <3> QED
      BY <1>3, <2>1, <2>4, <3>1, <3>2, SweepKnowsAll
  <2>5. \/ \E o \in j.todo :
             \/ Become(w, [pc |-> "renew", offer |-> o, todo |-> j.todo \ {o},
                           expire |-> j.expire])
             \/ Become(w, [j EXCEPT !.todo = @ \ {o}, !.expire = @ \union {o}])
        \/ Become(w, [pc |-> "expire", expire |-> j.expire])
    BY <1>1, <1>6 DEF CheckOffer
  <2> QED
    BY <2>2, <2>3, <2>4, <2>5
<1>7. ASSUME ReadStalled(w) PROVE SerialIInv'
  <2>1. PICK T \in SUBSET {r \in Rides : Stalled(r)} :
          Become(w, [pc |-> "retry", stalled |-> T])
    BY <1>7 DEF ReadStalled
  <2> DEFINE k == [pc |-> "retry", stalled |-> T]
  <2>2. k \in SweepJob /\ Become(w, k) /\ k # Idle
    BY <2>1 DEF SweepJob, Idle
  <2>3. \A r \in T : Unasked(r)
    BY <2>1, AnyFacts DEF Stalled, NoPending, Unasked, Pending, At
  <2>4. SweepKnows(k)
    BY <2>3 DEF SweepKnows
  <2> HIDE DEF k
  <2> QED
    BY <1>3, <2>2, <2>4, SweepKnowsAll
<1>8. ASSUME RetrySearch(w) PROVE SerialIInv'
  <2>1. /\ j \in [pc : {"retry"}, stalled : SUBSET Rides] /\ j # Idle
        /\ \A r \in j.stalled : Unasked(r)
    BY <1>1, <1>4, <1>8, JobShape DEF RetrySearch, SweepKnows, Idle
  <2>2. ASSUME NEW r \in j.stalled, Become(w, Dispatch(r, [j EXCEPT !.stalled = @ \ {r}]))
        PROVE  SerialIInv'
    <3> DEFINE s == [j EXCEPT !.stalled = @ \ {r}]
               k == Dispatch(r, s)
    <3>1. s.pc = "retry" /\ s.stalled = j.stalled \ {r}
      BY <2>1
    <3>2. k.pc = "look" /\ k.ride = r /\ k.then = s
      BY DEF Dispatch
    <3>3. Become(w, k)
      BY <2>2
    <3> HIDE DEF s, k
    <3>4. SweepKnows(s)
      BY <2>1, <3>1 DEF SweepKnows
    <3>5. Knows(k)
      BY <2>1, <3>1, <3>2, <3>4 DEF Knows, DispatchKnows, SweepKnows, TripCalls, DriverCalls
    <3> QED
      BY <1>3, <2>1, <3>3, <3>5
  <2> QED
    BY <1>1, <1>3, <1>8, <2>1, <2>2, IdleKnows DEF RetrySearch
<1> QED
  BY <1>5, <1>6, <1>7, <1>8

\* The end of a dispatch: an offer, and then the ride's status.
LEMMA CreateSerial ==
  ASSUME AnyIInv, AnyIInv', SerialIInv, OneHandler', NEW w \in Workers, CreateOffer(w)
  PROVE  SerialIInv'
<1>1. PICK j \in DispatchJob : j = job[w]
  BY AnyFacts, JobShape DEF CreateOffer, Dispatching
<1>2. PICK r \in Rides, d \in Drivers \union {NoDriver} : r = j.ride /\ d = j.driver
  BY ThenIsJob
<1>3. j.pc = "offer" /\ ride' = ride /\ count' = count
  BY <1>1 DEF CreateOffer
<1>4. /\ Unasked(r) /\ ride[r].status \in Looking /\ d \in Drivers /\ Free(d)
      /\ SweepKnows(j.then) /\ (j.then.pc = "retry" => r \notin j.then.stalled)
  BY <1>1, <1>2, <1>3 DEF SerialIInv, Knows, DispatchKnows, Dispatching
<1>5. Added(offers, offers', r, [driver |-> d, lapsed |-> FALSE, status |-> "PENDING"])
  BY <1>1, <1>2 DEF CreateOffer, Added
<1>6. OfferMade(r, d)
  BY <1>4, <1>5, MakeOffer
<1>7. Tables'
  BY <1>3, <1>4, <1>6, MadeTables DEF SerialIInv
<1> DEFINE k == [j EXCEPT !.pc = "search"]
<1>8. k.pc = "search" /\ k.ride = r /\ k.then = j.then
  BY <1>2 DEF DispatchJob
<1>9. Become(w, k) /\ job[w] # Idle
  <2>1. j # Idle
    BY <1>3 DEF Idle
  <2> QED
    BY <1>1, <2>1 DEF CreateOffer
<1> HIDE DEF k
<1>10. PICK s : s = j.then
  OBVIOUS
<1>11. /\ \A S : AreLive(S) => AreLive(S)'
       /\ \A q \in Rides : q # r /\ Unasked(q) => Unasked(q)'
  BY <1>6 DEF AreLive, Unasked, Pending, OfferMade
<1>12. SweepKnows(s)'
  <2>1. s.pc = "retry" => s.stalled \subseteq Rides
    BY <1>10, ThenIsJob, SweepShape
  <2> QED
    BY <1>4, <1>10, <1>11, <2>1 DEF SweepKnows
<1>13. Knows(k)'
  BY <1>3, <1>4, <1>8, <1>10, <1>12 DEF Knows, DispatchKnows, SweepKnows, TripCalls, DriverCalls
<1> QED
  BY <1>7, <1>9, <1>13, AloneKnows DEF SerialIInv

LEMMA EndDispatchSerial ==
  ASSUME AnyIInv, AnyIInv', SerialIInv, OneHandler', NEW w \in Workers, EndDispatch(w)
  PROVE  SerialIInv'
<1>1. PICK j \in DispatchJob : j = job[w]
  BY AnyFacts, JobShape DEF EndDispatch, Dispatching
<1>2. PICK r \in Rides, s \in {Idle} \union SweepJob : r = j.ride /\ s = j.then
  BY ThenIsJob
<1>3. /\ j.pc \in {"search", "giveUp"} /\ offers' = offers /\ count' = count
      /\ Become(w, s)
  BY <1>1, <1>2 DEF EndDispatch
<1>4. ride[r].status \in Looking /\ SweepKnows(s)
  BY <1>1, <1>2, <1>3 DEF SerialIInv, Knows, DispatchKnows, Dispatching
<1>5. PICK t \in {"SEARCHING", "NO_DRIVERS_FOUND"} : ride' = [ride EXCEPT ![r].status = t]
  BY <1>1, <1>2 DEF EndDispatch, SetStatus
<1>6. OffersSame /\ job[w] # Idle
  <2>1. j # Idle
    BY <1>3 DEF Idle
  <2> QED
    BY <1>1, <1>3, <2>1, UntouchedOffers
<1>7. t \in Looking \union Terminal
  BY DEF Looking, Terminal
<1>8. Tables'
  BY <1>3, <1>4, <1>5, <1>6, <1>7, IdleRideTables DEF SerialIInv
<1>9. SweepKnows(s)'
  BY <1>4, <1>6 DEF SweepKnows, AreLive, Unasked, OffersSame, Pending
<1>10. Knows(s)'
  BY <1>1, <1>2, <1>9, ThenIsJob, SweepShape DEF Knows
<1> QED
  BY <1>3, <1>6, <1>8, <1>10, AloneKnows DEF SerialIInv

LEMMA BookSerial ==
  ASSUME AnyIInv, AnyIInv', SerialIInv, OneHandler', NEW w \in Workers, NEW r \in Rides,
         RequestRide(w, r)
  PROVE  SerialIInv'
<1>1. /\ ride[r].status = "NONE" /\ offers' = offers /\ count' = count
      /\ ride' = [ride EXCEPT ![r].status = "REQUESTED"] /\ Become(w, Dispatch(r, Idle))
  BY DEF RequestRide, SetStatus
<1>2. OffersSame
  BY <1>1, UntouchedOffers
<1>3. Tables'
  BY <1>1, <1>2, IdleRideTables DEF SerialIInv, Looking
<1>4. Unasked(r)'
  BY <1>1, <1>2 DEF SerialIInv, Tables, Unclaimed, Unasked, OffersSame, Pending
<1> DEFINE k == Dispatch(r, Idle)
<1>5. k.pc = "look" /\ k.ride = r /\ k.then = Idle
  BY DEF Dispatch
<1>6. k # Idle /\ Become(w, k)
  BY <1>1, <1>5 DEF Idle
<1> HIDE DEF k
<1>7. Knows(k)'
  BY <1>4, <1>5 DEF Knows, DispatchKnows, SweepKnows, TripCalls, DriverCalls, Idle
<1> QED
  BY <1>3, <1>6, <1>7, AloneKnows DEF SerialIInv

\* The reads with which an answer or a trip call begins.
LEMMA BeginSerial ==
  ASSUME AnyIInv, AnyIInv', SerialIInv, OneHandler', NEW w \in Workers,
         \/ \E o \in Made, answer \in {"accept", "decline"} : AnswerOffer(w, answer, o)
         \/ \E r \in Rides, op \in TripCalls : BeginTrip(w, op, r)
  PROVE  SerialIInv'
<1>1. offers' = offers /\ ride' = ride /\ count' = count
  BY DEF AnswerOffer, BeginTrip
<1>2. OffersSame /\ RidesSame
  BY <1>1, UntouchedOffers DEF RidesSame
<1>3. ASSUME NEW o \in Made, NEW answer \in {"accept", "decline"}, AnswerOffer(w, answer, o)
      PROVE  SerialIInv'
  <2> DEFINE k == [pc |-> answer, offer |-> o]
  <2>1. Become(w, k) /\ Pending(o) /\ k.pc = answer /\ k.offer = o
    BY <1>3 DEF AnswerOffer
  <2>2. k # Idle
    BY <2>1 DEF Idle
  <2> HIDE DEF k
  <2>3. Knows(k)
    BY <2>1 DEF Knows, SweepKnows, AreLive, Dispatching, TripCalls, DriverCalls
  <2> QED
    BY <1>1, <1>2, <2>1, <2>2, <2>3, QuietSerial
<1>4. ASSUME NEW r \in Rides, NEW op \in TripCalls, BeginTrip(w, op, r)
      PROVE  SerialIInv'
  <2>1. PICK d : d = ride[r].driver
    OBVIOUS
  <2> DEFINE k == [pc |-> op, ride |-> r, driver |-> d]
  <2>2. /\ Become(w, k) /\ ride[r].status \in From(op)
        /\ k.pc = op /\ k.ride = r /\ k.driver = d
    BY <1>4, <2>1 DEF BeginTrip
  <2>3. k # Idle
    BY <2>2 DEF Idle, TripCalls, DriverCalls
  <2> HIDE DEF k
  <2>4. Knows(k)
    BY <2>1, <2>2 DEF Knows, SweepKnows, Dispatching, TripCalls, DriverCalls
  <2> QED
    BY <1>1, <1>2, <2>2, <2>3, <2>4, QuietSerial
<1> QED
  BY <1>3, <1>4

\* The writes of an answer.
LEMMA AcceptSerial ==
  ASSUME AnyIInv, AnyIInv', SerialIInv, OneHandler', NEW w \in Workers, AcceptOffer(w)
  PROVE  SerialIInv'
<1>1. PICK j \in Job : j = job[w]
  BY AnyFacts
<1>2. j.pc = "accept" /\ Become(w, Idle)
  BY <1>1 DEF AcceptOffer
<1>3. PICK o \in Made : o = j.offer
  BY <1>1, <1>2 DEF AnyIInv, Sound
<1>4. job[w] # Idle
  BY <1>1, <1>2 DEF Idle
<1>5. CASE CanClaim(o)
  <2>1. PICK d : d = At(o).driver
    OBVIOUS
  <2>2. /\ SetOffer(o, "ACCEPTED") /\ ride' = [ride EXCEPT ![o[1]] = Assigned(@, At(o).driver)]
        /\ count' = [count EXCEPT ![At(o).driver] = @ + 1]
    BY <1>1, <1>3, <1>5 DEF AcceptOffer
  <2>3. /\ Made' = Made /\ At(o)'.status = "ACCEPTED" /\ At(o)'.driver = At(o).driver
        /\ \A p \in Made : p # o => At(p)'.status = At(p).status /\ At(p)'.driver = At(p).driver
    BY <2>2, SetOfferSets
  <2>4. Tables'
    BY <1>5, <2>2, <2>3, AcceptedTables DEF SerialIInv
  <2>5. Knows(Idle)'
    BY DEF Knows, SweepKnows, Idle, Dispatching, TripCalls, DriverCalls
  <2> QED
    BY <1>2, <1>4, <2>4, <2>5, AloneKnows DEF SerialIInv
<1>6. CASE ~CanClaim(o)
  <2>1. offers' = offers /\ ride' = ride /\ count' = count
    BY <1>1, <1>3, <1>6 DEF AcceptOffer
  <2>2. OffersSame /\ RidesSame
    BY <2>1, UntouchedOffers DEF RidesSame
  <2> QED
    BY <1>2, <1>4, <2>1, <2>2, IdleKnows, QuietSerial
<1> QED
  BY <1>5, <1>6

\* Ending an offer, by its driver or by the sweep, and dispatching its ride again.
LEMMA EndOfferSerial ==
  ASSUME AnyIInv, AnyIInv', SerialIInv, OneHandler', NEW w \in Workers,
         DeclineOffer(w) \/ ExpireOffer(w)
  PROVE  SerialIInv'
<1>1. PICK j \in Job : j = job[w]
  BY AnyFacts
<1>2. j.pc \in {"decline", "expire"} /\ ride' = ride /\ count' = count
  BY <1>1 DEF DeclineOffer, ExpireOffer
<1>3. job[w] # Idle
  BY <1>1, <1>2 DEF Idle
<1>4. ASSUME NEW o \in Made, Pending(o), NEW t \in {"DECLINED", "EXPIRED"}, SetOffer(o, t),
             NEW s, Become(w, Dispatch(o[1], s)), OfferEnds(o) => SweepKnows(s)',
             s.pc # "retry"
      PROVE  SerialIInv'
  <2>1. OfferEnds(o)
    BY <1>4, EndOffer
  <2>2. Tables' /\ Unasked(o[1])'
    BY <1>2, <2>1, EndedTables DEF SerialIInv
  <2> DEFINE k == Dispatch(o[1], s)
  <2>3. k.pc = "look" /\ k.ride = o[1] /\ k.then = s
    BY DEF Dispatch
  <2>4. Become(w, k)
    BY <1>4
  <2> HIDE DEF k
  <2>5. Knows(k)'
    BY <1>4, <2>1, <2>2, <2>3 DEF Knows, DispatchKnows, SweepKnows, TripCalls, DriverCalls
  <2> QED
    BY <1>3, <2>2, <2>4, <2>5, AloneKnows DEF SerialIInv
<1>5. ASSUME DeclineOffer(w) PROVE SerialIInv'
  <2>1. PICK o \in Made : o = j.offer /\ Pending(o)
    BY <1>1, <1>5 DEF DeclineOffer, SerialIInv, Knows, AreLive
  <2>2. SetOffer(o, "DECLINED") /\ Become(w, Dispatch(o[1], Idle))
    BY <1>1, <1>5, <2>1 DEF DeclineOffer
  <2>3. SweepKnows(Idle)' /\ Idle.pc # "retry"
    BY DEF SweepKnows, Idle
  <2> QED
    BY <1>4, <2>1, <2>2, <2>3
<1>6. ASSUME ExpireOffer(w) PROVE SerialIInv'
  <2>1. j.pc = "expire" /\ AreLive(j.expire) /\ j \in [pc : {"expire"}, expire : SUBSET OfferId]
    BY <1>1, <1>6, JobShape DEF ExpireOffer, SerialIInv, Knows, SweepKnows
  <2>2. PICK o \in j.expire : /\ SetOffer(o, "EXPIRED")
                              /\ Become(w, Dispatch(o[1], [j EXCEPT !.expire = @ \ {o}]))
    BY <1>1, <1>6 DEF ExpireOffer
  <2>3. o \in Made /\ Pending(o)
    BY <2>1 DEF AreLive
  <2> DEFINE s == [j EXCEPT !.expire = @ \ {o}]
  <2>4. s.pc = "expire" /\ s.expire = j.expire \ {o} /\ Become(w, Dispatch(o[1], s))
    BY <2>1, <2>2
  <2>5. PICK S : S = j.expire \ {o}
    OBVIOUS
  <2> HIDE DEF s
  <2>6. OfferEnds(o) => AreLive(S)'
    BY <2>1, <2>5 DEF OfferEnds, AreLive, Pending
  <2>7. OfferEnds(o) => SweepKnows(s)'
    BY <2>4, <2>5, <2>6 DEF SweepKnows
  <2> QED
    BY <1>4, <2>2, <2>3, <2>4, <2>7
<1> QED
  BY <1>5, <1>6

\* The write of a trip call, on the ride as the call read it.
LEMMA EndTripSerial ==
  ASSUME AnyIInv, AnyIInv', SerialIInv, OneHandler', NEW w \in Workers, EndTrip(w)
  PROVE  SerialIInv'
<1>1. PICK j \in [pc : TripCalls, ride : Rides, driver : Drivers \union {NoDriver}] : j = job[w]
  BY AnyFacts, JobShape DEF EndTrip
<1>2. PICK op \in TripCalls, r \in Rides, d \in Drivers \union {NoDriver} :
        op = j.pc /\ r = j.ride /\ d = j.driver
  BY <1>1
<1>3. ride[r].status \in From(op) /\ ride[r].driver = d
  BY <1>1, <1>2 DEF SerialIInv, Knows
<1>4. /\ ride' = [ride EXCEPT ![r].status = To(op)]
      /\ count' = [e \in Drivers |-> IF e = d THEN Released(op, count[e]) ELSE count[e]]
      /\ offers' = offers /\ Become(w, Idle)
  BY <1>1, <1>2 DEF EndTrip, SetStatus
<1>5. OffersSame
  BY <1>4, UntouchedOffers
<1>6. Tables'
  BY <1>3, <1>4, <1>5, EndedTripTables DEF SerialIInv
<1>7. job[w] # Idle
  BY <1>1, <1>2 DEF Idle, TripCalls, DriverCalls
<1>8. Knows(Idle)'
  BY DEF Knows, SweepKnows, Idle, Dispatching, TripCalls, DriverCalls
<1> QED
  BY <1>4, <1>6, <1>7, <1>8, AloneKnows DEF SerialIInv

\* The sweep renews an offer; a handler dies.
LEMMA RenewSerial ==
  ASSUME AnyIInv, AnyIInv', SerialIInv, OneHandler', NEW w \in Workers, RenewOffer(w)
  PROVE  SerialIInv'
<1>1. PICK j \in Job : j = job[w]
  BY AnyFacts
<1>2. j.pc = "renew" /\ ride' = ride /\ count' = count
  BY <1>1 DEF RenewOffer
<1>3. /\ j \in [pc : {"renew"}, offer : OfferId, todo : SUBSET OfferId, expire : SUBSET OfferId]
      /\ AreLive(j.todo) /\ AreLive(j.expire)
  BY <1>1, <1>2, JobShape DEF SerialIInv, Knows, SweepKnows
<1>4. SetLapsed(j.offer, FALSE)
  BY <1>1 DEF RenewOffer, SetLapsed
<1>5. OffersSame
  BY <1>3, <1>4, LapsedOffers
<1> DEFINE k == [pc |-> "check", todo |-> j.todo, expire |-> j.expire]
<1>6. Become(w, k) /\ k \in SweepJob /\ SweepKnows(k)
  BY <1>1, <1>3 DEF RenewOffer, SweepJob, SweepKnows
<1>7. job[w] # Idle
  BY <1>1, <1>2 DEF Idle
<1> HIDE DEF k
<1> QED
  BY <1>2, <1>5, <1>6, <1>7, QuietSerial, SweepKnowsAll DEF RidesSame

LEMMA CrashSerial ==
  ASSUME AnyIInv, AnyIInv', SerialIInv, OneHandler', NEW w \in Workers, Crash(w)
  PROVE  SerialIInv'
<1>1. offers' = offers /\ ride' = ride /\ count' = count /\ Become(w, Idle) /\ job[w] # Idle
  BY DEF Crash
<1> QED
  BY <1>1, IdleKnows, QuietSerial, UntouchedOffers DEF RidesSame

\* What happens outside the handlers.
LEMMA WorldSerial ==
  ASSUME AnyIInv, AnyIInv', SerialIInv, OneHandler', OffersSame, RidesSame,
         count' = count, job' = job
  PROVE  SerialIInv'
<1>1. Tables'
  BY SameTables DEF SerialIInv
<1>2. ASSUME NEW w \in Workers PROVE Knows(job[w])'
  <2>1. PICK k \in Job : k = job[w] /\ Knows(k)
    BY AnyFacts DEF SerialIInv
  <2>2. Knows(k)'
    BY <2>1, SameKnows
  <2>3. job'[w] = k
    BY <2>1
  <2> QED
    BY <2>2, <2>3 DEF Knows, SweepKnows, DispatchKnows
<1> QED
  BY <1>1, <1>2 DEF SerialIInv

LEMMA NextSerial ==
  ASSUME AnyIInv, AnyIInv', SerialIInv, OneHandler', Next
  PROVE  SerialIInv'
<1>1. ASSUME NEW w \in Workers, Step(w) \/ BeginSweep(w) \/ Crash(w) PROVE SerialIInv'
  BY <1>1, LookSerial, CreateSerial, EndDispatchSerial, AcceptSerial, EndOfferSerial,
     EndTripSerial, SweepSerial, RenewSerial, CrashSerial DEF Step
<1>2. ASSUME NEW w \in Workers, NEW r \in Rides,
             RequestRide(w, r) \/ \E op \in TripCalls : BeginTrip(w, op, r)
      PROVE  SerialIInv'
  BY <1>2, BookSerial, BeginSerial
<1>3. ASSUME NEW w \in Workers,
             \E o \in Made, answer \in {"accept", "decline"} : AnswerOffer(w, answer, o)
      PROVE  SerialIInv'
  BY <1>3, BeginSerial
<1>4. ASSUME NEW d \in Drivers, DriverChanges(d) PROVE SerialIInv'
  BY <1>4, WorldSerial, UntouchedOffers DEF DriverChanges, RidesSame
<1>5. ASSUME NEW o \in Made, OfferLapses(o) PROVE SerialIInv'
  <2>1. o \in OfferId /\ SetLapsed(o, TRUE) /\ UNCHANGED <<ride, count, job>>
    BY <1>5, AnyFacts DEF OfferLapses, SetLapsed
  <2> QED
    BY <2>1, LapsedOffers, WorldSerial DEF RidesSame
<1>6. ASSUME NEW r \in Rides, WindowCloses(r) PROVE SerialIInv'
  <2>1. /\ ride' = [ride EXCEPT ![r].overdue = TRUE] /\ UNCHANGED <<offers, count, job>>
    BY <1>6 DEF WindowCloses
  <2>2. RidesSame
    BY <2>1, AnyFacts DEF RidesSame, RideRow
  <2> QED
    BY <2>1, <2>2, UntouchedOffers, WorldSerial
<1> QED
  BY <1>1, <1>2, <1>3, <1>4, <1>5, <1>6 DEF Next

-------------------------------------------------------------------------------
\* The invariant holds in both scenes of MCSpec: when handlers overlap, its second
\* layer says nothing, and the scene does not change.
LEMMA InitSerial == Init => AnyIInv /\ SerialIInv
<1> SUFFICES ASSUME Init PROVE AnyIInv /\ SerialIInv
  OBVIOUS
<1>1. AnyIInv
  BY InitAny
<1>2. Made = {}
  BY <1>1, AnyFacts DEF Init
<1>3. \A r \in Rides : ride[r].status = "NONE" /\ ride[r].driver = NoDriver
  BY DEF Init
<1>4. OneLiveOffer /\ Winners /\ Unclaimed /\ AskedAreFree
  BY <1>2, <1>3 DEF OneLiveOffer, Winners, Unclaimed, Unasked, AskedAreFree
<1>5. CountsAreTrips
  <2>1. \A d \in Drivers : Trips(d) = {} /\ count[d] = 0
    BY <1>3 DEF Trips, Active, Init
  <2> QED
    BY <2>1, FS_EmptySet DEF CountsAreTrips
<1>6. OneHandler /\ \A w \in Workers : Knows(job[w])
  BY IdleKnows DEF Init, OneHandler
<1> QED
  BY <1>1, <1>4, <1>5, <1>6 DEF SerialIInv, Tables

LEMMA RideStep == RideIInv /\ [MCNext]_MCVars => RideIInv'
<1> SUFFICES ASSUME RideIInv, [MCNext]_MCVars PROVE RideIInv'
  OBVIOUS
<1>1. AnyIInv' /\ AnyIInv
  BY StepAny DEF RideIInv, MCNext, MCVars
<1>2. ASSUME MCNext, serial' PROVE SerialIInv'
  <2>1. SerialIInv /\ Next /\ OneHandler'
    BY <1>2 DEF RideIInv, MCNext, InScene, OneHandler
  <2> QED
    BY <1>1, <2>1, NextSerial
<1>3. ASSUME UNCHANGED MCVars, serial' PROVE SerialIInv'
  <2>1. SerialIInv /\ UNCHANGED <<ride, offers, count, job>>
    BY <1>3 DEF RideIInv, MCVars, vars
  <2>2. OneHandler'
    BY <2>1 DEF SerialIInv, OneHandler
  <2> QED
    BY <1>1, <2>1, <2>2, UntouchedOffers, WorldSerial DEF RidesSame
<1> QED
  BY <1>1, <1>2, <1>3 DEF RideIInv

THEOREM RideInvariant == MCSpec => []RideIInv
<1>1. MCInit => RideIInv
  BY InitSerial DEF MCInit, RideIInv
<1> QED
  BY <1>1, RideStep, PTL DEF MCSpec

\* activeRideCount is the number of rides a driver has under way, for any number of
\* rides, drivers and crashes, while handlers do not overlap.
THEOREM CountsFollowTrips == MCSpec => []SerialCountIsTrips
<1>1. RideIInv => SerialCountIsTrips
  BY DEF RideIInv, SerialIInv, Tables, CountsAreTrips, Trips, SerialCountIsTrips, CountIsTrips
<1> QED
  BY <1>1, RideInvariant, PTL

\* Nobody is asked about two rides, nor a ride offered to two drivers, while handlers
\* do not overlap: the exclusions of the search need no lock then.
THEOREM NobodyAskedTwice == MCSpec => []SerialOneLiveOffer
<1>1. RideIInv => SerialOneLiveOffer
  BY DEF RideIInv, SerialIInv, Tables, SerialOneLiveOffer
<1> QED
  BY <1>1, RideInvariant, PTL

\* The driver of a ride is the one who accepted it, and the acceptance stands, while
\* handlers do not overlap.
LEMMA WinnersAccepted ==
  ASSUME AnyIInv, Winners
  PROVE  DriverAccepted
<1> SUFFICES ASSUME NEW r \in Rides
             PROVE  LET won == {i \in DOMAIN offers[r] : offers[r][i].status = "ACCEPTED"}
                    IN  IF ride[r].driver = NoDriver THEN won = {}
                        ELSE \E i \in won : won = {i} /\ offers[r][i].driver = ride[r].driver
  BY DEF DriverAccepted
<1> DEFINE won == {i \in DOMAIN offers[r] : offers[r][i].status = "ACCEPTED"}
<1>1. \A i \in won : <<r, i>> \in Made /\ Won(<<r, i>>)
  <2>1. \A i \in DOMAIN offers[r] : <<r, i>> \in Made
    BY AnyFacts, MadeIsMadeOf, MadeOfIs
  <2> QED
    BY <2>1 DEF Won, At
<1>2. CASE ride[r].driver = NoDriver
  BY <1>1, <1>2 DEF Winners
<1>3. CASE ride[r].driver # NoDriver
  <2>1. PICK o \in Made : /\ o[1] = r /\ Won(o) /\ At(o).driver = ride[r].driver
                          /\ \A p \in Made : p[1] = r /\ Won(p) => p = o
    BY <1>3 DEF Winners
  <2>2. o[2] \in won /\ offers[r][o[2]].driver = ride[r].driver
    BY <2>1, AnyFacts DEF Won, At
  <2>3. ASSUME NEW i \in won PROVE i = o[2]
    <3>1. PICK p \in Made : p = <<r, i>> /\ Won(p)
      BY <1>1
    <3>2. p[1] = r /\ p[2] = i
      BY <3>1
    <3> QED
      BY <2>1, <3>1, <3>2
  <2> QED
    BY <1>3, <2>2, <2>3
<1> QED
  BY <1>2, <1>3

THEOREM DriversAccepted == MCSpec => []SerialDriverAccepted
<1>1. RideIInv => SerialDriverAccepted
  BY WinnersAccepted DEF RideIInv, SerialIInv, Tables, SerialDriverAccepted
<1> QED
  BY <1>1, RideInvariant, PTL

-------------------------------------------------------------------------------
\* RideTrips, step by step. A step that keeps every ride among those that look, that
\* are under way or that ended is a stutter of it.
LEMMA TripsStutter ==
  ASSUME serial' = serial,
         \A r \in Rides : /\ ride'[r].status \in Looking <=> ride[r].status \in Looking
                          /\ ride'[r].status \in Active <=> ride[r].status \in Active
                          /\ ride'[r].status \in Terminal <=> ride[r].status \in Terminal
                          /\ ride'[r].driver = ride[r].driver
  PROVE  UNCHANGED SerialTrips!vars
BY DEF SerialTrips!vars

LEMMA TripCloses ==
  ASSUME serial, serial', NEW r \in Rides, ride[r].status \in Looking \union Active,
         ride'[r].status \in Terminal,
         \A q \in Rides : q # r => ride'[q].status = ride[q].status,
         \A q \in Rides : ride'[q].driver = ride[q].driver
  PROVE  SerialTrips!Close(r)
<1>1. ride'[r].status \notin Looking \union Active
  BY DEF Looking, Active, Terminal
<1> QED
  BY <1>1 DEF SerialTrips!Close

LEMMA BookTrip ==
  ASSUME AnyIInv, serial, serial', NEW r \in Rides, ride[r].status = "NONE",
         ride' = [ride EXCEPT ![r].status = "REQUESTED"]
  PROVE  SerialTrips!Book(r)
<1>1. /\ ride'[r].status = "REQUESTED"
      /\ \A q \in Rides : q # r => ride'[q] = ride[q]
      /\ \A q \in Rides : ride'[q].driver = ride[q].driver
  BY AnyFacts DEF RideRow
<1>2. /\ "NONE" \notin Looking \union Active \union Terminal
      /\ "REQUESTED" \in Looking /\ "REQUESTED" \notin Active \union Terminal
  BY DEF Looking, Active, Terminal
<1> QED
  BY <1>1, <1>2 DEF SerialTrips!Book

LEMMA ClaimTrip ==
  ASSUME AnyIInv, Tables, serial, serial', NEW o \in Made, CanClaim(o),
         ride' = [ride EXCEPT ![o[1]] = Assigned(@, At(o).driver)]
  PROVE  SerialTrips!Next
<1>0. PICK r \in Rides, d \in Drivers : r = o[1] /\ d = At(o).driver
  BY AnyFacts
<1>1. ride[r] \in RideRow /\ ride' = [ride EXCEPT ![r] = Assigned(@, d)]
  BY <1>0, AnyFacts
<1>2. /\ ride[r].status \in Looking /\ ride'[r].status = "DRIVER_ASSIGNED" /\ ride'[r].driver = d
      /\ \A q \in Rides : q # r => ride'[q] = ride[q]
  BY <1>0, <1>1, AnyFacts DEF CanClaim, Assigned, RideRow
<1>3. /\ "DRIVER_ASSIGNED" \in Active /\ "DRIVER_ASSIGNED" \notin Looking \union Terminal
      /\ ride[r].status \notin Active \union Terminal
  BY <1>2 DEF Looking, Active, Terminal
<1>4. \A q \in Rides : ride[q].status \in Active => ride[q].driver # d
  <2>1. count[d] = 0 /\ IsFiniteSet(Trips(d)) /\ count[d] = Cardinality(Trips(d))
    BY <1>0 DEF Tables, AskedAreFree, CountsAreTrips, CanClaim
  <2>2. Trips(d) = {}
    BY <2>1, FS_EmptySet
  <2> QED
    BY <2>2 DEF Trips
<1>5. SerialTrips!Claim(r, d)
  <2> DEFINE A == {q \in Rides : serial /\ ride[q].status \in Active}
             H == [q \in A |-> ride[q].driver]
             L == {q \in Rides : serial /\ ride[q].status \in Looking}
             T == {q \in Rides : serial /\ ride[q].status \in Terminal}
  <2>1. r \in L /\ L' = L \ {r} /\ T' = T
    BY <1>2, <1>3
  <2>2. A' = A \union {r} /\ r \notin A
    BY <1>2, <1>3
  <2>3. \A q \in A : H[q] = ride[q].driver /\ H[q] # d /\ ride'[q].driver = H[q]
    BY <1>2, <1>4, <2>2
  <2>4. d \notin {H[q] : q \in DOMAIN H}
    BY <2>3
  <2>5. H' = [q \in A \union {r} |-> IF q = r THEN d ELSE H[q]]
    BY <1>2, <2>2, <2>3
  <2>6. DOMAIN H = A
    OBVIOUS
  <2> QED
    BY <2>1, <2>4, <2>5, <2>6 DEF SerialTrips!Claim, SerialTrips!Busy
<1> QED
  BY <1>5 DEF SerialTrips!Next

\* The rides that a serial step touches.
LEMMA SerialRefines ==
  ASSUME AnyIInv, SerialIInv, serial, serial', Next
  PROVE  SerialTrips!Next \/ UNCHANGED SerialTrips!vars
<1>1. ASSUME RidesSame PROVE UNCHANGED SerialTrips!vars
  BY <1>1, TripsStutter DEF RidesSame
<1>2. ASSUME NEW r \in Rides, SerialTrips!Close(r) \/ SerialTrips!Book(r)
      PROVE  SerialTrips!Next
  BY <1>2 DEF SerialTrips!Next
<1>3. ASSUME NEW r \in Rides, NEW s, ride' = [ride EXCEPT ![r].status = s],
             \/ ride[r].status \in Looking /\ s \in Looking
             \/ ride[r].status \in Active /\ s \in Active
             \/ ride[r].status \in Looking \union Active /\ s \in Terminal
      PROVE  SerialTrips!Next \/ UNCHANGED SerialTrips!vars
  <2>1. /\ ride'[r].status = s /\ \A q \in Rides : q # r => ride'[q] = ride[q]
        /\ \A q \in Rides : ride'[q].driver = ride[q].driver
    BY <1>3, AnyFacts DEF RideRow
  <2>2. CASE s \in Terminal
    <3>1. ride[r].status \in Looking \union Active
      BY <1>3
    <3> QED
      BY <1>2, <2>1, <2>2, <3>1, TripCloses
  <2>3. CASE s \notin Terminal
    <3>1. /\ ride[r].status \in Looking <=> s \in Looking
          /\ ride[r].status \in Active <=> s \in Active
          /\ ride[r].status \notin Terminal
      BY <1>3, <2>3 DEF Looking, Active, Terminal
    <3> QED
      BY <2>1, <2>3, <3>1, TripsStutter
  <2> QED
    BY <2>2, <2>3
<1>4. ASSUME NEW w \in Workers, EndDispatch(w)
      PROVE  SerialTrips!Next \/ UNCHANGED SerialTrips!vars
  <2>1. PICK j \in DispatchJob : j = job[w]
    BY <1>4, AnyFacts, JobShape DEF EndDispatch, Dispatching
  <2>2. PICK r \in Rides : r = j.ride
    BY ThenIsJob
  <2>3. ride[r].status \in Looking
    BY <1>4, <2>1, <2>2 DEF SerialIInv, Knows, DispatchKnows, Dispatching, EndDispatch
  <2>4. PICK s \in {"SEARCHING", "NO_DRIVERS_FOUND"} : ride' = [ride EXCEPT ![r].status = s]
    BY <1>4, <2>1, <2>2 DEF EndDispatch, SetStatus
  <2>5. s \in Looking \/ s \in Terminal
    BY DEF Looking, Terminal
  <2> QED
    BY <1>3, <2>3, <2>4, <2>5
<1>5. ASSUME NEW w \in Workers, EndTrip(w)
      PROVE  SerialTrips!Next \/ UNCHANGED SerialTrips!vars
  <2>1. PICK j \in [pc : TripCalls, ride : Rides, driver : Drivers \union {NoDriver}] :
          j = job[w]
    BY <1>5, AnyFacts, JobShape DEF EndTrip
  <2>2. PICK op \in TripCalls, r \in Rides : op = j.pc /\ r = j.ride
    BY <2>1
  <2>3. ride[r].status \in From(op) /\ ride' = [ride EXCEPT ![r].status = To(op)]
    BY <1>5, <2>1, <2>2 DEF SerialIInv, Knows, EndTrip, SetStatus
  <2>4. \/ ride[r].status \in Active /\ To(op) \in Active
        \/ ride[r].status \in Looking \union Active /\ To(op) \in Terminal
    BY <2>3 DEF From, To, Looking, Active, Terminal, TripCalls, DriverCalls
  <2> QED
    BY <1>3, <2>3, <2>4
<1>6. ASSUME NEW w \in Workers, NEW r \in Rides, RequestRide(w, r) PROVE SerialTrips!Next
  BY <1>2, <1>6, BookTrip DEF RequestRide, SetStatus
<1>7. ASSUME NEW w \in Workers, AcceptOffer(w)
      PROVE  SerialTrips!Next \/ UNCHANGED SerialTrips!vars
  <2>1. PICK o \in Made : o = job[w].offer
    BY <1>7 DEF AnyIInv, Sound, AcceptOffer
  <2>2. CASE CanClaim(o)
    <3>1. ride' = [ride EXCEPT ![o[1]] = Assigned(@, At(o).driver)]
      BY <1>7, <2>1, <2>2 DEF AcceptOffer
    <3> QED
      BY <2>2, <3>1, ClaimTrip DEF SerialIInv
  <2>3. CASE ~CanClaim(o)
    BY <1>1, <1>7, <2>1, <2>3 DEF AcceptOffer, RidesSame
  <2> QED
    BY <2>2, <2>3
<1>8. ASSUME NEW r \in Rides, WindowCloses(r) PROVE RidesSame
  BY <1>8, AnyFacts DEF WindowCloses, RidesSame, RideRow
<1>9. ASSUME NEW w \in Workers,
             \/ Look(w) \/ Choose(w) \/ CreateOffer(w) \/ DeclineOffer(w) \/ CheckOffer(w)
             \/ RenewOffer(w) \/ ExpireOffer(w) \/ ReadStalled(w) \/ RetrySearch(w)
             \/ BeginSweep(w) \/ Crash(w)
             \/ \E r \in Rides, op \in TripCalls : BeginTrip(w, op, r)
             \/ \E o \in Made, answer \in {"accept", "decline"} : AnswerOffer(w, answer, o)
      PROVE  RidesSame
  BY <1>9 DEF Look, Choose, CreateOffer, DeclineOffer, CheckOffer, RenewOffer, ExpireOffer,
     ReadStalled, RetrySearch, BeginSweep, Crash, BeginTrip, AnswerOffer, RidesSame
<1>10. ASSUME \/ \E d \in Drivers : DriverChanges(d)
              \/ \E o \in Made : OfferLapses(o)
       PROVE  RidesSame
  BY <1>10 DEF DriverChanges, OfferLapses, RidesSame
<1> QED
  BY <1>1, <1>4, <1>5, <1>6, <1>7, <1>8, <1>9, <1>10 DEF Next, Step

\* Serial handlers keep the promise of RideTrips: a booked ride is claimed once, by a
\* driver who carries no other, or closed; and what is closed stays closed.
THEOREM RidesImplementTrips == MCSpec => ImplementsTrips
<1>1. MCInit => SerialTrips!Init
  <2> SUFFICES ASSUME MCInit PROVE SerialTrips!Init
    OBVIOUS
  <2>1. \A r \in Rides : ride[r].status \notin Looking \union Active \union Terminal
    BY DEF MCInit, Init, Looking, Active, Terminal
  <2> QED
    BY <2>1 DEF SerialTrips!Init
<1>2. ASSUME RideIInv, [MCNext]_MCVars PROVE [SerialTrips!Next]_(SerialTrips!vars)
  <2>1. serial' = serial
    BY <1>2 DEF MCNext, MCVars
  <2>2. CASE UNCHANGED MCVars
    BY <2>1, <2>2, TripsStutter DEF MCVars, vars
  <2>3. CASE ~serial
    BY <2>1, <2>3 DEF SerialTrips!vars
  <2>4. CASE MCNext /\ serial
    BY <1>2, <2>1, <2>4, SerialRefines DEF RideIInv, MCNext
  <2> QED
    BY <1>2, <2>2, <2>3, <2>4
<1> QED
  BY <1>1, <1>2, RideInvariant, PTL DEF MCSpec, ImplementsTrips, SerialTrips!Spec
===============================================================================
