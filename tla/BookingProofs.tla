----------------------------- MODULE BookingProofs -----------------------------
(***************************************************************************)
(* For any number of rooms, nights, guests, weeks, handlers and crashes: a *)
(* night is never sold beyond what is open and its count is the rooms of   *)
(* the stays that hold it, an arrival code is a paid booking, a hotel is   *)
(* credited exactly the rows of its settlement, and all of it together     *)
(* keeps the promise of RoomNights.                                        *)
(*                                                                         *)
(* Three arguments run side by side. The calendar is safe because a night  *)
(* that a transaction updated stays locked until its commit (OneUpdater),  *)
(* so what the WHERE or the CHECK saw still holds then (DoneFits). The     *)
(* stays are safe because every write that matters looks at the status     *)
(* again, except two that cannot meet the wrong row (NewIsNew, Known). The *)
(* weeks are safe because the row's unique key leaves one run in charge of *)
(* a week (OneSettler), which knows what was claimed and credited so far   *)
(* (SettlersKnow). The count of rooms needs a fourth: a release is alone   *)
(* with its booking and gives back what the booking has (RoomsStand).      *)
(***************************************************************************)
EXTENDS BookingSettlement, FiniteSetTheorems, TLAPS

OneUpdater == \A v, w \in Workers :
  v # w /\ InTx(v) /\ InTx(w) => job[v].done \intersect job[w].done = {}

DoneFits == \A w \in Workers :
  /\ job[w].pc = "hold" => \A n \in job[w].done : booked[n] + job[w].rooms <= open[n]
  /\ job[w].pc = "open" => \A n \in job[w].done : booked[n] <= job[w].rooms

CalendarFits == OneUpdater /\ DoneFits /\ NeverOverbooked

\* A stay is created for an id nobody else creates.
NewIsNew ==
  /\ \A w \in Workers : job[w].pc = "hold" => stay[job[w].id] = NoStay
  /\ \A v, w \in Workers :
       job[v].pc = "hold" /\ job[w].pc = "hold" /\ job[v].id = job[w].id => v = w

\* What a handler or a row takes for granted about a stay.
Known ==
  /\ \A w \in Workers :
       /\ job[w].pc = "checkout" => stay[job[w].id].status # "NONE"
       /\ job[w].pc = "confirm" => job[w].id \in charged
  /\ \A b \in Bookings :
       /\ stay[b].status # "NONE" => stay[b].rooms \in RoomCounts
       /\ stay[b].settledBy # Unsettled => stay[b].paidAt = stay[b].settledBy

StaysStand == NewIsNew /\ Known /\ PinIsMoney

InCharge(w, wk) == job[w].pc \in {"claim", "credit", "complete", "fail"} /\ job[w].week = wk
OneSettler == \A wk \in Weeks :
  /\ \A v, w \in Workers : InCharge(v, wk) /\ InCharge(w, wk) => v = w
  /\ settlement[wk] # "PENDING" => \A w \in Workers : ~InCharge(w, wk)
  /\ settlement[wk] = "NONE" => paidOut[wk] = {} /\ SettledBy(wk) = {}

Knows(w) ==
  /\ job[w].pc = "claim" => paidOut[job[w].week] = {} /\ SettledBy(job[w].week) = {}
  /\ job[w].pc = "credit" => paidOut[job[w].week] = {}
  /\ job[w].pc = "complete" => paidOut[job[w].week] = SettledBy(job[w].week)
SettlersKnow == \A w \in Workers : Knows(w)

WeeksStand == OneSettler /\ SettlersKnow /\ SettlementPaysItsRows

IInv == TypeOK /\ CalendarFits /\ StaysStand /\ WeeksStand

-------------------------------------------------------------------------------
LEMMA IdleIsJob == Idle \in Job /\ Idle.pc = "idle" /\ Idle \in After
BY DEF Job, HotelJob, After, Idle

LEMMA AtIsJob ==
  ASSUME NEW b \in Bookings, NEW pc \in {"accept", "checkout", "verify", "confirm"}
  PROVE  At(b, pc) \in Job /\ At(b, pc).pc = pc /\ At(b, pc).id = b
BY DEF Job, HotelJob, At

LEMMA AfterIsJob ==
  ASSUME NEW j \in After
  PROVE  j \in Job /\ j.pc \in {"idle", "sweep"}
BY DEF Job, HotelJob, After, SweepJob, Idle

\* A handler's program counter tells the shape of its record.
LEMMA JobShape ==
  ASSUME NEW j \in Job
  PROVE  /\ j.pc = "sweep" => j \in SweepJob
         /\ j.pc = "hold" => j \in [pc : {"hold"}, id : Bookings, nights : SUBSET Nights,
                                    rooms : RoomCounts, done : SUBSET Nights]
         /\ j.pc = "hold" => j.nights \in Spans /\ j.nights # {}
         /\ j.pc = "open" => j \in [pc : {"open"}, nights : SUBSET Nights, rooms : Rooms,
                                    done : SUBSET Nights]
         /\ j.pc = "unwind" => j \in [pc : {"unwind"}, id : Bookings, to : Ended, then : After]
         /\ j.pc = "release" => j \in [pc : {"release"}, id : Bookings, nights : SUBSET Nights,
                                       rooms : RoomCounts, done : SUBSET Nights, then : After]
         /\ j.pc \in {"accept", "checkout", "verify", "confirm"} => j.id \in Bookings
         /\ j.pc \in {"insert", "claim", "credit", "complete", "fail"} => j \in SettleJob
         /\ j.pc \in {"idle", "sweep", "hold", "open", "unwind", "release", "accept", "checkout",
                      "verify", "confirm", "insert", "claim", "credit", "complete", "fail"}
<1>1. ASSUME NEW nights \in Spans PROVE nights \subseteq Nights /\ nights # {}
  <2>1. PICK m \in Nights, n \in Nights : nights = m..n
    BY DEF Spans
  <2>2. nights \subseteq Nights
    <3> SUFFICES ASSUME NEW k \in m..n PROVE k \in Nights
      BY <2>1
    <3> QED
      BY BookingsConfig DEF Nights
  <2> QED
    BY <2>2 DEF Spans
<1> QED
  BY <1>1 DEF Job, HotelJob, SettleJob, After, SweepJob, Idle

LEMMA InitIInv == Init => IInv
<1> SUFFICES ASSUME Init PROVE IInv
  OBVIOUS
<1> USE DEF Init, HotelInit
<1>1. /\ \A w \in Workers : job[w] = Idle /\ job[w].pc = "idle"
      /\ \A b \in Bookings : stay[b] = NoStay
      /\ \A wk \in Weeks : SettledBy(wk) = {}
  BY IdleIsJob DEF SettledBy, NoStay, Unsettled, Weeks
<1>2. NoStay \in Stay
  BY DEF Stay, NoStay, Unpaid, Unsettled
<1>3. TypeOK
  <2>1. 0 \in Rooms /\ 1 \in Weeks /\ 0 \in 0..MaxCrashes
    BY BookingsConfig DEF Rooms, Weeks
  <2> QED
    BY <1>2, <2>1, IdleIsJob DEF TypeOK
<1>4. CalendarFits
  <2>1. NeverOverbooked
    BY BookingsConfig DEF NeverOverbooked, Rooms
  <2> QED
    BY <1>1, <2>1 DEF CalendarFits, OneUpdater, DoneFits, InTx
<1>5. StaysStand
  BY <1>1 DEF StaysStand, NewIsNew, Known, PinIsMoney, NoStay, Kept, Held, Unsettled
<1>6. WeeksStand
  BY <1>1 DEF WeeksStand, OneSettler, SettlersKnow, Knows, SettlementPaysItsRows, InCharge
<1> QED
  BY <1>3, <1>4, <1>5, <1>6 DEF IInv

-------------------------------------------------------------------------------
\* The three arguments, each for the steps that do not concern it.

Outside == {"idle", "sweep", "unwind", "accept", "verify", "insert"}

\* A handler at a point where it holds nothing the invariant is about.
Light(j) ==
  \/ j.pc \in Outside
  \/ j.pc \in {"open", "release"} /\ j.done = {}
  \/ j.pc = "checkout" /\ stay[j.id].status # "NONE"
  \/ j.pc = "confirm" /\ j.id \in charged

LEMMA CalendarFrame ==
  ASSUME CalendarFits, UNCHANGED calendar,
         \A w \in Workers : \/ job'[w] = job[w]
                            \/ ~InTx(w)'
                            \/ job'[w].done = {}
  PROVE  CalendarFits'
<1>1. open' = open /\ booked' = booked
  BY DEF calendar
<1>2. OneUpdater'
  BY DEF CalendarFits, OneUpdater, InTx
<1>3. DoneFits'
  BY <1>1 DEF CalendarFits, DoneFits, InTx
<1> QED
  BY <1>1, <1>2, <1>3 DEF CalendarFits, NeverOverbooked

\* How a row may change so that the arguments about stays and weeks go through.
Rewritten(b) ==
  LET old == stay[b]
      new == stay'[b]
  IN  /\ old.status # "NONE" /\ new.status # "NONE" /\ new.rooms = old.rooms
      /\ new.pins = IF new.status \in Kept THEN 1 ELSE 0
      /\ new.pins = 1 => b \in charged' /\ new.paidAt # Unpaid
      /\ new.settledBy = old.settledBy
      /\ new.settledBy # Unsettled => new.paidAt = old.paidAt /\ new.pins = 1

LEMMA StaysFrame ==
  ASSUME TypeOK, StaysStand, charged \subseteq charged',
         \A b \in Bookings : stay'[b] = stay[b] \/ Rewritten(b),
         \A w \in Workers : job'[w] = job[w] \/ (Light(job[w])' /\ job'[w].pc # "hold")
                              \/ job'[w].pc \in {"claim", "credit", "complete", "fail"}
                              \/ /\ job[w].pc \in {"hold", "open", "release"}
                                 /\ job'[w].pc = job[w].pc
                                 /\ job[w].pc = "hold" => job'[w].id = job[w].id
  PROVE  StaysStand'
<1>1. \A w \in Workers : job[w].pc \in {"hold", "checkout", "confirm"} => job[w].id \in Bookings
  BY JobShape DEF TypeOK
<1>2. \A w \in Workers : job'[w].pc = "hold" => job[w].pc = "hold" /\ job'[w].id = job[w].id
  BY DEF Light, Outside
<1>3. NewIsNew'
  <2>1. \A w \in Workers : job'[w].pc = "hold" => stay'[job'[w].id] = NoStay
    <3>1. NoStay.status = "NONE"
      BY DEF NoStay
    <3>2. \A b \in Bookings : stay[b] = NoStay => stay'[b] = NoStay
      BY <3>1 DEF Rewritten
    <3> QED
      BY <1>1, <1>2, <3>2 DEF StaysStand, NewIsNew
  <2> QED
    BY <1>2, <2>1 DEF StaysStand, NewIsNew
<1>4. Known'
  <2>1. ASSUME NEW w \in Workers
        PROVE  /\ job'[w].pc = "checkout" => stay'[job'[w].id].status # "NONE"
               /\ job'[w].pc = "confirm" => job'[w].id \in charged'
    <3>1. CASE job'[w] = job[w]
      BY <1>1, <3>1 DEF StaysStand, Known, Rewritten
    <3>2. CASE Light(job[w])'
      BY <3>2 DEF Light, Outside
    <3> QED
      BY <3>1, <3>2
  <2>2. ASSUME NEW b \in Bookings
        PROVE  /\ stay'[b].status # "NONE" => stay'[b].rooms \in RoomCounts
               /\ stay'[b].settledBy # Unsettled => stay'[b].paidAt = stay'[b].settledBy
    BY DEF StaysStand, Known, Rewritten
  <2> QED
    BY <2>1, <2>2 DEF Known
<1>5. PinIsMoney'
  BY DEF StaysStand, PinIsMoney, Rewritten
<1> QED
  BY <1>3, <1>4, <1>5 DEF StaysStand

LEMMA WeeksFrame ==
  ASSUME TypeOK, StaysStand, WeeksStand, UNCHANGED settleVars,
         \A b \in Bookings : stay'[b] = stay[b] \/ Rewritten(b)
                               \/ (stay[b] = NoStay /\ stay'[b].settledBy = Unsettled),
         \A w \in Workers : job'[w] = job[w]
                              \/ job'[w].pc \notin {"claim", "credit", "complete", "fail"}
  PROVE  WeeksStand'
<1>1. settlement' = settlement /\ paidOut' = paidOut
  BY DEF settleVars
<1>2. \A wk \in Weeks : SettledBy(wk)' = SettledBy(wk)
  <2> SUFFICES ASSUME NEW wk \in Weeks, NEW b \in Bookings
               PROVE  stay'[b].settledBy = wk <=> stay[b].settledBy = wk
    BY DEF SettledBy
  <2>1. NoStay.settledBy = Unsettled
    BY DEF NoStay
  <2> QED
    BY <2>1 DEF Rewritten
<1>3. \A w \in Workers :
        job'[w].pc \in {"claim", "credit", "complete", "fail"} => job'[w] = job[w]
  OBVIOUS
<1>4. \A w \in Workers :
        job[w].pc \in {"claim", "credit", "complete", "fail"} => job[w].week \in Weeks
  BY JobShape DEF TypeOK, SettleJob
<1>5. OneSettler'
  BY <1>1, <1>2, <1>3 DEF WeeksStand, OneSettler, InCharge
<1>6. SettlersKnow'
  BY <1>1, <1>2, <1>3, <1>4 DEF WeeksStand, SettlersKnow, Knows
<1>7. SettlementPaysItsRows'
  <2>1. \A wk \in Weeks : \A b \in paidOut[wk] : b \in Bookings /\ stay[b].settledBy = wk
    BY DEF TypeOK, WeeksStand, SettlementPaysItsRows, SettledBy
  <2>2. \A wk \in Weeks : \A b \in paidOut[wk] : stay'[b].paidAt = stay[b].paidAt
    <3> SUFFICES ASSUME NEW wk \in Weeks, NEW b \in paidOut[wk]
                 PROVE  stay'[b].paidAt = stay[b].paidAt
      OBVIOUS
    <3>1. wk # Unsettled
      BY DEF Weeks, Unsettled
    <3>2. stay[b] # NoStay
      BY <2>1, <3>1 DEF NoStay
    <3> QED
      BY <2>1, <3>1, <3>2 DEF Rewritten
  <2> QED
    BY <1>1, <1>2, <2>2 DEF WeeksStand, SettlementPaysItsRows
<1> QED
  BY <1>5, <1>6, <1>7 DEF WeeksStand

\* A step that leaves calendar and settlements alone: one handler goes on, or the guest,
\* the desk or the clock acts; rows change only as Rewritten says.
LEMMA Plain ==
  ASSUME IInv, job' \in [Workers -> Job],
         \A w \in Workers : job'[w] = job[w] \/ Light(job[w])',
         stay' \in [Bookings -> Stay], \A b \in Bookings : stay'[b] = stay[b] \/ Rewritten(b),
         charged \subseteq charged', charged' \subseteq Bookings, freed' = freed,
         week' \in Weeks, crashes' \in 0..MaxCrashes,
         UNCHANGED calendar, UNCHANGED settleVars
  PROVE  IInv'
<1>1. TypeOK'
  BY DEF IInv, TypeOK, calendar, settleVars
<1>2. ASSUME NEW w \in Workers, job'[w] # job[w]
      PROVE  /\ Light(job[w])'
             /\ job'[w].pc \notin {"hold", "claim", "credit", "complete", "fail"}
             /\ ~InTx(w)' \/ job'[w].done = {}
  BY <1>2 DEF Light, Outside, InTx
<1>3. CalendarFits'
  BY <1>2, CalendarFrame DEF IInv
<1>4. StaysStand'
  <2>1. \A w \in Workers : job'[w] = job[w] \/ (Light(job[w])' /\ job'[w].pc # "hold")
    BY <1>2
  <2>2. TypeOK /\ StaysStand
    BY DEF IInv
  <2> QED
    BY <2>1, <2>2, StaysFrame
<1>5. WeeksStand'
  <2>1. \A w \in Workers : job'[w] = job[w]
                              \/ job'[w].pc \notin {"claim", "credit", "complete", "fail"}
    BY <1>2
  <2>2. TypeOK /\ StaysStand /\ WeeksStand
    BY DEF IInv
  <2>3. \A b \in Bookings : stay'[b] = stay[b] \/ Rewritten(b)
                               \/ (stay[b] = NoStay /\ stay'[b].settledBy = Unsettled)
    OBVIOUS
  <2> QED
    BY <2>1, <2>2, <2>3, WeeksFrame
<1> QED
  BY <1>1, <1>3, <1>4, <1>5 DEF IInv

\* One handler goes on and no row changes.
LEMMA GoesOn ==
  ASSUME IInv, NEW w \in Workers, NEW j \in Job, Become(w, j), Light(job[w])',
         UNCHANGED <<calendar, stay, charged, freed, week, crashes>>, UNCHANGED settleVars
  PROVE  IInv'
<1>1. job' \in [Workers -> Job] /\ \A v \in Workers : v # w => job'[v] = job[v]
  BY DEF Become, IInv, TypeOK
<1>2. /\ stay' \in [Bookings -> Stay] /\ \A b \in Bookings : stay'[b] = stay[b]
      /\ charged \subseteq charged' /\ charged' \subseteq Bookings
      /\ week' \in Weeks /\ crashes' \in 0..MaxCrashes
  BY DEF IInv, TypeOK
<1>3. UNCHANGED calendar /\ freed' = freed
  OBVIOUS
<1> QED
  BY <1>1, <1>2, <1>3, Plain

LEMMA GoesOnOutside ==
  ASSUME IInv, NEW w \in Workers, NEW j \in Job, Become(w, j), j.pc \in Outside,
         UNCHANGED <<calendar, stay, charged, freed, week, crashes>>, UNCHANGED settleVars
  PROVE  IInv'
<1>1. job'[w] = j
  BY DEF Become, IInv, TypeOK
<1>2. Light(job[w])'
  BY <1>1 DEF Light
<1> QED
  BY <1>2, GoesOn

\* One handler writes a row and comes to rest.
LEMMA Writes ==
  ASSUME IInv, NEW w \in Workers, NEW j \in Job, Become(w, j), Light(job[w])',
         NEW b \in Bookings, NEW s \in Stay, SetStay(b, s), Rewritten(b),
         UNCHANGED <<calendar, charged, freed, week, crashes>>, UNCHANGED settleVars
  PROVE  IInv'
<1>1. job' \in [Workers -> Job] /\ \A v \in Workers : v # w => job'[v] = job[v]
  BY DEF Become, IInv, TypeOK
<1>2. /\ stay' \in [Bookings -> Stay] /\ \A c \in Bookings : stay'[c] = stay[c] \/ Rewritten(c)
      /\ charged \subseteq charged' /\ charged' \subseteq Bookings
      /\ week' \in Weeks /\ crashes' \in 0..MaxCrashes
  BY DEF IInv, TypeOK, SetStay
<1>3. UNCHANGED calendar /\ freed' = freed
  OBVIOUS
<1> QED
  BY <1>1, <1>2, <1>3, Plain

LEMMA JobIsTyped ==
  ASSUME IInv, NEW w \in Workers
  PROVE  job[w] \in Job
BY DEF IInv, TypeOK

LEMMA Row ==
  ASSUME IInv, NEW b \in Bookings
  PROVE  /\ stay[b] \in Stay
         /\ stay[b].status # "NONE" => stay[b].rooms \in RoomCounts
         /\ stay[b].pins = IF stay[b].status \in Kept THEN 1 ELSE 0
         /\ stay[b].pins = 1 => b \in charged /\ stay[b].paidAt # Unpaid
         /\ stay[b].settledBy # Unsettled => stay[b].pins = 1
BY DEF IInv, TypeOK, StaysStand, Known, PinIsMoney

-------------------------------------------------------------------------------
\* What begins a handler: calls of the guest and the hotel, and the sweep.
LEMMA CallKeepsIInv ==
  ASSUME IInv, NEW w \in Workers, NEW b \in Bookings, UNCHANGED settleVars,
         Accept(w, b) \/ Reject(w, b) \/ InitiatePayment(w, b) \/ ConfirmPayment(w, b)
  PROVE  IInv'
<1>1. CASE Accept(w, b)
  BY <1>1, AtIsJob, GoesOnOutside DEF Accept, Outside
<1>2. CASE ConfirmPayment(w, b)
  BY <1>2, AtIsJob, GoesOnOutside DEF ConfirmPayment, Outside
<1>3. CASE Reject(w, b)
  <2>1. Unwinding(b, "REJECTED", Idle) \in Job /\ Unwinding(b, "REJECTED", Idle).pc = "unwind"
    BY IdleIsJob DEF Unwinding, Job, HotelJob, Ended
  <2> QED
    BY <1>3, <2>1, GoesOnOutside DEF Reject, Outside
<1>4. CASE InitiatePayment(w, b)
  <2>1. job'[w] = At(b, "checkout") /\ stay'[b].status # "NONE"
    BY <1>4 DEF InitiatePayment, Become, IInv, TypeOK
  <2>2. Light(job[w])'
    BY <2>1, AtIsJob DEF Light
  <2> QED
    BY <1>4, <2>2, AtIsJob, GoesOn DEF InitiatePayment
<1> QED
  BY <1>1, <1>2, <1>3, <1>4

LEMMA SweepKeepsIInv ==
  ASSUME IInv, NEW w \in Workers, UNCHANGED settleVars, BeginSweep(w)
  PROVE  IInv'
<1> DEFINE j == [pc |-> "sweep", todo |-> {b \in Bookings : Overdue(b)}]
<1>1. j \in Job /\ j.pc = "sweep"
  BY DEF Job, HotelJob, After, SweepJob
<1>2. Become(w, j) /\ UNCHANGED <<calendar, stay, charged, freed, week, crashes>>
  BY DEF BeginSweep
<1> HIDE DEF j
<1> QED
  BY <1>1, <1>2, GoesOnOutside DEF Outside

LEMMA OpenKeepsIInv ==
  ASSUME IInv, NEW w \in Workers, NEW nights \in Spans, NEW rooms \in Rooms,
         UNCHANGED settleVars, OpenNights(w, nights, rooms)
  PROVE  IInv'
<1> DEFINE j == [pc |-> "open", nights |-> nights, rooms |-> rooms, done |-> {}]
<1>1. nights \subseteq Nights
  BY BookingsConfig DEF Spans, Nights
<1>2. j \in Job /\ j.pc = "open" /\ j.done = {}
  BY <1>1 DEF Job, HotelJob
<1>3. Become(w, j) /\ UNCHANGED <<calendar, stay, charged, freed, week, crashes>>
  BY DEF OpenNights
<1> HIDE DEF j
<1>4. Light(job[w])'
  BY <1>2, <1>3 DEF Become, Light, IInv, TypeOK
<1> QED
  BY <1>2, <1>3, <1>4, GoesOn

LEMMA CreateKeepsIInv ==
  ASSUME IInv, NEW w \in Workers, NEW b \in Bookings, NEW nights \in Spans,
         NEW rooms \in RoomCounts, UNCHANGED settleVars, Create(w, b, nights, rooms)
  PROVE  IInv'
<1> DEFINE j == [pc |-> "hold", id |-> b, nights |-> nights, rooms |-> rooms, done |-> {}]
<1>1. nights \subseteq Nights
  BY BookingsConfig DEF Spans, Nights
<1>2. j \in Job /\ j.pc = "hold" /\ j.id = b /\ j.done = {}
  BY <1>1 DEF Job, HotelJob
<1>3. Become(w, j) /\ UNCHANGED <<calendar, stay, charged, freed, week, crashes>>
  BY DEF Create
<1> HIDE DEF j
<1>4. /\ job' \in [Workers -> Job] /\ job'[w] = j
      /\ \A v \in Workers : v # w => job'[v] = job[v]
  BY <1>2, <1>3 DEF Become, IInv, TypeOK
<1>5. TypeOK'
  BY <1>3, <1>4 DEF IInv, TypeOK, calendar, settleVars
<1>6. CalendarFits'
  BY <1>2, <1>3, <1>4, CalendarFrame DEF IInv
<1>7. StaysStand'
  <2>1. NewIsNew'
    BY <1>2, <1>3, <1>4 DEF IInv, StaysStand, NewIsNew, Create
  <2>2. Known' /\ PinIsMoney'
    BY <1>2, <1>3, <1>4 DEF IInv, StaysStand, Known, PinIsMoney
  <2> QED
    BY <2>1, <2>2 DEF StaysStand
<1>8. WeeksStand'
  <2>1. \A c \in Bookings : stay'[c] = stay[c]
    BY <1>3
  <2> QED
    BY <1>2, <1>4, <2>1, WeeksFrame DEF IInv
<1> QED
  BY <1>5, <1>6, <1>7, <1>8 DEF IInv

-------------------------------------------------------------------------------
\* Transactions over nights.

\* A night is updated under its lock, and what the statement saw is written down.
LEMMA MarkKeepsIInv ==
  ASSUME IInv, NEW w \in Workers, NEW pc \in {"hold", "open", "release"}, NEW n \in Nights,
         Updates(w, pc, n), Mark(w, n),
         pc = "hold" => booked[n] + job[w].rooms <= open[n],
         pc = "open" => booked[n] <= job[w].rooms,
         UNCHANGED <<calendar, stay, charged, freed, week, crashes>>, UNCHANGED settleVars
  PROVE  IInv'
<1>1. PICK r \in Job : r = job[w]
  BY JobIsTyped
<1> DEFINE j == [r EXCEPT !.done = @ \union {n}]
<1>2. r.pc = pc
  BY <1>1 DEF Updates
<1>3. /\ j \in Job /\ j.pc = pc /\ j.done = r.done \union {n}
      /\ pc = "hold" => j.id = r.id
      /\ pc \in {"hold", "open"} => j.rooms = r.rooms
  <2>1. CASE pc = "hold"
    BY <1>2, <2>1, JobShape DEF Job, HotelJob
  <2>2. CASE pc = "open"
    BY <1>2, <2>2, JobShape DEF Job, HotelJob
  <2>3. CASE pc = "release"
    BY <1>2, <2>3, JobShape DEF Job, HotelJob
  <2> QED
    BY <2>1, <2>2, <2>3
<1>4. Become(w, j)
  BY <1>1 DEF Mark
<1> HIDE DEF j
<1>5. /\ job' \in [Workers -> Job] /\ job'[w] = j
      /\ \A v \in Workers : v # w => job'[v] = job[v]
  BY <1>3, <1>4 DEF Become, IInv, TypeOK
<1>6. TypeOK'
  BY <1>5 DEF IInv, TypeOK, calendar, settleVars
<1>7. CalendarFits'
  <2>1. open' = open /\ booked' = booked
    BY DEF calendar
  <2>2. OneUpdater'
    <3>1. \A v \in Workers : v # w /\ InTx(v) => n \notin job[v].done /\ job[v].done \intersect r.done = {}
      BY <1>1, <1>2 DEF Updates, Locked, IInv, CalendarFits, OneUpdater, InTx
    <3>2. \A u, v \in Workers : u # w /\ v # w /\ u # v /\ InTx(u) /\ InTx(v) =>
            job[u].done \intersect job[v].done = {}
      BY DEF IInv, CalendarFits, OneUpdater
    <3> QED
      BY <1>3, <1>5, <3>1, <3>2 DEF OneUpdater, InTx
  <2>3. DoneFits'
    BY <1>1, <1>2, <1>3, <1>5, <2>1 DEF IInv, CalendarFits, DoneFits
  <2>4. NeverOverbooked'
    BY <2>1 DEF IInv, CalendarFits, NeverOverbooked
  <2> QED
    BY <2>2, <2>3, <2>4 DEF CalendarFits
<1>8. StaysStand'
  <2>1. NewIsNew'
    BY <1>1, <1>2, <1>3, <1>5 DEF IInv, StaysStand, NewIsNew
  <2>2. Known' /\ PinIsMoney'
    BY <1>3, <1>5 DEF IInv, StaysStand, Known, PinIsMoney
  <2> QED
    BY <2>1, <2>2 DEF StaysStand
<1>9. WeeksStand'
  <2>1. \A b \in Bookings : stay'[b] = stay[b]
    OBVIOUS
  <2> QED
    BY <1>3, <1>5, <2>1, WeeksFrame DEF IInv
<1> QED
  BY <1>6, <1>7, <1>8, <1>9 DEF IInv

\* A transaction commits: the nights it changes are those it locked.
LEMMA CalendarCommits ==
  ASSUME IInv, NEW w \in Workers, InTx(w), NEW j \in Job, Become(w, j),
         j.pc \in {"idle", "sweep"},
         open' \in [Nights -> Rooms], booked' \in [Nights -> Rooms],
         \A n \in Nights : n \notin job[w].done => open'[n] = open[n] /\ booked'[n] = booked[n],
         \A n \in job[w].done : booked'[n] <= open'[n]
  PROVE  CalendarFits'
<1>1. /\ job'[w] = j /\ ~InTx(w)'
      /\ \A v \in Workers : v # w => job'[v] = job[v]
  BY DEF Become, IInv, TypeOK, InTx
<1>2. OneUpdater'
  BY <1>1 DEF IInv, CalendarFits, OneUpdater, InTx
<1>3. DoneFits'
  <2> SUFFICES ASSUME NEW v \in Workers
               PROVE  /\ job'[v].pc = "hold" =>
                           \A n \in job'[v].done : booked'[n] + job'[v].rooms <= open'[n]
                      /\ job'[v].pc = "open" => \A n \in job'[v].done : booked'[n] <= job'[v].rooms
    BY DEF DoneFits
  <2>1. CASE v = w
    BY <1>1, <2>1
  <2>2. CASE v # w
    <3>1. job[v].pc \in {"hold", "open"} =>
            \A n \in job[v].done : n \in Nights /\ n \notin job[w].done
      BY <2>2, JobIsTyped, JobShape DEF IInv, CalendarFits, OneUpdater, InTx
    <3> QED
      BY <1>1, <2>2, <3>1 DEF IInv, CalendarFits, DoneFits
  <2> QED
    BY <2>1, <2>2
<1>4. NeverOverbooked'
  BY DEF IInv, CalendarFits, NeverOverbooked
<1> QED
  BY <1>2, <1>3, <1>4 DEF CalendarFits

LEMMA CommitKeepsIInv ==
  ASSUME IInv, NEW w \in Workers, CommitHold(w) \/ CommitOpen(w) \/ CommitRelease(w),
         UNCHANGED settleVars
  PROVE  IInv'
<1>r. PICK r \in Job : r = job[w]
  BY JobIsTyped
<1>t. /\ open \in [Nights -> Rooms] /\ booked \in [Nights -> Rooms]
      /\ stay \in [Bookings -> Stay] /\ job \in [Workers -> Job]
      /\ \A n \in Nights : booked[n] <= open[n]
  BY DEF IInv, TypeOK, CalendarFits, NeverOverbooked
<1>1. CASE CommitHold(w)
  <2>1. /\ r \in [pc : {"hold"}, id : Bookings, nights : SUBSET Nights,
                  rooms : RoomCounts, done : SUBSET Nights]
        /\ r.done = r.nights
    BY <1>1, <1>r, JobShape DEF CommitHold, Whole
  <2>2. \A n \in r.done : booked[n] + r.rooms <= open[n]
    BY <2>1, <1>r DEF IInv, CalendarFits, DoneFits
  <2>3. /\ open' = open
        /\ booked' = [n \in Nights |-> booked[n] + IF n \in r.nights THEN r.rooms ELSE 0]
    BY <1>1, <1>r DEF CommitHold
  <2>4. \A n \in Nights : /\ booked'[n] \in Rooms
                          /\ n \notin r.done => booked'[n] = booked[n]
                          /\ n \in r.done => booked'[n] <= open'[n]
    <3> SUFFICES ASSUME NEW n \in Nights
                 PROVE  /\ booked'[n] \in Rooms
                        /\ n \notin r.done => booked'[n] = booked[n]
                        /\ n \in r.done => booked'[n] <= open'[n]
      OBVIOUS
    <3>1. /\ booked[n] \in 0..TotalRooms /\ open[n] \in 0..TotalRooms
          /\ r.rooms \in Nat /\ TotalRooms \in Nat
      BY <1>t, <2>1, BookingsConfig DEF Rooms
    <3> QED
      BY <2>1, <2>2, <2>3, <3>1 DEF Rooms
  <2>5. booked' \in [Nights -> Rooms] /\ open' \in [Nights -> Rooms]
    BY <1>t, <2>3, <2>4
  <2>6. Become(w, Idle)
    BY <1>1 DEF CommitHold
  <2>7. CalendarFits'
    BY <1>r, <2>1, <2>3, <2>4, <2>5, <2>6, IdleIsJob, CalendarCommits DEF InTx
  <2> DEFINE s == [NoStay EXCEPT !.status = "PENDING_HOTEL", !.nights = r.nights,
                                 !.rooms = r.rooms]
  <2>8. /\ s \in Stay /\ s.status = "PENDING_HOTEL" /\ s.rooms \in RoomCounts /\ s.pins = 0
        /\ s.settledBy = Unsettled
    BY <2>1 DEF NoStay, Stay, Held, Unpaid, Unsettled
  <2>9. stay' = [stay EXCEPT ![r.id] = s] /\ UNCHANGED <<charged, freed, week, crashes>>
    BY <1>1, <1>r DEF CommitHold, SetStay
  <2> HIDE DEF s
  <2>10. /\ job' \in [Workers -> Job] /\ job'[w] = Idle
         /\ \A v \in Workers : v # w => job'[v] = job[v]
    BY <1>t, <2>6, IdleIsJob DEF Become
  <2>11. /\ stay' \in [Bookings -> Stay] /\ stay'[r.id] = s
         /\ \A b \in Bookings : b # r.id => stay'[b] = stay[b]
    BY <1>t, <2>1, <2>8, <2>9
  <2>12. TypeOK'
    BY <2>5, <2>9, <2>10, <2>11 DEF IInv, TypeOK, settleVars
  <2>13. StaysStand'
    <3>1. NewIsNew'
      <4>1. \A v \in Workers : v # w /\ job[v].pc = "hold" => job[v].id # r.id /\ job[v].id \in Bookings
        BY <1>r, <2>1, JobIsTyped, JobShape DEF IInv, StaysStand, NewIsNew
      <4> QED
        BY <2>10, <2>11, <4>1, IdleIsJob DEF IInv, StaysStand, NewIsNew
    <3>2. Known'
      <4>1. \A v \in Workers : job[v].pc = "checkout" => job[v].id \in Bookings
        BY JobIsTyped, JobShape
      <4> QED
        BY <2>8, <2>9, <2>10, <2>11, <4>1, IdleIsJob DEF IInv, StaysStand, Known
    <3>3. PinIsMoney'
      BY <2>8, <2>9, <2>11 DEF IInv, StaysStand, PinIsMoney, Kept
    <3> QED
      BY <3>1, <3>2, <3>3 DEF StaysStand
  <2>14. WeeksStand'
    <3>1. stay[r.id] = NoStay
      BY <1>r, <2>1 DEF IInv, StaysStand, NewIsNew
    <3>2. \A b \in Bookings : stay'[b] = stay[b] \/ Rewritten(b)
                               \/ (stay[b] = NoStay /\ stay'[b].settledBy = Unsettled)
      BY <2>8, <2>11, <3>1
    <3> QED
      BY <2>10, <3>2, IdleIsJob, WeeksFrame DEF IInv
  <2> QED
    BY <2>7, <2>12, <2>13, <2>14 DEF IInv
<1>2. ASSUME NEW j \in After, Become(w, j), InTx(w), stay' = stay, charged' = charged,
             UNCHANGED <<week, crashes>>, freed' \in SUBSET Bookings,
             open' \in [Nights -> Rooms], booked' \in [Nights -> Rooms], CalendarFits'
      PROVE  IInv'
  <2>1. j \in Job /\ j.pc \in {"idle", "sweep"}
    BY <1>2, AfterIsJob
  <2>2. /\ job' \in [Workers -> Job] /\ job'[w] = j
        /\ \A v \in Workers : v # w => job'[v] = job[v]
    BY <1>t, <1>2, <2>1 DEF Become
  <2>3. TypeOK'
    BY <1>2, <2>2 DEF IInv, TypeOK, settleVars
  <2>4. StaysStand'
    <3>1. \A v \in Workers : job'[v] = job[v] \/ (Light(job[v])' /\ job'[v].pc # "hold")
      BY <2>1, <2>2 DEF Light, Outside
    <3>2. TypeOK /\ StaysStand /\ \A b \in Bookings : stay'[b] = stay[b]
      BY <1>2 DEF IInv
    <3> QED
      BY <1>2, <3>1, <3>2, StaysFrame
  <2>5. WeeksStand'
    <3>1. \A b \in Bookings : stay'[b] = stay[b]
      BY <1>2
    <3> QED
      BY <2>1, <2>2, <3>1, WeeksFrame DEF IInv
  <2> QED
    BY <1>2, <2>3, <2>4, <2>5 DEF IInv
<1>3. CASE CommitOpen(w)
  <2>1. /\ r \in [pc : {"open"}, nights : SUBSET Nights, rooms : Rooms, done : SUBSET Nights]
        /\ r.done = r.nights
    BY <1>3, <1>r, JobShape DEF CommitOpen, Whole
  <2>2. \A n \in r.done : booked[n] <= r.rooms
    BY <2>1, <1>r DEF IInv, CalendarFits, DoneFits
  <2>3. /\ booked' = booked
        /\ open' = [n \in Nights |-> IF n \in r.nights THEN r.rooms ELSE open[n]]
    BY <1>3, <1>r DEF CommitOpen
  <2>4. open' \in [Nights -> Rooms] /\ booked' \in [Nights -> Rooms]
    BY <1>t, <2>1, <2>3
  <2>5. Become(w, Idle)
    BY <1>3 DEF CommitOpen
  <2>6. CalendarFits'
    BY <1>r, <2>1, <2>2, <2>3, <2>4, <2>5, IdleIsJob, CalendarCommits DEF InTx
  <2>7. /\ stay' = stay /\ charged' = charged /\ UNCHANGED <<week, crashes>>
        /\ freed' \in SUBSET Bookings
    BY <1>3 DEF CommitOpen, IInv, TypeOK
  <2> QED
    BY <1>2, <1>r, <2>1, <2>4, <2>5, <2>6, <2>7, IdleIsJob DEF InTx
<1>4. CASE CommitRelease(w)
  <2>1. /\ r \in [pc : {"release"}, id : Bookings, nights : SUBSET Nights, rooms : RoomCounts,
                  done : SUBSET Nights, then : After]
        /\ r.done = r.nights
    BY <1>4, <1>r, JobShape DEF CommitRelease, Whole
  <2>2. /\ open' = open
        /\ booked' = [n \in Nights |-> IF n \in r.nights THEN Lowered(n, r.rooms) ELSE booked[n]]
    BY <1>4, <1>r DEF CommitRelease
  <2>3. \A n \in Nights : /\ booked'[n] \in Rooms
                          /\ n \notin r.done => booked'[n] = booked[n]
                          /\ n \in r.done => booked'[n] <= open'[n]
    <3> SUFFICES ASSUME NEW n \in Nights
                 PROVE  /\ booked'[n] \in Rooms
                        /\ n \notin r.done => booked'[n] = booked[n]
                        /\ n \in r.done => booked'[n] <= open'[n]
      OBVIOUS
    <3>1. /\ booked[n] \in 0..TotalRooms /\ open[n] \in 0..TotalRooms /\ booked[n] <= open[n]
          /\ r.rooms \in Nat /\ TotalRooms \in Nat
      BY <1>t, <2>1, BookingsConfig DEF Rooms
    <3>2. Lowered(n, r.rooms) \in 0..TotalRooms /\ Lowered(n, r.rooms) <= booked[n]
      BY <3>1 DEF Lowered
    <3> QED
      BY <2>1, <2>2, <3>1, <3>2 DEF Rooms
  <2>4. open' \in [Nights -> Rooms] /\ booked' \in [Nights -> Rooms]
    BY <1>t, <2>2, <2>3
  <2>5. r.then \in After /\ Become(w, r.then)
    BY <1>4, <1>r, <2>1 DEF CommitRelease
  <2>6. r.then \in Job /\ r.then.pc \in {"idle", "sweep"}
    BY <2>5, AfterIsJob
  <2>7. CalendarFits'
    BY <1>r, <2>1, <2>2, <2>3, <2>4, <2>5, <2>6, CalendarCommits DEF InTx
  <2>8. /\ stay' = stay /\ charged' = charged /\ UNCHANGED <<week, crashes>>
        /\ freed' \in SUBSET Bookings
    BY <1>4, <1>r, <2>1 DEF CommitRelease, IInv, TypeOK
  <2> QED
    BY <1>2, <1>r, <2>1, <2>4, <2>5, <2>7, <2>8 DEF InTx
<1> QED
  BY <1>1, <1>3, <1>4

-------------------------------------------------------------------------------
\* The other statements of the hotel's handlers.
LEMMA HotelStepKeepsIInv ==
  ASSUME IInv, NEW w \in Workers, HotelStep(w), UNCHANGED settleVars
  PROVE  IInv'
<1>r. PICK r \in Job : r = job[w]
  BY JobIsTyped
<1>t. job \in [Workers -> Job] /\ stay \in [Bookings -> Stay]
  BY DEF IInv, TypeOK
<1>l. Idle \in Job /\ Idle.pc \in Outside
  BY IdleIsJob DEF Outside
<1>1. CASE HoldNight(w)
  <2>1. UNCHANGED <<calendar, stay, charged, freed, week, crashes>>
    BY <1>1 DEF HoldNight
  <2>2. CASE Become(w, Idle)
    BY <1>l, <2>1, <2>2, GoesOnOutside
  <2>3. ASSUME NEW n \in Nights, Updates(w, "hold", n), Fits(n, job[w].rooms), Mark(w, n)
        PROVE  IInv'
    BY <2>1, <2>3, MarkKeepsIInv DEF Fits
  <2> QED
    BY <1>1, <2>2, <2>3 DEF HoldNight
<1>2. CASE OpenNight(w)
  <2>1. UNCHANGED <<calendar, stay, charged, freed, week, crashes>>
    BY <1>2 DEF OpenNight
  <2>2. CASE Become(w, Idle)
    BY <1>l, <2>1, <2>2, GoesOnOutside
  <2>3. ASSUME NEW n \in Nights, Updates(w, "open", n), Check(n, booked[n], job[w].rooms),
               Mark(w, n)
        PROVE  IInv'
    BY <2>1, <2>3, MarkKeepsIInv DEF Check
  <2> QED
    BY <1>2, <2>2, <2>3 DEF OpenNight
<1>3. CASE ReleaseNight(w)
  <2>1. PICK n \in Nights : Updates(w, "release", n) /\ Mark(w, n)
    BY <1>3 DEF ReleaseNight
  <2> QED
    BY <1>3, <2>1, MarkKeepsIInv DEF ReleaseNight
<1>4. CASE CommitHold(w) \/ CommitOpen(w) \/ CommitRelease(w)
  BY <1>4, CommitKeepsIInv
<1>5. CASE SweepNext(w)
  <2>1. r \in SweepJob /\ UNCHANGED <<calendar, stay, charged, freed, week, crashes>>
    BY <1>5, <1>r, JobShape DEF SweepNext
  <2>2. CASE Become(w, Idle)
    BY <1>l, <2>1, <2>2, GoesOnOutside
  <2>3. ASSUME NEW b \in r.todo, Become(w, Unwinding(b, "EXPIRED", [r EXCEPT !.todo = @ \ {b}]))
        PROVE  IInv'
    <3>1. b \in Bookings /\ [r EXCEPT !.todo = @ \ {b}] \in After
      BY <2>1, <2>3 DEF SweepJob, After
    <3> DEFINE j == Unwinding(b, "EXPIRED", [r EXCEPT !.todo = @ \ {b}])
    <3>2. j \in Job /\ j.pc \in Outside
      BY <3>1 DEF Unwinding, Job, HotelJob, Ended, Outside
    <3> HIDE DEF j
    <3> QED
      BY <2>1, <2>3, <3>2, GoesOnOutside DEF j
  <2> QED
    BY <1>5, <1>r, <2>2, <2>3 DEF SweepNext
<1>6. CASE Verify(w)
  <2>1. r.id \in Bookings /\ UNCHANGED <<calendar, stay, charged, freed, week, crashes>>
    BY <1>6, <1>r, JobShape DEF Verify
  <2>2. CASE Become(w, Idle)
    BY <1>l, <2>1, <2>2, GoesOnOutside
  <2>3. CASE r.id \in charged /\ Become(w, At(r.id, "confirm"))
    <3>1. job'[w] = At(r.id, "confirm")
      BY <2>3, <1>t DEF Become
    <3>2. At(r.id, "confirm") \in Job /\ At(r.id, "confirm").pc = "confirm"
          /\ At(r.id, "confirm").id = r.id
      BY <2>1, AtIsJob
    <3>3. Light(job[w])'
      BY <2>1, <2>3, <3>1, <3>2 DEF Light
    <3> QED
      BY <2>1, <2>3, <3>2, <3>3, GoesOn
  <2> QED
    BY <1>6, <1>r, <2>2, <2>3 DEF Verify
\* A row is written, or was found in another status.
<1>7. ASSUME NEW b \in Bookings, NEW s \in Stay, SetStay(b, s), Become(w, Idle),
             UNCHANGED <<calendar, charged, freed, week, crashes>>,
             stay[b].status # "NONE", s.status # "NONE", s.rooms = stay[b].rooms,
             s.settledBy = stay[b].settledBy,
             s.pins = IF s.status \in Kept THEN 1 ELSE 0,
             s.pins = 1 => b \in charged /\ s.paidAt # Unpaid,
             s.settledBy # Unsettled => s.paidAt = stay[b].paidAt /\ s.pins = 1
      PROVE  IInv'
  <2>1. stay'[b] = s
    BY <1>7, <1>t DEF SetStay
  <2>2. Rewritten(b)
    BY <1>7, <2>1 DEF Rewritten
  <2>3. Light(job[w])'
    BY <1>7, <1>l, <1>t DEF Become, Light
  <2> QED
    BY <1>7, <1>l, <2>2, <2>3, Writes
<1>8. CASE AcceptWrite(w)
  <2>1. r.id \in Bookings /\ Become(w, Idle) /\ UNCHANGED <<calendar, charged, freed, week, crashes>>
    BY <1>8, <1>r, JobShape DEF AcceptWrite
  <2>2. CASE UNCHANGED stay
    BY <1>l, <2>1, <2>2, GoesOnOutside
  <2>3. CASE /\ stay[r.id].status = "PENDING_HOTEL"
             /\ SetStay(r.id, [stay[r.id] EXCEPT !.status = "AWAITING_PAYMENT", !.late = FALSE])
    <3> DEFINE s == [stay[r.id] EXCEPT !.status = "AWAITING_PAYMENT", !.late = FALSE]
    <3>1. /\ s \in Stay /\ s.status = "AWAITING_PAYMENT" /\ s.rooms = stay[r.id].rooms
          /\ s.settledBy = stay[r.id].settledBy /\ s.pins = stay[r.id].pins
      BY <2>1, Row DEF Stay, Held
    <3>2. stay[r.id].pins = 0 /\ stay[r.id].settledBy = Unsettled
      BY <2>1, <2>3, Row DEF Kept
    <3>3. SetStay(r.id, s)
      BY <2>3
    <3> HIDE DEF s
    <3> QED
      BY <1>7, <2>1, <2>3, <3>1, <3>2, <3>3 DEF Kept
  <2> QED
    BY <1>8, <1>r, <2>2, <2>3 DEF AcceptWrite
<1>9. CASE SaveReference(w)
  <2>1. r.id \in Bookings /\ Become(w, Idle) /\ UNCHANGED <<calendar, charged, freed, week, crashes>>
    BY <1>9, <1>r, JobShape DEF SaveReference
  <2>2. stay[r.id].status # "NONE"
    BY <1>9, <1>r DEF SaveReference, IInv, StaysStand, Known
  <2> DEFINE s == [stay[r.id] EXCEPT !.reference = TRUE]
  <2>3. /\ s \in Stay /\ s.status = stay[r.id].status /\ s.rooms = stay[r.id].rooms
        /\ s.settledBy = stay[r.id].settledBy /\ s.pins = stay[r.id].pins
        /\ s.paidAt = stay[r.id].paidAt
    BY <2>1, Row DEF Stay
  <2>4. SetStay(r.id, s)
    BY <1>9, <1>r DEF SaveReference
  <2> HIDE DEF s
  <2> QED
    BY <1>7, <2>1, <2>2, <2>3, <2>4, Row
<1>10. CASE Confirm(w)
  <2>1. r.id \in Bookings /\ Become(w, Idle) /\ UNCHANGED <<calendar, charged, freed, week, crashes>>
    BY <1>10, <1>r, JobShape DEF Confirm
  <2>2. CASE UNCHANGED stay
    BY <1>l, <2>1, <2>2, GoesOnOutside
  <2>3. CASE /\ stay[r.id].status = "AWAITING_PAYMENT"
             /\ SetStay(r.id, [stay[r.id] EXCEPT !.status = "CONFIRMED", !.paidAt = week,
                                                  !.pins = @ + 1])
    <3>1. stay[r.id].pins = 0 /\ stay[r.id].settledBy = Unsettled
      BY <2>1, <2>3, Row DEF Kept
    <3>2. week \in Weeks /\ week # Unpaid
      BY DEF IInv, TypeOK, Weeks, Unpaid
    <3> DEFINE s == [stay[r.id] EXCEPT !.status = "CONFIRMED", !.paidAt = week, !.pins = 1]
    <3>3. /\ s \in Stay /\ s.status = "CONFIRMED" /\ s.rooms = stay[r.id].rooms
          /\ s.settledBy = stay[r.id].settledBy /\ s.pins = 1 /\ s.paidAt = week
      BY <2>1, <3>2, Row DEF Stay, Kept
    <3>4. SetStay(r.id, s)
      BY <2>3, <3>1
    <3>5. r.id \in charged
      BY <1>10, <1>r DEF Confirm, IInv, StaysStand, Known
    <3> HIDE DEF s
    <3> QED
      BY <1>7, <2>1, <2>3, <3>1, <3>2, <3>3, <3>4, <3>5 DEF Kept
  <2> QED
    BY <1>10, <1>r, <2>2, <2>3 DEF Confirm, Confirmable
<1>11. CASE Unwind(w)
  <2>1. /\ r \in [pc : {"unwind"}, id : Bookings, to : Ended, then : After]
        /\ UNCHANGED <<calendar, charged, freed, week, crashes>>
    BY <1>11, <1>r, JobShape DEF Unwind
  <2>2. r.id \in Bookings /\ r.to \in Ended /\ r.then \in Job /\ r.then.pc \in Outside
        /\ r.then \in After
    BY <2>1, AfterIsJob DEF Outside
  <2>3. CASE Become(w, r.then) /\ UNCHANGED stay
    BY <2>1, <2>2, <2>3, GoesOnOutside
  <2> DEFINE s == [stay[r.id] EXCEPT !.status = r.to]
             j == [pc |-> "release", id |-> r.id, nights |-> stay[r.id].nights,
                   rooms |-> stay[r.id].rooms, done |-> {}, then |-> r.then]
  <2>4. CASE stay[r.id].status \in Held /\ SetStay(r.id, s) /\ Become(w, j)
    <3>1. /\ s \in Stay /\ s.status = r.to /\ s.rooms = stay[r.id].rooms
          /\ s.settledBy = stay[r.id].settledBy /\ s.pins = stay[r.id].pins
      BY <2>2, Row DEF Stay
    <3>2. stay[r.id].pins = 0 /\ stay[r.id].settledBy = Unsettled
      BY <2>2, <2>4, Row DEF Kept, Held
    <3>3. stay[r.id].rooms \in RoomCounts /\ stay[r.id].nights \in SUBSET Nights
      BY <2>2, <2>4, Row DEF Held, Stay
    <3>4. j \in Job /\ j.pc = "release" /\ j.done = {}
      BY <2>2, <3>3 DEF Job, HotelJob
    <3> HIDE DEF s, j
    <3>5. job'[w] = j /\ stay'[r.id] = s
      BY <2>2, <2>4, <3>4, <1>t DEF Become, SetStay
    <3>6. Light(job[w])'
      BY <3>4, <3>5 DEF Light
    <3>7. Rewritten(r.id)
      BY <2>2, <2>4, <3>1, <3>2, <3>5 DEF Rewritten, Held, Ended, Kept
    <3> QED
      BY <2>1, <2>2, <2>4, <3>1, <3>4, <3>6, <3>7, Writes
  <2> QED
    BY <1>11, <1>r, <2>3, <2>4 DEF Unwind, Unwindable
<1> QED
  BY <1>1, <1>2, <1>3, <1>4, <1>5, <1>6, <1>8, <1>9, <1>10, <1>11 DEF HotelStep

\* The guest, the desk, the clock and the end of a process.
LEMMA OutsideKeepsIInv ==
  ASSUME IInv, UNCHANGED settleVars,
         \/ \E w \in Workers : Crash(w)
         \/ \E b \in Bookings :
              \/ GuestPays(b) \/ WindowCloses(b)
              \/ Desk(b, "CONFIRMED", "CHECKED_IN") \/ Desk(b, "CHECKED_IN", "CHECKED_OUT")
              \/ Desk(b, "CONFIRMED", "NO_SHOW")
         \/ WeekEnds
  PROVE  IInv'
<1>t. /\ job \in [Workers -> Job] /\ stay \in [Bookings -> Stay] /\ charged \in SUBSET Bookings
      /\ week \in Weeks /\ crashes \in 0..MaxCrashes
  BY DEF IInv, TypeOK
<1>1. ASSUME NEW w \in Workers, Crash(w) PROVE IInv'
  <2>1. /\ job' \in [Workers -> Job] /\ job'[w] = Idle
        /\ \A v \in Workers : v # w => job'[v] = job[v]
    BY <1>1, <1>t, IdleIsJob DEF Crash, Become
  <2>2. Light(job[w])'
    BY <2>1, IdleIsJob DEF Light, Outside
  <2>3. crashes' \in 0..MaxCrashes
    BY <1>1, <1>t, BookingsConfig DEF Crash
  <2>4. /\ UNCHANGED <<stay, charged, week>> /\ freed' = freed /\ UNCHANGED calendar
    BY <1>1 DEF Crash
  <2> QED
    BY <1>t, <2>1, <2>2, <2>3, <2>4, Plain
<1>2. ASSUME NEW b \in Bookings, GuestPays(b) PROVE IInv'
  <2>1. /\ job' = job /\ stay' = stay /\ charged \subseteq charged' /\ charged' \subseteq Bookings
        /\ freed' = freed /\ week' = week /\ crashes' = crashes /\ UNCHANGED calendar
    BY <1>2, <1>t DEF GuestPays
  <2> QED
    BY <1>t, <2>1, Plain
<1>3. CASE WeekEnds
  <2>1. week' \in Weeks
    BY <1>3, <1>t, BookingsConfig DEF WeekEnds, Weeks
  <2>2. /\ job' = job /\ stay' = stay /\ charged' = charged
        /\ freed' = freed /\ crashes' = crashes /\ UNCHANGED calendar
    BY <1>3 DEF WeekEnds
  <2> QED
    BY <1>t, <2>1, <2>2, Plain
<1>4. ASSUME NEW b \in Bookings, NEW s \in Stay, SetStay(b, s),
             UNCHANGED <<calendar, charged, freed, week, job, crashes>>,
             stay[b].status # "NONE", s.status # "NONE", s.rooms = stay[b].rooms,
             s.settledBy = stay[b].settledBy, s.paidAt = stay[b].paidAt,
             s.pins = stay[b].pins, s.status \in Kept <=> stay[b].status \in Kept
      PROVE  IInv'
  <2>1. stay'[b] = s /\ stay' \in [Bookings -> Stay] /\ \A c \in Bookings : c # b => stay'[c] = stay[c]
    BY <1>4, <1>t DEF SetStay
  <2>2. Rewritten(b)
    BY <1>4, <2>1, Row DEF Rewritten
  <2>3. UNCHANGED calendar /\ freed' = freed
    BY <1>4
  <2> QED
    BY <1>4, <1>t, <2>1, <2>2, <2>3, Plain
<1>5. ASSUME NEW b \in Bookings, WindowCloses(b) PROVE IInv'
  <2> DEFINE s == [stay[b] EXCEPT !.late = TRUE]
  <2>1. /\ s \in Stay /\ s.status = stay[b].status /\ s.rooms = stay[b].rooms
        /\ s.settledBy = stay[b].settledBy /\ s.paidAt = stay[b].paidAt /\ s.pins = stay[b].pins
    BY Row DEF Stay
  <2>2. SetStay(b, s) /\ stay[b].status # "NONE"
        /\ UNCHANGED <<calendar, charged, freed, week, job, crashes>>
    BY <1>5 DEF WindowCloses, Held
  <2> HIDE DEF s
  <2> QED
    BY <1>4, <2>1, <2>2
<1>6. ASSUME NEW b \in Bookings, NEW from \in Kept, NEW to \in Kept, Desk(b, from, to) PROVE IInv'
  <2> DEFINE s == [stay[b] EXCEPT !.status = to]
  <2>1. /\ s \in Stay /\ s.status = to /\ s.rooms = stay[b].rooms
        /\ s.settledBy = stay[b].settledBy /\ s.paidAt = stay[b].paidAt /\ s.pins = stay[b].pins
    BY Row DEF Stay
  <2>2. SetStay(b, s) /\ stay[b].status \in Kept
        /\ UNCHANGED <<calendar, charged, freed, week, job, crashes>>
    BY <1>6 DEF Desk
  <2> HIDE DEF s
  <2> QED
    BY <1>4, <2>1, <2>2 DEF Kept
<1>7. ASSUME NEW b \in Bookings,
             \/ Desk(b, "CONFIRMED", "CHECKED_IN") \/ Desk(b, "CHECKED_IN", "CHECKED_OUT")
             \/ Desk(b, "CONFIRMED", "NO_SHOW")
      PROVE  IInv'
  BY <1>6, <1>7 DEF Kept
<1> QED
  BY <1>1, <1>2, <1>3, <1>5, <1>7

-------------------------------------------------------------------------------
\* The weekly run. One handler goes on; calendar and stays are not its business.
LEMMA SettlerFrame ==
  ASSUME IInv, NEW w \in Workers, NEW j \in Job, Become(w, j),
         j.pc \in Outside \union {"claim", "credit", "complete", "fail"},
         UNCHANGED <<calendar, charged, freed, week, crashes>>,
         \A b \in Bookings : stay'[b] = stay[b], stay' \in [Bookings -> Stay],
         settlement' \in [Weeks -> {"NONE", "PENDING", "COMPLETED", "FAILED"}],
         paidOut' \in [Weeks -> SUBSET Bookings]
  PROVE  TypeOK' /\ CalendarFits' /\ StaysStand'
<1>1. /\ job' \in [Workers -> Job] /\ job'[w] = j
      /\ \A v \in Workers : v # w => job'[v] = job[v]
  BY DEF Become, IInv, TypeOK
<1>2. TypeOK'
  BY <1>1 DEF IInv, TypeOK, calendar
<1>3. CalendarFits'
  <2>1. ~InTx(w)'
    BY <1>1 DEF InTx, Outside
  <2> QED
    BY <1>1, <2>1, CalendarFrame DEF IInv
<1>4. StaysStand'
  <2>1. \A v \in Workers : \/ job'[v] = job[v]
                           \/ Light(job[v])' /\ job'[v].pc # "hold"
                           \/ job'[v].pc \in {"claim", "credit", "complete", "fail"}
    BY <1>1 DEF Light, Outside
  <2> QED
    BY <2>1, StaysFrame DEF IInv
<1> QED
  BY <1>2, <1>3, <1>4

LEMMA SettleWeekKeepsIInv ==
  ASSUME IInv, NEW w \in Workers, SettleWeek(w)
  PROVE  IInv'
<1> DEFINE j == [pc |-> "insert", week |-> week - 1,
                 owed |-> {b \in Bookings : Claimable(b, week - 1)}]
<1>1. week - 1 \in Weeks
  BY BookingsConfig DEF SettleWeek, IInv, TypeOK, Weeks
<1>2. j \in Job /\ j.pc \in Outside
  BY <1>1 DEF Job, SettleJob, Outside
<1>3. Become(w, j) /\ UNCHANGED <<calendar, stay, charged, freed, week, crashes>>
      /\ UNCHANGED settleVars
  BY DEF SettleWeek, settleVars
<1> HIDE DEF j
<1> QED
  BY <1>2, <1>3, GoesOnOutside

\* A run that may write to its week is the only one, and the row is PENDING.
LEMMA SettlerIsAlone ==
  ASSUME IInv, NEW w \in Workers, job[w].pc \in {"claim", "credit", "complete", "fail"}
  PROVE  /\ job[w] \in SettleJob /\ job[w].week \in Weeks
         /\ settlement[job[w].week] = "PENDING"
         /\ \A v \in Workers : InCharge(v, job[w].week) => v = w
<1>1. job[w] \in SettleJob /\ job[w].week \in Weeks
  BY JobIsTyped, JobShape DEF SettleJob
<1>2. InCharge(w, job[w].week)
  BY DEF InCharge
<1> QED
  BY <1>1, <1>2 DEF IInv, WeeksStand, OneSettler

LEMMA InsertKeepsIInv ==
  ASSUME IInv, NEW w \in Workers, InsertRow(w)
  PROVE  IInv'
<1>r. PICK r \in Job : r = job[w]
  BY JobIsTyped
<1>t. /\ job \in [Workers -> Job] /\ stay \in [Bookings -> Stay]
      /\ settlement \in [Weeks -> {"NONE", "PENDING", "COMPLETED", "FAILED"}]
      /\ paidOut \in [Weeks -> SUBSET Bookings]
  BY DEF IInv, TypeOK
<1>1. /\ r \in SettleJob /\ UNCHANGED <<calendar, charged, freed, week, crashes>>
      /\ stay' = stay /\ paidOut' = paidOut
  BY <1>r, JobShape DEF InsertRow
<1>2. r.week \in Weeks
  BY <1>1 DEF SettleJob
<1>3. CASE Become(w, Idle) /\ UNCHANGED settlement
  <2>1. Idle \in Job /\ Idle.pc \in Outside
    BY IdleIsJob DEF Outside
  <2> QED
    BY <1>1, <1>3, <2>1, GoesOnOutside DEF settleVars
<1> DEFINE j == [r EXCEPT !.pc = "claim"]
<1>4. CASE /\ settlement[r.week] = "NONE"
           /\ settlement' = [settlement EXCEPT ![r.week] = "PENDING"]
           /\ Become(w, j)
  <2>1. j \in Job /\ j.pc = "claim" /\ j.week = r.week
    BY <1>1 DEF Job, SettleJob
  <2> HIDE DEF j
  <2>2. job'[w] = j /\ \A v \in Workers : v # w => job'[v] = job[v]
    BY <1>4, <1>t DEF Become
  <2>3. TypeOK' /\ CalendarFits' /\ StaysStand'
    BY <1>1, <1>4, <1>t, <2>1, SettlerFrame
  <2>4. \A wk \in Weeks : SettledBy(wk)' = SettledBy(wk)
    BY <1>1 DEF SettledBy
  <2>5. /\ \A v \in Workers : ~InCharge(v, r.week)
        /\ paidOut[r.week] = {} /\ SettledBy(r.week) = {}
    BY <1>2, <1>4 DEF IInv, WeeksStand, OneSettler
  <2>6. \A wk \in Weeks, v \in Workers :
          InCharge(v, wk)' <=> InCharge(v, wk) \/ (v = w /\ wk = r.week)
    BY <1>r, <1>1, <2>1, <2>2 DEF InCharge, SettleJob
  <2>7. /\ settlement'[r.week] = "PENDING"
        /\ \A wk \in Weeks : wk # r.week => settlement'[wk] = settlement[wk]
    BY <1>2, <1>4, <1>t
  <2>8. OneSettler'
    BY <1>1, <2>4, <2>5, <2>6, <2>7 DEF IInv, WeeksStand, OneSettler
  <2>9. SettlersKnow'
    <3> SUFFICES ASSUME NEW v \in Workers PROVE Knows(v)'
      BY DEF SettlersKnow
    <3>1. CASE v = w
      BY <1>1, <1>2, <2>1, <2>2, <2>4, <2>5, <3>1 DEF Knows
    <3>2. CASE v # w
      <4>1. Knows(v)
        BY DEF IInv, WeeksStand, SettlersKnow
      <4> QED
        BY <1>1, <2>2, <2>4, <3>2, <4>1, SettlerIsAlone DEF Knows
    <3> QED
      BY <3>1, <3>2
  <2>10. SettlementPaysItsRows'
    BY <1>1, <2>4, <2>7 DEF IInv, WeeksStand, SettlementPaysItsRows
  <2> QED
    BY <2>3, <2>8, <2>9, <2>10 DEF IInv, WeeksStand
<1> QED
  BY <1>r, <1>3, <1>4 DEF InsertRow

LEMMA ClaimKeepsIInv ==
  ASSUME IInv, NEW w \in Workers, ClaimStays(w)
  PROVE  IInv'
<1>r. PICK r \in Job : r = job[w]
  BY JobIsTyped
<1>t. /\ job \in [Workers -> Job] /\ stay \in [Bookings -> Stay]
      /\ paidOut \in [Weeks -> SUBSET Bookings]
  BY DEF IInv, TypeOK
<1>1. /\ r \in SettleJob /\ r.week \in Weeks /\ r.pc = "claim"
      /\ UNCHANGED <<calendar, charged, freed, week, crashes>>
      /\ settlement' = settlement /\ paidOut' = paidOut
  BY <1>r, SettlerIsAlone DEF ClaimStays, settleVars
<1>w. r.week # Unsettled
  BY <1>1 DEF Weeks, Unsettled
<1>2. paidOut[r.week] = {} /\ SettledBy(r.week) = {}
  BY <1>r, <1>1 DEF IInv, WeeksStand, SettlersKnow, Knows
\* The rows.
<1>3. /\ stay' \in [Bookings -> Stay]
      /\ \A b \in Bookings :
           \/ stay'[b] = stay[b] /\ ~Claimable(b, r.week)
           \/ /\ Claimable(b, r.week) /\ stay[b].pins = 1 /\ stay[b].status # "NONE"
              /\ stay'[b].settledBy = r.week /\ stay'[b].paidAt = r.week
              /\ stay'[b].status = stay[b].status /\ stay'[b].rooms = stay[b].rooms
              /\ stay'[b].pins = stay[b].pins
  <2> SUFFICES ASSUME NEW b \in Bookings, Claimable(b, r.week)
               PROVE  LET s == [stay[b] EXCEPT !.settledBy = r.week] IN
                        /\ s \in Stay /\ stay[b].pins = 1 /\ stay[b].status # "NONE"
                        /\ s.settledBy = r.week /\ s.paidAt = r.week
                        /\ s.status = stay[b].status /\ s.rooms = stay[b].rooms
                        /\ s.pins = stay[b].pins
    <3>1. stay' = [b \in Bookings |->
            IF Claimable(b, r.week) THEN [stay[b] EXCEPT !.settledBy = r.week] ELSE stay[b]]
      BY <1>r DEF ClaimStays
    <3> QED
      BY <1>t, <3>1
  <2> QED
    BY <1>1, Row DEF Claimable, Stay, Kept
<1>4. \A b \in Bookings : stay'[b].settledBy = r.week <=> Claimable(b, r.week)
  BY <1>2, <1>3 DEF SettledBy
<1>5. \A b \in Bookings, wk \in Weeks :
        wk # r.week => (stay'[b].settledBy = wk <=> stay[b].settledBy = wk)
  BY <1>1, <1>3 DEF Claimable, Weeks, Unsettled
<1>6. \A wk \in Weeks : wk # r.week => SettledBy(wk)' = SettledBy(wk)
  BY <1>5 DEF SettledBy
\* The handler.
<1> DEFINE pc == IF \E b \in Bookings : Claimable(b, r.week) THEN "credit" ELSE "complete"
           j == [r EXCEPT !.pc = pc]
<1>7. /\ pc \in {"credit", "complete"}
      /\ pc = "complete" => \A b \in Bookings : ~Claimable(b, r.week)
  OBVIOUS
<1>8. Become(w, j)
  BY <1>r DEF ClaimStays
<1> HIDE DEF pc
<1>9. j \in Job /\ j.pc = pc /\ j.week = r.week
  BY <1>1, <1>7 DEF Job, SettleJob
<1> HIDE DEF j
<1>10. /\ job' \in [Workers -> Job] /\ job'[w] = j
       /\ \A v \in Workers : v # w => job'[v] = job[v]
  BY <1>8, <1>9, <1>t DEF Become
<1>11. TypeOK'
  BY <1>1, <1>3, <1>10 DEF IInv, TypeOK, calendar
<1>12. CalendarFits'
  <2>1. ~InTx(w)'
    BY <1>7, <1>9, <1>10 DEF InTx
  <2> QED
    BY <1>1, <1>10, <2>1, CalendarFrame DEF IInv
<1>13. StaysStand'
  <2>1. \A v \in Workers : job'[v].pc \in {"hold", "checkout", "confirm"} =>
          job'[v] = job[v] /\ job[v].id \in Bookings
    BY <1>7, <1>9, <1>10, <1>t, JobShape
  <2>2. NewIsNew'
    <3>1. \A b \in Bookings : stay[b] = NoStay => stay'[b] = stay[b]
      BY <1>3 DEF NoStay
    <3> QED
      BY <2>1, <3>1 DEF IInv, StaysStand, NewIsNew
  <2>3. Known'
    <3>1. \A v \in Workers : job'[v].pc = "checkout" => stay'[job'[v].id].status # "NONE"
      BY <1>3, <2>1 DEF IInv, StaysStand, Known
    <3>2. \A v \in Workers : job'[v].pc = "confirm" => job'[v].id \in charged'
      BY <1>1, <2>1 DEF IInv, StaysStand, Known
    <3>3. \A b \in Bookings :
            /\ stay'[b].status # "NONE" => stay'[b].rooms \in RoomCounts
            /\ stay'[b].settledBy # Unsettled => stay'[b].paidAt = stay'[b].settledBy
      BY <1>3 DEF IInv, StaysStand, Known
    <3> QED
      BY <3>1, <3>2, <3>3 DEF Known
  <2>4. PinIsMoney'
    <3> SUFFICES ASSUME NEW b \in Bookings
                 PROVE  /\ stay'[b].pins = IF stay'[b].status \in Kept THEN 1 ELSE 0
                        /\ stay'[b].pins = 1 => b \in charged' /\ stay'[b].paidAt # Unpaid
                        /\ stay'[b].settledBy # Unsettled => stay'[b].pins = 1
      BY DEF PinIsMoney
    <3>1. r.week # Unpaid
      BY <1>1 DEF Weeks, Unpaid
    <3> QED
      BY <1>1, <1>3, <3>1, Row
  <2> QED
    BY <2>2, <2>3, <2>4 DEF StaysStand
\* The weeks.
<1>14. OneSettler'
  <2>1. \A wk \in Weeks, v \in Workers : InCharge(v, wk)' <=> InCharge(v, wk)
    BY <1>r, <1>1, <1>7, <1>9, <1>10 DEF InCharge
  <2>2. settlement[r.week] = "PENDING"
    BY <1>r, <1>1, SettlerIsAlone
  <2> QED
    BY <1>1, <1>6, <2>1, <2>2 DEF IInv, WeeksStand, OneSettler
<1>15. SettlersKnow'
  <2> SUFFICES ASSUME NEW v \in Workers PROVE Knows(v)'
    BY DEF SettlersKnow
  <2>1. CASE v = w
    <3>1. pc = "complete" => SettledBy(r.week)' = {}
      BY <1>4, <1>7 DEF SettledBy
    <3> QED
      BY <1>1, <1>2, <1>7, <1>9, <1>10, <2>1, <3>1 DEF Knows
  <2>2. CASE v # w
    <3>1. Knows(v) /\ job'[v] = job[v]
      BY <1>10, <2>2 DEF IInv, WeeksStand, SettlersKnow
    <3>2. job[v].pc \in {"claim", "credit", "complete", "fail"} =>
            job[v].week \in Weeks /\ job[v].week # r.week
      BY <1>r, <1>1, <2>2, SettlerIsAlone DEF InCharge
    <3> QED
      BY <1>1, <1>6, <3>1, <3>2 DEF Knows
  <2> QED
    BY <2>1, <2>2
<1>16. SettlementPaysItsRows'
  <2>1. settlement[r.week] = "PENDING"
    BY <1>r, <1>1, SettlerIsAlone
  <2>2. \A b \in Bookings : stay'[b].paidAt = stay[b].paidAt
    BY <1>3 DEF Claimable
  <2>3. \A wk \in Weeks : \A b \in paidOut[wk] : b \in Bookings
    BY <1>t
  <2> QED
    BY <1>1, <1>2, <1>6, <2>1, <2>2, <2>3 DEF IInv, WeeksStand, SettlementPaysItsRows
<1> QED
  BY <1>11, <1>12, <1>13, <1>14, <1>15, <1>16 DEF IInv, WeeksStand

LEMMA CreditKeepsIInv ==
  ASSUME IInv, NEW w \in Workers, CreditHotel(w)
  PROVE  IInv'
<1>r. PICK r \in Job : r = job[w]
  BY JobIsTyped
<1>t. /\ job \in [Workers -> Job] /\ stay \in [Bookings -> Stay]
      /\ settlement \in [Weeks -> {"NONE", "PENDING", "COMPLETED", "FAILED"}]
      /\ paidOut \in [Weeks -> SUBSET Bookings]
  BY DEF IInv, TypeOK
<1>1. /\ r \in SettleJob /\ r.week \in Weeks /\ r.pc = "credit"
      /\ settlement[r.week] = "PENDING"
      /\ UNCHANGED <<calendar, charged, freed, week, crashes>>
      /\ stay' = stay /\ settlement' = settlement
  BY <1>r, SettlerIsAlone DEF CreditHotel
<1>2. PICK pc \in {"complete", "fail"} :
        /\ Become(w, [r EXCEPT !.pc = pc])
        /\ pc = "complete" => paidOut' = [paidOut EXCEPT ![r.week] = SettledBy(r.week)]
        /\ pc = "fail" => paidOut' = paidOut
  BY <1>r DEF CreditHotel, Total
<1> DEFINE j == [r EXCEPT !.pc = pc]
<1>3. j \in Job /\ j.pc = pc /\ j.week = r.week
  BY <1>1 DEF Job, SettleJob
<1>4. Become(w, j)
  BY <1>2
<1> HIDE DEF j
<1>5. job'[w] = j /\ \A v \in Workers : v # w => job'[v] = job[v]
  BY <1>3, <1>4, <1>t DEF Become
<1>6. \A wk \in Weeks : SettledBy(wk)' = SettledBy(wk) /\ SettledBy(wk) \subseteq Bookings
  BY <1>1 DEF SettledBy
<1>7. /\ paidOut' \in [Weeks -> SUBSET Bookings]
      /\ \A wk \in Weeks : wk # r.week => paidOut'[wk] = paidOut[wk]
      /\ pc = "complete" => paidOut'[r.week] = SettledBy(r.week)
      /\ pc = "fail" => paidOut'[r.week] = {}
  <2>1. paidOut[r.week] = {}
    BY <1>r, <1>1 DEF IInv, WeeksStand, SettlersKnow, Knows
  <2> QED
    BY <1>1, <1>2, <1>6, <1>t, <2>1
<1>8. TypeOK' /\ CalendarFits' /\ StaysStand'
  BY <1>1, <1>3, <1>4, <1>7, <1>t, SettlerFrame
<1>9. OneSettler'
  <2>1. \A wk \in Weeks, v \in Workers : InCharge(v, wk)' <=> InCharge(v, wk)
    BY <1>r, <1>1, <1>3, <1>5 DEF InCharge
  <2> QED
    BY <1>1, <1>6, <1>7, <2>1 DEF IInv, WeeksStand, OneSettler
<1>10. SettlersKnow'
  <2> SUFFICES ASSUME NEW v \in Workers PROVE Knows(v)'
    BY DEF SettlersKnow
  <2>1. CASE v = w
    BY <1>1, <1>3, <1>5, <1>6, <1>7, <2>1 DEF Knows
  <2>2. CASE v # w
    <3>1. Knows(v) /\ job'[v] = job[v]
      BY <1>5, <2>2 DEF IInv, WeeksStand, SettlersKnow
    <3>2. job[v].pc \in {"claim", "credit", "complete", "fail"} =>
            job[v].week \in Weeks /\ job[v].week # r.week
      BY <1>r, <1>1, <2>2, SettlerIsAlone DEF InCharge
    <3> QED
      BY <1>6, <1>7, <3>1, <3>2 DEF Knows
  <2> QED
    BY <2>1, <2>2
<1>11. SettlementPaysItsRows'
  <2>1. \A b \in SettledBy(r.week) : stay[b].paidAt = r.week
    BY <1>1 DEF SettledBy, IInv, StaysStand, Known, Weeks, Unsettled
  <2> QED
    BY <1>1, <1>2, <1>6, <1>7, <2>1 DEF IInv, WeeksStand, SettlementPaysItsRows
<1> QED
  BY <1>8, <1>9, <1>10, <1>11 DEF IInv, WeeksStand

LEMMA CloseKeepsIInv ==
  ASSUME IInv, NEW w \in Workers, CloseRow(w)
  PROVE  IInv'
<1>r. PICK r \in Job : r = job[w]
  BY JobIsTyped
<1>t. /\ job \in [Workers -> Job] /\ stay \in [Bookings -> Stay]
      /\ settlement \in [Weeks -> {"NONE", "PENDING", "COMPLETED", "FAILED"}]
      /\ paidOut \in [Weeks -> SUBSET Bookings]
  BY DEF IInv, TypeOK
<1>1. /\ r \in SettleJob /\ r.week \in Weeks /\ r.pc \in {"complete", "fail"}
      /\ Become(w, Idle)
      /\ UNCHANGED <<calendar, charged, freed, week, crashes>>
      /\ stay' = stay /\ paidOut' = paidOut
  BY <1>r, SettlerIsAlone DEF CloseRow
<1>2. PICK status \in {"COMPLETED", "FAILED"} :
        /\ settlement' = [settlement EXCEPT ![r.week] = status]
        /\ status = "COMPLETED" => r.pc = "complete"
  BY <1>r DEF CloseRow
<1>3. /\ settlement' \in [Weeks -> {"NONE", "PENDING", "COMPLETED", "FAILED"}]
      /\ settlement'[r.week] = status
      /\ \A wk \in Weeks : wk # r.week => settlement'[wk] = settlement[wk]
  BY <1>1, <1>2, <1>t
<1>4. Idle \in Job /\ Idle.pc = "idle"
  BY IdleIsJob
<1>5. job'[w] = Idle /\ \A v \in Workers : v # w => job'[v] = job[v]
  BY <1>1, <1>4, <1>t DEF Become
<1>6. \A wk \in Weeks : SettledBy(wk)' = SettledBy(wk)
  BY <1>1 DEF SettledBy
<1>7. TypeOK' /\ CalendarFits' /\ StaysStand'
  BY <1>1, <1>3, <1>4, <1>t, SettlerFrame DEF Outside
<1>8. OneSettler'
  <2>1. \A wk \in Weeks, v \in Workers : InCharge(v, wk)' => InCharge(v, wk) /\ v # w
    BY <1>4, <1>5 DEF InCharge
  <2>2. \A v \in Workers : ~InCharge(v, r.week)'
    BY <1>r, <1>1, <2>1, SettlerIsAlone
  <2> QED
    BY <1>1, <1>3, <1>6, <2>1, <2>2 DEF IInv, WeeksStand, OneSettler
<1>9. SettlersKnow'
  <2> SUFFICES ASSUME NEW v \in Workers PROVE Knows(v)'
    BY DEF SettlersKnow
  <2>1. CASE v = w
    BY <1>4, <1>5, <2>1 DEF Knows
  <2>2. CASE v # w
    <3>1. Knows(v) /\ job'[v] = job[v]
      BY <1>5, <2>2 DEF IInv, WeeksStand, SettlersKnow
    <3> QED
      BY <1>1, <1>6, <3>1, SettlerIsAlone DEF Knows
  <2> QED
    BY <2>1, <2>2
<1>10. SettlementPaysItsRows'
  <2>1. r.pc = "complete" => paidOut[r.week] = SettledBy(r.week)
    BY <1>r DEF IInv, WeeksStand, SettlersKnow, Knows
  <2> QED
    BY <1>1, <1>2, <1>3, <1>6, <2>1 DEF IInv, WeeksStand, SettlementPaysItsRows
<1> QED
  BY <1>7, <1>8, <1>9, <1>10 DEF IInv, WeeksStand

-------------------------------------------------------------------------------
LEMMA HotelNextKeepsIInv ==
  ASSUME IInv, HotelNext, UNCHANGED settleVars
  PROVE  IInv'
<1>1. ASSUME NEW w \in Workers, NEW nights \in Spans, NEW b \in Bookings,
             NEW rooms \in RoomCounts, Create(w, b, nights, rooms)
      PROVE  IInv'
  BY <1>1, CreateKeepsIInv
<1>2. ASSUME NEW w \in Workers, NEW nights \in Spans, NEW rooms \in Rooms,
             OpenNights(w, nights, rooms)
      PROVE  IInv'
  BY <1>2, OpenKeepsIInv
<1>3. ASSUME NEW w \in Workers, NEW b \in Bookings,
             Accept(w, b) \/ Reject(w, b) \/ InitiatePayment(w, b) \/ ConfirmPayment(w, b)
      PROVE  IInv'
  BY <1>3, CallKeepsIInv
<1>4. ASSUME NEW w \in Workers, BeginSweep(w) PROVE IInv'
  BY <1>4, SweepKeepsIInv
<1>5. ASSUME NEW w \in Workers, HotelStep(w) PROVE IInv'
  BY <1>5, HotelStepKeepsIInv
<1>6. ASSUME NEW w \in Workers, Crash(w) PROVE IInv'
  BY <1>6, OutsideKeepsIInv
<1>7. ASSUME NEW b \in Bookings,
             \/ GuestPays(b) \/ WindowCloses(b)
             \/ Desk(b, "CONFIRMED", "CHECKED_IN") \/ Desk(b, "CHECKED_IN", "CHECKED_OUT")
             \/ Desk(b, "CONFIRMED", "NO_SHOW")
      PROVE  IInv'
  BY <1>7, OutsideKeepsIInv
<1>8. CASE WeekEnds
  BY <1>8, OutsideKeepsIInv
<1> QED
  BY <1>1, <1>2, <1>3, <1>4, <1>5, <1>6, <1>7, <1>8 DEF HotelNext

LEMMA StutterKeepsIInv ==
  ASSUME IInv, UNCHANGED vars
  PROVE  IInv'
<1>1. /\ job' \in [Workers -> Job] /\ \A w \in Workers : job'[w] = job[w]
      /\ stay' \in [Bookings -> Stay] /\ \A b \in Bookings : stay'[b] = stay[b]
      /\ charged' = charged /\ charged' \subseteq Bookings /\ freed' = freed
      /\ week' \in Weeks /\ crashes' \in 0..MaxCrashes
      /\ UNCHANGED calendar /\ UNCHANGED settleVars
  BY DEF vars, hotelVars, IInv, TypeOK
<1> QED
  BY <1>1, Plain

LEMMA StepKeepsIInv == IInv /\ [Next]_vars => IInv'
<1> SUFFICES ASSUME IInv, [Next]_vars PROVE IInv'
  OBVIOUS
<1>1. CASE HotelNext /\ UNCHANGED settleVars
  BY <1>1, HotelNextKeepsIInv
<1>2. ASSUME NEW w \in Workers, SettleWeek(w) PROVE IInv'
  BY <1>2, SettleWeekKeepsIInv
<1>3. ASSUME NEW w \in Workers, SettleStep(w) PROVE IInv'
  BY <1>3, InsertKeepsIInv, ClaimKeepsIInv, CreditKeepsIInv, CloseKeepsIInv DEF SettleStep
<1>4. CASE UNCHANGED vars
  BY <1>4, StutterKeepsIInv
<1> QED
  BY <1>1, <1>2, <1>3, <1>4 DEF Next

-------------------------------------------------------------------------------
\* In every reachable state the three arguments stand: locks, rows and settlements.
THEOREM BookingInvariant == Spec => []IInv
BY InitIInv, StepKeepsIInv, PTL DEF Spec

\* Rows, calendar and handlers keep their types: no count of rooms leaves 0..TotalRooms, no
\* handler is ever at a point its record does not fit.
THEOREM BookingTypes == Spec => []TypeOK
<1>1. IInv => TypeOK
  BY DEF IInv
<1> QED
  BY BookingInvariant, <1>1, PTL

\* holdNights, openNights and releaseNights, interleaved update by update and rolled back at
\* any point, never leave a night with more rooms sold than are open.
THEOREM NightsNeverOverbooked == Spec => []NeverOverbooked
<1>1. IInv => NeverOverbooked
  BY DEF IInv, CalendarFits
<1> QED
  BY BookingInvariant, <1>1, PTL

\* A code is issued once and only over money at the gateway, and only stays that have one are
\* settled, however often confirmations, expiries and weekly runs meet.
THEOREM CodesAreMoney == Spec => []PinIsMoney
<1>1. IInv => PinIsMoney
  BY DEF IInv, StaysStand
<1> QED
  BY BookingInvariant, <1>1, PTL

\* However many weekly runs start, race and die, a hotel was credited for a week exactly the
\* bookings marked with it, and each of them was paid in that week.
THEOREM SettlementsPayTheirRows == Spec => []SettlementPaysItsRows
<1>1. IInv => SettlementPaysItsRows
  BY DEF IInv, WeeksStand
<1> QED
  BY BookingInvariant, <1>1, PTL

-------------------------------------------------------------------------------
\* The rooms of a stay come back once, from the one release that found it held.
ReleaseKnows(j) ==
  /\ stay[j.id].status \in Ended /\ j.id \notin freed
  /\ j.nights = stay[j.id].nights /\ j.rooms = stay[j.id].rooms

RoomsStand ==
  /\ \A b \in Bookings : /\ stay[b].status = "NONE" => stay[b].nights = {}
                         /\ b \in freed => stay[b].status \in Ended
  /\ \A w \in Workers : job[w].pc = "release" => ReleaseKnows(job[w])
  /\ \A v, w \in Workers :
       job[v].pc = "release" /\ job[w].pc = "release" /\ job[v].id = job[w].id => v = w
  /\ \A n \in Nights : IsFiniteSet(Sold(n)) /\ booked[n] = Cardinality(Sold(n))

RoomsIInv == IInv /\ RoomsStand

LEMMA InSold ==
  ASSUME NEW n, NEW x
  PROVE  x \in Sold(n) <=>
           \E b \in Bookings : Occupies(b, n) /\ \E i \in 1..stay[b].rooms : x = <<b, i>>
BY DEF Sold

\* A stay's rooms are counted beside those of the others.
LEMMA RoomsAdd ==
  ASSUME NEW S, IsFiniteSet(S), NEW b, NEW r \in Nat, NEW P, P = {b} \X (1..r), S \cap P = {}
  PROVE  /\ IsFiniteSet(S \union P)
         /\ Cardinality(S \union P) = Cardinality(S) + r
<1>1. PICK A : A = {b}  OBVIOUS
<1>2. PICK B : B = 1..r  OBVIOUS
<1>3. IsFiniteSet(A) /\ Cardinality(A) = 1  BY <1>1, FS_Singleton
<1>4. IsFiniteSet(B) /\ Cardinality(B) = r
  <2>1. 1 \in Int /\ r \in Int /\ IF 1 > r THEN r = 0 ELSE r - 1 + 1 = r  OBVIOUS
  <2>. QED  BY <1>2, <2>1, FS_Interval
<1>5. P = A \X B  BY <1>1, <1>2
<1>6. IsFiniteSet(A \X B) /\ Cardinality(A \X B) = 1 * r  BY <1>3, <1>4, FS_Product, Zenon
<1>7. IsFiniteSet(P) /\ Cardinality(P) = r
  <2>1. 1 * r = r  OBVIOUS
  <2>. QED  BY <1>5, <1>6, <2>1
<1>8. Cardinality(S \cap P) = 0 /\ Cardinality(S) \in Nat  BY FS_EmptySet, FS_CardinalityType
<1>9. /\ IsFiniteSet(S \union P)
      /\ Cardinality(S \union P) = Cardinality(S) + Cardinality(P) - Cardinality(S \cap P)
  BY <1>7, FS_Union
<1>. QED  BY <1>7, <1>8, <1>9

LEMMA SoldKeeps ==
  ASSUME NEW n,
         \A b \in Bookings : /\ Occupies(b, n)' <=> Occupies(b, n)
                             /\ stay'[b].rooms = stay[b].rooms
  PROVE  Sold(n)' = Sold(n)
BY DEF Sold

LEMMA SoldGrows ==
  ASSUME NEW n, IsFiniteSet(Sold(n)),
         NEW b \in Bookings, stay'[b].rooms \in Nat, ~Occupies(b, n), Occupies(b, n)',
         \A c \in Bookings \ {b} : /\ Occupies(c, n)' <=> Occupies(c, n)
                                   /\ stay'[c].rooms = stay[c].rooms
  PROVE  /\ IsFiniteSet(Sold(n)')
         /\ Cardinality(Sold(n)') = Cardinality(Sold(n)) + stay'[b].rooms
<1>1. PICK r \in Nat : r = stay'[b].rooms  OBVIOUS
<1>2. PICK S : S = Sold(n)  OBVIOUS
<1>3. PICK P : P = {b} \X (1..r)  OBVIOUS
<1>4. Sold(n)' = S \union P  BY <1>1, <1>2, <1>3 DEF Sold
<1>5. S \cap P = {}  BY <1>2, <1>3, InSold
<1>6. IsFiniteSet(S \union P) /\ Cardinality(S \union P) = Cardinality(S) + r
  BY <1>2, <1>3, <1>5, RoomsAdd
<1>. QED  BY <1>1, <1>2, <1>4, <1>6

LEMMA SoldShrinks ==
  ASSUME NEW n, IsFiniteSet(Sold(n)),
         NEW b \in Bookings, stay[b].rooms \in Nat, Occupies(b, n), ~Occupies(b, n)',
         \A c \in Bookings \ {b} : /\ Occupies(c, n)' <=> Occupies(c, n)
                                   /\ stay'[c].rooms = stay[c].rooms
  PROVE  /\ IsFiniteSet(Sold(n)')
         /\ Cardinality(Sold(n)) = Cardinality(Sold(n)') + stay[b].rooms
<1>1. PICK r \in Nat : r = stay[b].rooms  OBVIOUS
<1>2. PICK P : P = {b} \X (1..r)  OBVIOUS
<1>3. PICK S : S = Sold(n) \ P  OBVIOUS
<1>4. Sold(n) = S \union P  BY <1>1, <1>2, <1>3 DEF Sold
<1>5. IsFiniteSet(S) /\ S \cap P = {}  BY <1>3, FS_Difference
<1>6. Cardinality(S \union P) = Cardinality(S) + r  BY <1>2, <1>5, RoomsAdd
<1>7. Sold(n)' = S
  <2>1. ASSUME NEW x PROVE x \in Sold(n)' <=> x \in S
    <3>1. x \in Sold(n)' <=>
            \E c \in Bookings : Occupies(c, n)' /\ \E i \in 1..stay'[c].rooms : x = <<c, i>>
      BY DEF Sold
    <3>2. x \in Sold(n) <=>
            \E c \in Bookings : Occupies(c, n) /\ \E i \in 1..stay[c].rooms : x = <<c, i>>
      BY InSold
    <3>. QED  BY <1>1, <1>2, <1>3, <3>1, <3>2
  <2>. QED  BY <2>1
<1>. QED  BY <1>1, <1>4, <1>5, <1>6, <1>7

-------------------------------------------------------------------------------
\* What a stay holds of the calendar, and whether it is over, is as before.
SameClaim(b) ==
  /\ stay'[b].nights = stay[b].nights /\ stay'[b].rooms = stay[b].rooms
  /\ \/ stay'[b].status = stay[b].status
     \/ stay[b].status \in Held \union Kept /\ stay'[b].status \in Held \union Kept

SamePhase(b) ==
  \/ stay'[b].status = stay[b].status
  \/ stay[b].status \in Held /\ stay'[b].status \in Held
  \/ stay[b].status \in Kept /\ stay'[b].status \in Kept

\* A step that takes no room and gives none back, and one that nobody sees who looks at the
\* calendar or asks how far a stay is.
Calm ==
  /\ booked' = booked /\ freed' = freed
  /\ \A b \in Bookings : SameClaim(b)
  /\ \A w \in Workers :
       \/ job'[w].pc # "release"
       \/ /\ job[w].pc = "release" /\ job'[w].id = job[w].id
          /\ job'[w].nights = job[w].nights /\ job'[w].rooms = job[w].rooms
Still == Calm /\ open' = open /\ \A b \in Bookings : SamePhase(b)

LEMMA RoomsFrame ==
  ASSUME RoomsIInv, Calm
  PROVE  RoomsStand'
<1>. USE DEF Calm
<1>0. RoomsStand /\ TypeOK  BY DEF RoomsIInv, IInv
<1>1. ASSUME NEW b \in Bookings
      PROVE  /\ stay'[b].status = "NONE" => stay'[b].nights = {}
             /\ b \in freed' => stay'[b].status \in Ended
  BY <1>0 DEF RoomsStand, SameClaim, Held, Kept, Ended
<1>2. ASSUME NEW w \in Workers, job'[w].pc = "release" PROVE ReleaseKnows(job[w])'
  <2>1. job[w].id \in Bookings  BY <1>0, <1>2, JobShape DEF TypeOK
  <2>2. ReleaseKnows(job[w])  BY <1>0, <1>2 DEF RoomsStand
  <2>3. SameClaim(job[w].id)  BY <2>1
  <2>. QED  BY <1>2, <2>2, <2>3 DEF ReleaseKnows, SameClaim, Held, Kept, Ended
<1>3. \A v, w \in Workers :
        job'[v].pc = "release" /\ job'[w].pc = "release" /\ job'[v].id = job'[w].id => v = w
  BY <1>0 DEF RoomsStand
<1>4. ASSUME NEW n \in Nights PROVE IsFiniteSet(Sold(n)') /\ booked'[n] = Cardinality(Sold(n)')
  <2>1. \A b \in Bookings : /\ Occupies(b, n)' <=> Occupies(b, n)
                            /\ stay'[b].rooms = stay[b].rooms
    BY DEF SameClaim, Occupies
  <2>2. Sold(n)' = Sold(n)  BY <2>1, SoldKeeps
  <2>. QED  BY <1>0, <2>2 DEF RoomsStand
<1>5. Nights' = Nights  BY DEF Nights
<1>. QED  BY <1>1, <1>2, <1>3, <1>4 DEF RoomsStand

\* One handler goes on, to something else than a release.
LEMMA OneGoes ==
  ASSUME RoomsIInv, NEW w \in Workers, NEW j, Become(w, j), j.pc # "release",
         booked' = booked, freed' = freed, \A b \in Bookings : SameClaim(b)
  PROVE  Calm
<1>1. job'[w] = j /\ \A v \in Workers \ {w} : job'[v] = job[v]
  BY DEF Become, RoomsIInv, IInv, TypeOK
<1>. QED  BY <1>1 DEF Calm

LEMMA SameRows == ASSUME stay' = stay PROVE \A b \in Bookings : SameClaim(b) /\ SamePhase(b)
BY DEF SameClaim, SamePhase

LEMMA OneRow ==
  ASSUME TypeOK, NEW b \in Bookings, NEW s, SetStay(b, s),
         s.nights = stay[b].nights, s.rooms = stay[b].rooms
  PROVE  /\ stay'[b] = s /\ \A c \in Bookings \ {b} : SameClaim(c) /\ SamePhase(c)
         /\ \/ s.status = stay[b].status
            \/ stay[b].status \in Held \union Kept /\ s.status \in Held \union Kept
            => SameClaim(b)
BY DEF SetStay, TypeOK, SameClaim, SamePhase

\* A handler begins, reads, updates a night, or writes what is no stay.
LEMMA HandlerIsStill ==
  ASSUME RoomsIInv, NEW w \in Workers, NEW j, Become(w, j), j.pc # "release",
         UNCHANGED <<calendar, stay, freed>>
  PROVE  Still
<1>1. booked' = booked /\ open' = open  BY DEF calendar
<1>. QED  BY <1>1, OneGoes, SameRows DEF Still

LEMMA RequestIsStill ==
  ASSUME RoomsIInv, NEW w \in Workers,
         \/ \E b \in Bookings, nights \in Spans, rooms \in RoomCounts : Create(w, b, nights, rooms)
         \/ \E nights \in Spans, rooms \in Rooms : OpenNights(w, nights, rooms)
         \/ \E b \in Bookings :
              Accept(w, b) \/ Reject(w, b) \/ InitiatePayment(w, b) \/ ConfirmPayment(w, b)
         \/ BeginSweep(w) \/ SettleWeek(w) \/ Crash(w)
  PROVE  Still
<1>1. UNCHANGED <<calendar, stay, freed>>
  BY DEF Create, OpenNights, Accept, Reject, InitiatePayment, ConfirmPayment, BeginSweep,
         SettleWeek, Crash
<1>2. \E j : Become(w, j) /\ j.pc # "release"
  <2>1. ASSUME NEW b \in Bookings, NEW nights \in Spans, NEW rooms \in RoomCounts,
               Create(w, b, nights, rooms)
        PROVE  \E j : Become(w, j) /\ j.pc # "release"
    BY <2>1 DEF Create
  <2>2. ASSUME NEW nights \in Spans, NEW rooms \in Rooms, OpenNights(w, nights, rooms)
        PROVE  \E j : Become(w, j) /\ j.pc # "release"
    BY <2>2 DEF OpenNights
  <2>3. ASSUME NEW b \in Bookings,
               Accept(w, b) \/ Reject(w, b) \/ InitiatePayment(w, b) \/ ConfirmPayment(w, b)
        PROVE  \E j : Become(w, j) /\ j.pc # "release"
    BY <2>3 DEF Accept, Reject, InitiatePayment, ConfirmPayment, At, Unwinding
  <2>4. CASE BeginSweep(w)  BY <2>4 DEF BeginSweep
  <2>5. CASE SettleWeek(w)  BY <2>5 DEF SettleWeek
  <2>6. CASE Crash(w)  BY <2>6 DEF Crash, Idle
  <2>. QED  BY <2>1, <2>2, <2>3, <2>4, <2>5, <2>6
<1>. QED  BY <1>1, <1>2, HandlerIsStill

LEMMA NightIsStill ==
  ASSUME RoomsIInv, NEW w \in Workers, HoldNight(w) \/ OpenNight(w) \/ ReleaseNight(w)
  PROVE  Still
<1>0. TypeOK  BY DEF RoomsIInv, IInv
<1>1. UNCHANGED <<calendar, stay, freed>>  BY DEF HoldNight, OpenNight, ReleaseNight
<1>2. PICK i \in Job : i = job[w]  BY <1>0 DEF TypeOK
<1>3. i.pc \in {"hold", "open", "release"}
  BY <1>2 DEF HoldNight, OpenNight, ReleaseNight, Updates
<1>4. CASE Become(w, Idle)  BY <1>1, <1>4, HandlerIsStill DEF Idle
<1>5. ASSUME NEW n, Mark(w, n) PROVE Still
  <2>1. PICK j : j = [i EXCEPT !.done = @ \union {n}]  OBVIOUS
  <2>2. j.pc = i.pc  BY <1>2, <1>3, <2>1, JobShape
  <2>3. i.pc = "release" => j.id = i.id /\ j.nights = i.nights /\ j.rooms = i.rooms
    BY <1>2, <2>1, JobShape
  <2>4. Become(w, j)  BY <1>2, <1>5, <2>1 DEF Mark
  <2>5. job'[w] = j /\ \A v \in Workers \ {w} : job'[v] = job[v]
    BY <1>0, <2>4 DEF Become, TypeOK
  <2>6. \A v \in Workers :
           \/ job'[v].pc # "release"
           \/ /\ job[v].pc = "release" /\ job'[v].id = job[v].id
              /\ job'[v].nights = job[v].nights /\ job'[v].rooms = job[v].rooms
    BY <1>2, <2>2, <2>3, <2>5
  <2>. QED  BY <1>1, <2>6, SameRows DEF Still, Calm, calendar
<1>. QED  BY <1>4, <1>5 DEF HoldNight, OpenNight, ReleaseNight

LEMMA ReadIsStill ==
  ASSUME RoomsIInv, NEW w \in Workers,
         SweepNext(w) \/ Verify(w) \/ InsertRow(w) \/ CreditHotel(w) \/ CloseRow(w)
  PROVE  Still
<1>1. UNCHANGED <<calendar, stay, freed>>
  BY DEF SweepNext, Verify, InsertRow, CreditHotel, CloseRow
<1>2. PICK i \in Job : i = job[w]  BY DEF RoomsIInv, IInv, TypeOK
<1>3. CASE Become(w, Idle)  BY <1>1, <1>3, HandlerIsStill DEF Idle
<1>4. CASE SweepNext(w)
  <2>1. ASSUME NEW b, NEW then, Become(w, Unwinding(b, "EXPIRED", then)) PROVE Still
    BY <1>1, <2>1, HandlerIsStill DEF Unwinding
  <2>. QED  BY <1>3, <1>4, <2>1 DEF SweepNext
<1>5. CASE Verify(w)
  <2>1. ASSUME NEW b, Become(w, At(b, "confirm")) PROVE Still
    BY <1>1, <2>1, HandlerIsStill DEF At
  <2>. QED  BY <1>3, <1>5, <2>1 DEF Verify
<1>6. ASSUME NEW pc \in {"claim", "complete", "fail"}, Become(w, [i EXCEPT !.pc = pc]),
             i \in SettleJob
      PROVE  Still
  <2>1. PICK j : j = [i EXCEPT !.pc = pc]  OBVIOUS
  <2>2. j.pc = pc  BY <1>6, <2>1 DEF SettleJob
  <2>. QED  BY <1>1, <1>6, <2>1, <2>2, HandlerIsStill
<1>7. CASE InsertRow(w)
  <2>1. i \in SettleJob  BY <1>2, <1>7, JobShape DEF InsertRow
  <2>. QED  BY <1>2, <1>3, <1>6, <1>7, <2>1 DEF InsertRow
<1>8. CASE CreditHotel(w)
  <2>1. i \in SettleJob  BY <1>2, <1>8, JobShape DEF CreditHotel
  <2>. QED  BY <1>2, <1>6, <1>8, <2>1 DEF CreditHotel
<1>9. CASE CloseRow(w)  BY <1>3, <1>9 DEF CloseRow
<1>. QED  BY <1>4, <1>5, <1>7, <1>8, <1>9

\* A row is written within its phase, and the handler that wrote it, if any, ends.
LEMMA RowIsStill ==
  ASSUME RoomsIInv, UNCHANGED <<calendar, freed>>,
         job' = job \/ \E w \in Workers : Become(w, Idle),
         NEW b \in Bookings, NEW s, SetStay(b, s),
         s.nights = stay[b].nights, s.rooms = stay[b].rooms,
         \/ s.status = stay[b].status
         \/ stay[b].status \in Held \union Kept /\ s.status \in Held \union Kept
  PROVE  /\ Calm
         /\ \/ s.status = stay[b].status
            \/ stay[b].status \in Held /\ s.status \in Held
            \/ stay[b].status \in Kept /\ s.status \in Kept
            => Still
<1>0. TypeOK  BY DEF RoomsIInv, IInv
<1>1. /\ stay'[b] = s /\ \A c \in Bookings \ {b} : SameClaim(c) /\ SamePhase(c)
      /\ SameClaim(b)
  BY <1>0, OneRow
<1>2. Calm
  <2>1. CASE job' = job  BY <1>1, <2>1 DEF Calm, calendar
  <2>2. ASSUME NEW w \in Workers, Become(w, Idle) PROVE Calm
    BY <1>1, <2>2, OneGoes DEF Idle, calendar
  <2>. QED  BY <2>1, <2>2
<1>. QED  BY <1>1, <1>2 DEF Still, SamePhase, calendar

LEMMA WriteIsStill ==
  ASSUME RoomsIInv, NEW w \in Workers, AcceptWrite(w) \/ SaveReference(w)
  PROVE  Still
<1>0. TypeOK  BY DEF RoomsIInv, IInv
<1>1. PICK b \in Bookings : b = job[w].id
  <2>1. job[w] \in Job /\ job[w].pc \in {"accept", "checkout"}
    BY <1>0 DEF AcceptWrite, SaveReference, TypeOK
  <2>. QED  BY <2>1, JobShape
<1>2. stay[b] \in Stay  BY <1>0 DEF TypeOK
<1>3. Become(w, Idle) /\ UNCHANGED <<calendar, freed>>  BY DEF AcceptWrite, SaveReference
<1>4. CASE AcceptWrite(w)
  <2>1. CASE UNCHANGED stay  BY <1>3, <2>1, HandlerIsStill DEF Idle
  <2>2. CASE stay[b].status = "PENDING_HOTEL" /\ ~UNCHANGED stay
    <3>1. PICK s : s = [stay[b] EXCEPT !.status = "AWAITING_PAYMENT", !.late = FALSE]  OBVIOUS
    <3>2. SetStay(b, s)  BY <1>1, <1>4, <2>2, <3>1 DEF AcceptWrite
    <3>3. s.nights = stay[b].nights /\ s.rooms = stay[b].rooms /\ s.status = "AWAITING_PAYMENT"
      BY <1>2, <3>1 DEF Stay
    <3>4. stay[b].status \in Held /\ s.status \in Held  BY <2>2, <3>3 DEF Held
    <3>. QED  BY <1>3, <3>2, <3>3, <3>4, RowIsStill
  <2>. QED  BY <1>1, <1>4, <2>1, <2>2 DEF AcceptWrite
<1>5. CASE SaveReference(w)
  <2>1. PICK s : s = [stay[b] EXCEPT !.reference = TRUE]  OBVIOUS
  <2>2. SetStay(b, s)  BY <1>1, <1>5, <2>1 DEF SaveReference
  <2>3. s.nights = stay[b].nights /\ s.rooms = stay[b].rooms /\ s.status = stay[b].status
    BY <1>2, <2>1 DEF Stay
  <2>. QED  BY <1>3, <2>2, <2>3, RowIsStill
<1>. QED  BY <1>4, <1>5

LEMMA WorldIsStill ==
  ASSUME RoomsIInv,
         \/ \E b \in Bookings :
              \/ GuestPays(b) \/ WindowCloses(b)
              \/ Desk(b, "CONFIRMED", "CHECKED_IN") \/ Desk(b, "CHECKED_IN", "CHECKED_OUT")
              \/ Desk(b, "CONFIRMED", "NO_SHOW")
         \/ WeekEnds \/ UNCHANGED vars
  PROVE  Still
<1>0. TypeOK  BY DEF RoomsIInv, IInv
<1>1. CASE UNCHANGED <<calendar, stay, freed, job>>
  BY <1>1, SameRows DEF Still, Calm, calendar
<1>2. ASSUME NEW b \in Bookings, NEW from \in Kept, NEW to \in Kept, Desk(b, from, to)
      PROVE  Still
  <2>1. PICK s : s = [stay[b] EXCEPT !.status = to]  OBVIOUS
  <2>2. stay[b] \in Stay  BY <1>0 DEF TypeOK
  <2>3. s.nights = stay[b].nights /\ s.rooms = stay[b].rooms /\ s.status = to
    BY <2>1, <2>2 DEF Stay
  <2>. QED  BY <1>2, <2>1, <2>3, RowIsStill DEF Desk
<1>3. ASSUME NEW b \in Bookings, WindowCloses(b) PROVE Still
  <2>1. PICK s : s = [stay[b] EXCEPT !.late = TRUE]  OBVIOUS
  <2>2. stay[b] \in Stay  BY <1>0 DEF TypeOK
  <2>3. s.nights = stay[b].nights /\ s.rooms = stay[b].rooms /\ s.status = stay[b].status
    BY <2>1, <2>2 DEF Stay
  <2>. QED  BY <1>3, <2>1, <2>3, RowIsStill DEF WindowCloses
<1>4. {"CONFIRMED", "CHECKED_IN", "CHECKED_OUT", "NO_SHOW"} \subseteq Kept  BY DEF Kept
<1>. QED  BY <1>1, <1>2, <1>3, <1>4 DEF GuestPays, WeekEnds, vars, hotelVars

LEMMA ClaimIsStill ==
  ASSUME RoomsIInv, NEW w \in Workers, ClaimStays(w)
  PROVE  Still
<1>0. TypeOK  BY DEF RoomsIInv, IInv
<1>1. ASSUME NEW b \in Bookings PROVE SameClaim(b) /\ SamePhase(b)
  <2>1. PICK wk : stay'[b] = stay[b] \/ stay'[b] = [stay[b] EXCEPT !.settledBy = wk]
    BY DEF ClaimStays
  <2>2. stay[b] \in Stay  BY <1>0 DEF TypeOK
  <2>3. /\ stay'[b].nights = stay[b].nights /\ stay'[b].rooms = stay[b].rooms
        /\ stay'[b].status = stay[b].status
    BY <2>1, <2>2 DEF Stay
  <2>. QED  BY <2>3 DEF SameClaim, SamePhase
<1>2. job[w] \in SettleJob  BY <1>0, JobShape DEF ClaimStays, TypeOK
<1>3. PICK pc \in {"credit", "complete"} : Become(w, [job[w] EXCEPT !.pc = pc])
  BY DEF ClaimStays
<1>4. PICK j : j = [job[w] EXCEPT !.pc = pc]  OBVIOUS
<1>5. j.pc # "release"  BY <1>2, <1>4 DEF SettleJob
<1>6. UNCHANGED <<calendar, freed>>  BY DEF ClaimStays
<1>. QED  BY <1>1, <1>3, <1>4, <1>5, <1>6, OneGoes DEF Still, calendar

LEMMA ConfirmIsCalm ==
  ASSUME RoomsIInv, NEW w \in Workers, Confirm(w)
  PROVE  /\ Calm /\ open' = open
         /\ \/ Still
            \/ \E b \in Bookings :
                 /\ stay[b].status = "AWAITING_PAYMENT" /\ stay'[b].status = "CONFIRMED"
                 /\ \A c \in Bookings \ {b} : SamePhase(c)
<1>0. TypeOK  BY DEF RoomsIInv, IInv
<1>1. PICK b \in Bookings : b = job[w].id
  <2>1. job[w] \in Job /\ job[w].pc = "confirm"  BY <1>0 DEF Confirm, TypeOK
  <2>. QED  BY <2>1, JobShape
<1>2. stay[b] \in Stay  BY <1>0 DEF TypeOK
<1>3. Become(w, Idle) /\ UNCHANGED <<calendar, freed>>  BY DEF Confirm
<1>4. CASE UNCHANGED stay
  <2>1. Still  BY <1>3, <1>4, HandlerIsStill DEF Idle
  <2>. QED  BY <2>1 DEF Still
<1>5. CASE stay[b].status = "AWAITING_PAYMENT" /\ ~UNCHANGED stay
  <2>1. PICK s : s = [stay[b] EXCEPT !.status = "CONFIRMED", !.paidAt = week, !.pins = @ + 1]
    OBVIOUS
  <2>2. SetStay(b, s)  BY <1>1, <1>5, <2>1 DEF Confirm, Confirmable
  <2>3. s.nights = stay[b].nights /\ s.rooms = stay[b].rooms /\ s.status = "CONFIRMED"
    BY <1>2, <2>1 DEF Stay
  <2>4. stay[b].status \in Held \union Kept /\ s.status \in Held \union Kept
    BY <1>5, <2>3 DEF Held, Kept
  <2>5. Calm  BY <1>3, <2>2, <2>3, <2>4, RowIsStill
  <2>6. stay'[b] = s /\ \A c \in Bookings \ {b} : SamePhase(c)  BY <1>0, <2>2, <2>3, OneRow
  <2>. QED  BY <1>3, <1>5, <2>3, <2>5, <2>6 DEF calendar
<1>. QED  BY <1>1, <1>4, <1>5 DEF Confirm, Confirmable

LEMMA OpenIsCalm ==
  ASSUME RoomsIInv, NEW w \in Workers, CommitOpen(w)
  PROVE  Calm /\ stay' = stay
<1>1. Become(w, Idle) /\ booked' = booked /\ freed' = freed /\ stay' = stay
  BY DEF CommitOpen
<1>. QED  BY <1>1, SameRows, OneGoes DEF Idle

-------------------------------------------------------------------------------
\* Rooms are taken when a hold commits, and come back when a release does.
LEMMA HoldTakesRooms ==
  ASSUME RoomsIInv, NEW w \in Workers, CommitHold(w)
  PROVE  RoomsStand'
<1>0. TypeOK /\ RoomsStand  BY DEF RoomsIInv, IInv
<1>1. PICK r \in Job : r = job[w]  BY <1>0 DEF TypeOK
<1>2. r \in [pc : {"hold"}, id : Bookings, nights : SUBSET Nights, rooms : RoomCounts,
             done : SUBSET Nights]
  BY <1>1, JobShape DEF CommitHold, Whole
<1>3. PICK b \in Bookings : b = r.id  BY <1>2
<1>4. stay[b] = NoStay  BY <1>1, <1>2, <1>3 DEF RoomsIInv, IInv, StaysStand, NewIsNew
<1>5. stay[b].status = "NONE" /\ stay[b].nights = {} /\ b \notin freed
  <2>1. stay[b].status = "NONE" /\ stay[b].nights = {}  BY <1>4 DEF NoStay
  <2>. QED  BY <1>0, <2>1 DEF RoomsStand, Ended
<1>6. PICK s : s = [NoStay EXCEPT !.status = "PENDING_HOTEL", !.nights = r.nights,
                                  !.rooms = r.rooms]
  OBVIOUS
<1>7. s.status = "PENDING_HOTEL" /\ s.nights = r.nights /\ s.rooms = r.rooms
  BY <1>6 DEF NoStay
<1>8. stay'[b] = s /\ \A c \in Bookings \ {b} : stay'[c] = stay[c]
  BY <1>0, <1>1, <1>3, <1>6 DEF CommitHold, SetStay, TypeOK
<1>9. job'[w].pc = "idle" /\ \A v \in Workers \ {w} : job'[v] = job[v]
  BY <1>0 DEF CommitHold, Become, TypeOK, Idle
<1>10. freed' = freed  BY DEF CommitHold
<1>11. \A c \in Bookings : /\ stay'[c].status = "NONE" => stay'[c].nights = {}
                           /\ c \in freed' => stay'[c].status \in Ended
  BY <1>0, <1>5, <1>7, <1>8, <1>10 DEF RoomsStand
<1>12. ASSUME NEW v \in Workers, job'[v].pc = "release" PROVE ReleaseKnows(job[v])'
  <2>1. v # w /\ job'[v] = job[v]  BY <1>9, <1>12
  <2>2. job[v].id \in Bookings  BY <1>0, <1>12, <2>1, JobShape DEF TypeOK
  <2>3. ReleaseKnows(job[v])  BY <1>0, <1>12, <2>1 DEF RoomsStand
  <2>4. job[v].id # b  BY <1>5, <2>3 DEF ReleaseKnows, Ended
  <2>. QED  BY <1>8, <1>10, <2>1, <2>2, <2>3, <2>4 DEF ReleaseKnows
<1>13. \A v, u \in Workers :
         job'[v].pc = "release" /\ job'[u].pc = "release" /\ job'[v].id = job'[u].id => v = u
  BY <1>0, <1>9 DEF RoomsStand
<1>14. ASSUME NEW n \in Nights
       PROVE  IsFiniteSet(Sold(n)') /\ booked'[n] = Cardinality(Sold(n)')
  <2>1. IsFiniteSet(Sold(n)) /\ booked[n] = Cardinality(Sold(n))  BY <1>0 DEF RoomsStand
  <2>2. \A c \in Bookings \ {b} : /\ Occupies(c, n)' <=> Occupies(c, n)
                                  /\ stay'[c].rooms = stay[c].rooms
    BY <1>8, <1>10 DEF Occupies
  <2>3. ~Occupies(b, n) /\ (Occupies(b, n)' <=> n \in r.nights)
    BY <1>5, <1>7, <1>8 DEF Occupies, Held
  <2>4. booked'[n] = booked[n] + IF n \in r.nights THEN r.rooms ELSE 0
    BY <1>1 DEF CommitHold
  <2>5. r.rooms \in Nat /\ stay'[b].rooms = r.rooms  BY <1>2, <1>7, <1>8, BookingsConfig
  <2>6. CASE n \in r.nights
    <3>1. IsFiniteSet(Sold(n)') /\ Cardinality(Sold(n)') = Cardinality(Sold(n)) + stay'[b].rooms
      BY <2>1, <2>2, <2>3, <2>5, <2>6, SoldGrows
    <3>. QED  BY <2>1, <2>4, <2>5, <2>6, <3>1
  <2>7. CASE n \notin r.nights
    <3>1. Sold(n)' = Sold(n)
      <4>1. \A c \in Bookings : Occupies(c, n)' <=> Occupies(c, n)  BY <2>2, <2>3, <2>7
      <4>2. ASSUME NEW x PROVE x \in Sold(n)' <=> x \in Sold(n)
        <5>1. x \in Sold(n)' <=>
                \E c \in Bookings : Occupies(c, n)' /\ \E i \in 1..stay'[c].rooms : x = <<c, i>>
          BY DEF Sold
        <5>2. x \in Sold(n) <=>
                \E c \in Bookings : Occupies(c, n) /\ \E i \in 1..stay[c].rooms : x = <<c, i>>
          BY InSold
        <5>. QED  BY <2>2, <2>3, <2>7, <5>1, <5>2
      <4>. QED  BY <4>2
    <3>2. booked[n] \in Nat  BY <1>0, BookingsConfig DEF TypeOK, Rooms
    <3>. QED  BY <2>1, <2>4, <2>7, <3>1, <3>2
  <2>. QED  BY <2>6, <2>7
<1>15. Nights' = Nights  BY DEF Nights
<1>. QED  BY <1>11, <1>12, <1>13, <1>14, <1>15 DEF RoomsStand

\* An unwind that finds the booking held ends it; until the release its rooms are still taken.
LEMMA UnwindKeepsRooms ==
  ASSUME RoomsIInv, NEW w \in Workers, Unwind(w)
  PROVE  /\ RoomsStand'
         /\ \/ Still
            \/ /\ UNCHANGED <<calendar, freed>>
               /\ \E b \in Bookings \ freed :
                    /\ stay[b].status \in Held /\ stay'[b].status \in Ended
                    /\ stay'[b].nights = stay[b].nights /\ stay'[b].rooms = stay[b].rooms
                    /\ \A c \in Bookings \ {b} : SameClaim(c) /\ SamePhase(c)
<1>0. TypeOK /\ RoomsStand  BY DEF RoomsIInv, IInv
<1>1. PICK r \in Job : r = job[w]  BY <1>0 DEF TypeOK
<1>2. r \in [pc : {"unwind"}, id : Bookings, to : Ended, then : After]
  BY <1>1, JobShape DEF Unwind
<1>3. PICK b \in Bookings : b = r.id  BY <1>2
<1>4. UNCHANGED <<calendar, freed>> /\ stay[b] \in Stay  BY <1>0 DEF Unwind, TypeOK
<1>5. CASE Become(w, r.then) /\ UNCHANGED stay
  <2>1. r.then.pc # "release"  BY <1>2, AfterIsJob
  <2>2. Still  BY <1>4, <1>5, <2>1, HandlerIsStill
  <2>. QED  BY <2>2, RoomsFrame DEF Still
<1>6. CASE Unwindable(b) /\ ~(Become(w, r.then) /\ UNCHANGED stay)
  <2>1. stay[b].status \in Held /\ b \notin freed
    BY <1>0, <1>6 DEF Unwindable, RoomsStand, Held, Ended
  <2>2. PICK s : s = [stay[b] EXCEPT !.status = r.to]  OBVIOUS
  <2>3. PICK j : j = [pc |-> "release", id |-> b, nights |-> stay[b].nights,
                      rooms |-> stay[b].rooms, done |-> {}, then |-> r.then]
    OBVIOUS
  <2>4. SetStay(b, s) /\ Become(w, j)  BY <1>1, <1>3, <1>6, <2>2, <2>3 DEF Unwind, Unwindable
  <2>5. s.nights = stay[b].nights /\ s.rooms = stay[b].rooms /\ s.status = r.to
    BY <1>4, <2>2 DEF Stay
  <2>6. r.to \in Ended  BY <1>2
  <2>7. stay'[b] = s /\ \A c \in Bookings \ {b} : SameClaim(c) /\ SamePhase(c)
    BY <1>0, <2>4, <2>5, OneRow
  <2>8. job'[w] = j /\ \A v \in Workers \ {w} : job'[v] = job[v]
    BY <1>0, <2>4 DEF Become, TypeOK
  <2>9. \A c \in Bookings \ {b} : stay'[c] = stay[c]  BY <1>0, <2>4 DEF SetStay, TypeOK
  <2>10. \A c \in Bookings : /\ stay'[c].status = "NONE" => stay'[c].nights = {}
                             /\ c \in freed' => stay'[c].status \in Ended
    BY <1>0, <1>4, <2>5, <2>6, <2>7, <2>9 DEF RoomsStand, Ended
  <2>11. ASSUME NEW v \in Workers \ {w}, job[v].pc = "release"
         PROVE  job[v].id \in Bookings \ {b} /\ ReleaseKnows(job[v])
    <3>1. job[v].id \in Bookings  BY <1>0, <2>11, JobShape DEF TypeOK
    <3>2. ReleaseKnows(job[v])  BY <1>0, <2>11 DEF RoomsStand
    <3>. QED  BY <2>1, <3>1, <3>2 DEF ReleaseKnows, Held, Ended
  <2>12. ASSUME NEW v \in Workers, job'[v].pc = "release" PROVE ReleaseKnows(job[v])'
    <3>1. CASE v = w
      BY <1>4, <2>1, <2>3, <2>5, <2>6, <2>7, <2>8, <3>1 DEF ReleaseKnows
    <3>2. CASE v # w
      <4>1. job'[v] = job[v] /\ ReleaseKnows(job[v]) /\ job[v].id \in Bookings \ {b}
        BY <2>8, <2>11, <2>12, <3>2
      <4>. QED  BY <1>4, <2>9, <4>1 DEF ReleaseKnows
    <3>. QED  BY <3>1, <3>2
  <2>13. \A v, u \in Workers :
           job'[v].pc = "release" /\ job'[u].pc = "release" /\ job'[v].id = job'[u].id => v = u
    <3>1. job'[w].id = b  BY <2>3, <2>8
    <3>. QED  BY <1>0, <2>8, <2>11, <3>1 DEF RoomsStand
  <2>14. ASSUME NEW n \in Nights
         PROVE  IsFiniteSet(Sold(n)') /\ booked'[n] = Cardinality(Sold(n)')
    <3>1. \A c \in Bookings : /\ Occupies(c, n)' <=> Occupies(c, n)
                              /\ stay'[c].rooms = stay[c].rooms
      BY <1>4, <2>1, <2>5, <2>7, <2>9 DEF Occupies
    <3>2. Sold(n)' = Sold(n)  BY <3>1, SoldKeeps
    <3>. QED  BY <1>0, <1>4, <3>2 DEF RoomsStand, calendar
  <2>15. Nights' = Nights  BY DEF Nights
  <2>16. RoomsStand'  BY <2>10, <2>12, <2>13, <2>14, <2>15 DEF RoomsStand
  <2>. QED  BY <1>4, <2>1, <2>5, <2>6, <2>7, <2>16
<1>. QED  BY <1>1, <1>3, <1>5, <1>6 DEF Unwind

LEMMA ReleaseGivesRooms ==
  ASSUME RoomsIInv, NEW w \in Workers, CommitRelease(w)
  PROVE  /\ RoomsStand'
         /\ open' = open /\ stay' = stay
         /\ \E b \in Bookings \ freed : stay[b].status \in Ended /\ freed' = freed \union {b}
<1>0. TypeOK /\ RoomsStand  BY DEF RoomsIInv, IInv
<1>1. PICK r \in Job : r = job[w]  BY <1>0 DEF TypeOK
<1>2. r \in [pc : {"release"}, id : Bookings, nights : SUBSET Nights, rooms : RoomCounts,
             done : SUBSET Nights, then : After]
  BY <1>1, JobShape DEF CommitRelease, Whole
<1>3. PICK b \in Bookings : b = r.id  BY <1>2
<1>4. open' = open /\ stay' = stay /\ freed' = freed \union {b}
  BY <1>1, <1>3 DEF CommitRelease
<1>5. /\ stay[b].status \in Ended /\ b \notin freed
      /\ r.nights = stay[b].nights /\ r.rooms = stay[b].rooms
  BY <1>0, <1>1, <1>2, <1>3 DEF RoomsStand, ReleaseKnows
<1>6. job'[w] = r.then /\ \A v \in Workers \ {w} : job'[v] = job[v]
  BY <1>0, <1>1 DEF CommitRelease, Become, TypeOK
<1>7. job'[w].pc # "release"  BY <1>2, <1>6, AfterIsJob
<1>8. \A c \in Bookings : /\ stay'[c].status = "NONE" => stay'[c].nights = {}
                          /\ c \in freed' => stay'[c].status \in Ended
  BY <1>0, <1>4, <1>5 DEF RoomsStand
<1>9. ASSUME NEW v \in Workers, job'[v].pc = "release" PROVE ReleaseKnows(job[v])'
  <2>1. v # w /\ job'[v] = job[v]  BY <1>6, <1>7, <1>9
  <2>2. ReleaseKnows(job[v])  BY <1>0, <1>9, <2>1 DEF RoomsStand
  <2>3. job[v].id # b  BY <1>0, <1>1, <1>2, <1>3, <1>9, <2>1 DEF RoomsStand
  <2>. QED  BY <1>4, <2>1, <2>2, <2>3 DEF ReleaseKnows
<1>10. \A v, u \in Workers :
         job'[v].pc = "release" /\ job'[u].pc = "release" /\ job'[v].id = job'[u].id => v = u
  BY <1>0, <1>6, <1>7 DEF RoomsStand
<1>11. ASSUME NEW n \in Nights
       PROVE  IsFiniteSet(Sold(n)') /\ booked'[n] = Cardinality(Sold(n)')
  <2>1. IsFiniteSet(Sold(n)) /\ booked[n] = Cardinality(Sold(n))  BY <1>0 DEF RoomsStand
  <2>2. \A c \in Bookings \ {b} : /\ Occupies(c, n)' <=> Occupies(c, n)
                                  /\ stay'[c].rooms = stay[c].rooms
    BY <1>4 DEF Occupies
  <2>3. ~Occupies(b, n)' /\ (Occupies(b, n) <=> n \in r.nights)
    BY <1>4, <1>5 DEF Occupies, Held, Kept, Ended
  <2>4. booked'[n] = IF n \in r.nights THEN Lowered(n, r.rooms) ELSE booked[n]
    BY <1>1 DEF CommitRelease
  <2>5. r.rooms \in Nat /\ stay[b].rooms \in Nat  BY <1>2, <1>5, BookingsConfig
  <2>6. CASE n \in r.nights
    <3>1. /\ IsFiniteSet(Sold(n)')
          /\ Cardinality(Sold(n)) = Cardinality(Sold(n)') + stay[b].rooms
      BY <2>1, <2>2, <2>3, <2>5, <2>6, SoldShrinks
    <3>2. PICK k : k = Cardinality(Sold(n)')  OBVIOUS
    <3>3. k \in Nat  BY <3>1, <3>2, FS_CardinalityType
    <3>4. booked[n] = k + r.rooms  BY <1>5, <2>1, <3>1, <3>2
    <3>5. booked'[n] = k  BY <2>4, <2>5, <2>6, <3>3, <3>4 DEF Lowered
    <3>. QED  BY <3>1, <3>2, <3>5
  <2>7. CASE n \notin r.nights
    <3>1. \A c \in Bookings : /\ Occupies(c, n)' <=> Occupies(c, n)
                              /\ stay'[c].rooms = stay[c].rooms
      BY <1>4, <2>2, <2>3, <2>7
    <3>2. Sold(n)' = Sold(n)  BY <3>1, SoldKeeps
    <3>. QED  BY <2>1, <2>4, <2>7, <3>2
  <2>. QED  BY <2>6, <2>7
<1>12. Nights' = Nights  BY DEF Nights
<1>13. RoomsStand'  BY <1>8, <1>9, <1>10, <1>11, <1>12 DEF RoomsStand
<1>. QED  BY <1>4, <1>5, <1>13

-------------------------------------------------------------------------------
\* Five steps are seen on the calendar or in the phase of a stay, and no other.
LEMMA StepKinds ==
  ASSUME RoomsIInv, [Next]_vars
  PROVE  \/ Still
         \/ \E w \in Workers : Confirm(w) \/ CommitOpen(w) \/ CommitHold(w)
                               \/ Unwind(w) \/ CommitRelease(w)
<1>1. ASSUME NEW w \in Workers, HotelStep(w)
      PROVE  \/ Still
             \/ Confirm(w) \/ CommitOpen(w) \/ CommitHold(w) \/ Unwind(w) \/ CommitRelease(w)
  BY <1>1, NightIsStill, ReadIsStill, WriteIsStill DEF HotelStep
<1>2. ASSUME NEW w \in Workers, SettleStep(w) PROVE Still
  BY <1>2, ReadIsStill, ClaimIsStill DEF SettleStep
<1>3. ASSUME NEW w \in Workers,
             \/ \E b \in Bookings, nights \in Spans, rooms \in RoomCounts :
                  Create(w, b, nights, rooms)
             \/ \E nights \in Spans, rooms \in Rooms : OpenNights(w, nights, rooms)
             \/ \E b \in Bookings :
                  Accept(w, b) \/ Reject(w, b) \/ InitiatePayment(w, b) \/ ConfirmPayment(w, b)
             \/ BeginSweep(w) \/ SettleWeek(w) \/ Crash(w)
      PROVE  Still
  BY <1>3, RequestIsStill
<1>4. ASSUME \/ \E b \in Bookings :
                  \/ GuestPays(b) \/ WindowCloses(b)
                  \/ Desk(b, "CONFIRMED", "CHECKED_IN") \/ Desk(b, "CHECKED_IN", "CHECKED_OUT")
                  \/ Desk(b, "CONFIRMED", "NO_SHOW")
             \/ WeekEnds \/ UNCHANGED vars
      PROVE  Still
  BY <1>4, WorldIsStill
<1>5. CASE HotelNext
  BY <1>1, <1>3, <1>4, <1>5 DEF HotelNext
<1>. QED  BY <1>2, <1>3, <1>4, <1>5 DEF Next

LEMMA InitRooms == Init => RoomsIInv
<1>. SUFFICES ASSUME Init PROVE RoomsIInv  OBVIOUS
<1>1. IInv  BY InitIInv
<1>2. /\ \A w \in Workers : job[w].pc = "idle"
      /\ \A b \in Bookings : stay[b] = NoStay
      /\ \A n \in Nights : booked[n] = 0
      /\ freed = {}
  BY IdleIsJob DEF Init, HotelInit
<1>3. ASSUME NEW n \in Nights PROVE Sold(n) = {}
  BY <1>2 DEF Sold, Occupies, NoStay
<1>4. \A n \in Nights : IsFiniteSet(Sold(n)) /\ booked[n] = Cardinality(Sold(n))
  BY <1>2, <1>3, FS_EmptySet
<1>. QED  BY <1>1, <1>2, <1>4 DEF RoomsIInv, RoomsStand, NoStay

LEMMA StepKeepsRooms == RoomsIInv /\ [Next]_vars => RoomsIInv'
<1>. SUFFICES ASSUME RoomsIInv, [Next]_vars PROVE RoomsIInv'  OBVIOUS
<1>1. IInv'  BY StepKeepsIInv DEF RoomsIInv
<1>2. CASE Calm  BY <1>1, <1>2, RoomsFrame DEF RoomsIInv
<1>3. ASSUME NEW w \in Workers, Confirm(w) \/ CommitOpen(w) PROVE Calm
  BY <1>3, ConfirmIsCalm, OpenIsCalm
<1>4. ASSUME NEW w \in Workers, CommitHold(w) \/ Unwind(w) \/ CommitRelease(w)
      PROVE  RoomsStand'
  BY <1>4, HoldTakesRooms, UnwindKeepsRooms, ReleaseGivesRooms
<1>5. Still => Calm  BY DEF Still
<1>. QED  BY <1>1, <1>2, <1>3, <1>4, <1>5, StepKinds DEF RoomsIInv

\* The count of rooms on every night is the rooms of the stays that hold it, through every
\* interleaving of holds, unwinds and releases and whatever handler dies: a release gives
\* back what its booking took, once, and no update of the calendar is lost.
THEOREM CalendarFollowsStays == Spec => []CalendarIsStays
<1>1. Spec => []RoomsIInv  BY InitRooms, StepKeepsRooms, PTL DEF Spec
<1>2. RoomsIInv => CalendarIsStays
  BY DEF RoomsIInv, RoomsStand, IInv, CalendarFits, CalendarIsStays
<1>. QED  BY <1>1, <1>2, PTL

-------------------------------------------------------------------------------
\* The promise of RoomNights.
LEMMA Phases ==
  ASSUME NEW b \in Bookings
  PROVE  /\ stay[b].status = "NONE" => PhaseOf(b) = "none"
         /\ stay[b].status \in Held => PhaseOf(b) = "held"
         /\ stay[b].status \in Kept => PhaseOf(b) = "assured"
         /\ stay[b].status \in Ended => PhaseOf(b) = IF b \in freed THEN "ended" ELSE "ending"
BY DEF PhaseOf, Held, Kept, Ended

LEMMA PhasesNext ==
  ASSUME NEW b \in Bookings
  PROVE  /\ stay'[b].status = "NONE" => PhaseOf(b)' = "none"
         /\ stay'[b].status \in Held => PhaseOf(b)' = "held"
         /\ stay'[b].status \in Kept => PhaseOf(b)' = "assured"
         /\ stay'[b].status \in Ended =>
              PhaseOf(b)' = IF b \in freed' THEN "ended" ELSE "ending"
BY DEF PhaseOf, Held, Kept, Ended

\* A row that stays in its phase, of a booking that is freed or not as before.
LEMMA PhaseStays ==
  ASSUME NEW b \in Bookings, SamePhase(b), b \in freed' <=> b \in freed
  PROVE  PhaseOf(b)' = PhaseOf(b)
BY DEF PhaseOf, SamePhase, Held, Kept

\* The count RoomNights takes through its instance is the count of the rows.
LEMMA SameCount == ASSUME NEW S PROVE RoomsSold!Cardinality(S) = Cardinality(S)
BY DEF RoomsSold!Cardinality, Cardinality

LEMMA TakenIsBooked ==
  ASSUME RoomsIInv, NEW n \in Nights
  PROVE  RoomsSold!Taken(n) = booked[n]
<1>0. TypeOK /\ RoomsStand  BY DEF RoomsIInv, IInv
<1>1. ASSUME NEW b \in Bookings
      PROVE  /\ PhaseOf(b) \in {"held", "assured", "ending"} /\ n \in stay[b].nights
             <=> Occupies(b, n)
  <2>1. stay[b].status \in {"NONE"} \union Held \union Kept \union Ended
    BY <1>0 DEF TypeOK, Stay
  <2>. QED  BY <1>0, <2>1, Phases DEF Occupies, RoomsStand, Held, Kept, Ended
<1>2. RoomsSold!Spoken(n) = Sold(n)
  <2>. DEFINE A == {c \in Bookings : Occupies(c, n)}
              B == {c \in Bookings :
                     PhaseOf(c) \in {"held", "assured", "ending"} /\ n \in stay[c].nights}
  <2>1. A = B  BY <1>1
  <2>2. \A c \in Bookings :
          /\ [b \in Bookings |-> PhaseOf(b)][c] = PhaseOf(c)
          /\ [b \in Bookings |-> [nights |-> stay[b].nights, rooms |-> stay[b].rooms]][c].nights
               = stay[c].nights
          /\ [b \in Bookings |-> [nights |-> stay[b].nights, rooms |-> stay[b].rooms]][c].rooms
               = stay[c].rooms
    OBVIOUS
  <2>3. Sold(n) = UNION {{b} \X (1..stay[b].rooms) : b \in A}  BY DEF Sold
  <2>4. RoomsSold!Spoken(n) = UNION {{b} \X (1..stay[b].rooms) : b \in B}
    BY <2>2 DEF RoomsSold!Spoken
  <2>. HIDE DEF A, B
  <2>. QED  BY <2>1, <2>3, <2>4
<1>. QED  BY <1>0, <1>2, SameCount DEF RoomsSold!Taken, RoomsStand

LEMMA RowsStill ==
  ASSUME RoomsIInv, Still
  PROVE  UNCHANGED RoomsSold!vars
<1>1. \A b \in Bookings : PhaseOf(b)' = PhaseOf(b)
  BY PhaseStays DEF Still, Calm
<1>2. \A b \in Bookings : stay'[b].nights = stay[b].nights /\ stay'[b].rooms = stay[b].rooms
  BY DEF Still, Calm, SameClaim
<1>3. open' = open  BY DEF Still
<1>. QED  BY <1>1, <1>2, <1>3 DEF RoomsSold!vars

\* One stay moves on, and the calendar is as open as before.
LEMMA StayMoves ==
  ASSUME RoomsIInv, NEW b \in Bookings, NEW from, NEW to,
         open' = open, PhaseOf(b) = from, PhaseOf(b)' = to,
         \A c \in Bookings \ {b} : PhaseOf(c)' = PhaseOf(c),
         \A c \in Bookings : stay'[c].nights = stay[c].nights /\ stay'[c].rooms = stay[c].rooms
  PROVE  RoomsSold!Move(b, from, to)
BY DEF RoomsSold!Move

LEMMA ConfirmMoves ==
  ASSUME RoomsIInv, NEW w \in Workers, Confirm(w)
  PROVE  RoomsSold!Next \/ UNCHANGED RoomsSold!vars
<1>1. CASE Still  BY <1>1, RowsStill
<1>2. ASSUME NEW b \in Bookings, stay[b].status = "AWAITING_PAYMENT",
             stay'[b].status = "CONFIRMED", \A c \in Bookings \ {b} : SamePhase(c)
      PROVE  RoomsSold!Next
  <2>1. Calm /\ open' = open  BY ConfirmIsCalm
  <2>2. PhaseOf(b) = "held" /\ PhaseOf(b)' = "assured"
    BY <1>2, Phases, PhasesNext DEF Held, Kept
  <2>3. \A c \in Bookings \ {b} : PhaseOf(c)' = PhaseOf(c)
    BY <1>2, <2>1, PhaseStays DEF Calm
  <2>4. RoomsSold!Move(b, "held", "assured")
    BY <2>1, <2>2, <2>3, StayMoves DEF Calm, SameClaim
  <2>. QED  BY <2>4 DEF RoomsSold!Next
<1>. QED  BY <1>1, <1>2, ConfirmIsCalm

LEMMA UnwindMoves ==
  ASSUME RoomsIInv, NEW w \in Workers, Unwind(w)
  PROVE  RoomsSold!Next \/ UNCHANGED RoomsSold!vars
<1>1. CASE Still  BY <1>1, RowsStill
<1>2. ASSUME UNCHANGED <<calendar, freed>>, NEW b \in Bookings \ freed,
             stay[b].status \in Held, stay'[b].status \in Ended,
             stay'[b].nights = stay[b].nights, stay'[b].rooms = stay[b].rooms,
             \A c \in Bookings \ {b} : SameClaim(c) /\ SamePhase(c)
      PROVE  RoomsSold!Next
  <2>1. PhaseOf(b) = "held" /\ PhaseOf(b)' = "ending"
    BY <1>2, Phases, PhasesNext
  <2>2. \A c \in Bookings \ {b} : PhaseOf(c)' = PhaseOf(c)
    BY <1>2, PhaseStays
  <2>3. open' = open  BY <1>2 DEF calendar
  <2>4. \A c \in Bookings : stay'[c].nights = stay[c].nights /\ stay'[c].rooms = stay[c].rooms
    BY <1>2 DEF SameClaim
  <2>5. RoomsSold!Move(b, "held", "ending")
    BY <2>1, <2>2, <2>3, <2>4, StayMoves
  <2>. QED  BY <2>5 DEF RoomsSold!Next
<1>. QED  BY <1>1, <1>2, UnwindKeepsRooms

LEMMA ReleaseMoves ==
  ASSUME RoomsIInv, NEW w \in Workers, CommitRelease(w)
  PROVE  RoomsSold!Next
<1>1. PICK b \in Bookings \ freed : stay[b].status \in Ended /\ freed' = freed \union {b}
  BY ReleaseGivesRooms
<1>2. open' = open /\ stay' = stay  BY ReleaseGivesRooms
<1>3. PhaseOf(b) = "ending" /\ PhaseOf(b)' = "ended"
  BY <1>1, <1>2, Phases, PhasesNext
<1>4. \A c \in Bookings \ {b} : PhaseOf(c)' = PhaseOf(c)
  BY <1>1, <1>2, PhaseStays DEF SamePhase
<1>5. RoomsSold!Move(b, "ending", "ended")
  BY <1>2, <1>3, <1>4, StayMoves
<1>. QED  BY <1>5 DEF RoomsSold!Next

\* What was found under the locks still holds at the commit, on every night of the span.
LEMMA HoldHolds ==
  ASSUME RoomsIInv, NEW w \in Workers, CommitHold(w)
  PROVE  RoomsSold!Next
<1>0. TypeOK /\ RoomsStand /\ DoneFits /\ NewIsNew
  BY DEF RoomsIInv, IInv, CalendarFits, StaysStand
<1>1. PICK r \in Job : r = job[w]  BY <1>0 DEF TypeOK
<1>2. /\ r.id \in Bookings /\ r.nights \in SUBSET Nights /\ r.rooms \in RoomCounts
      /\ r.nights # {}
  BY <1>1, JobShape DEF CommitHold, Whole
<1>3. PICK b \in Bookings, nights \in SUBSET Nights, rooms \in RoomCounts :
        b = r.id /\ nights = r.nights /\ rooms = r.rooms
  BY <1>2
<1>4. \A n \in nights : booked[n] + rooms <= open[n]
  BY <1>0, <1>1, <1>3 DEF DoneFits, CommitHold, Whole
<1>5. rooms \in Rooms
  <2>1. PICK n \in nights : TRUE  BY <1>2, <1>3
  <2>2. booked[n] \in Rooms /\ open[n] \in Rooms  BY <1>0, <2>1 DEF TypeOK
  <2>3. booked[n] + rooms <= open[n]  BY <1>4, <2>1
  <2>. QED  BY <2>2, <2>3, BookingsConfig DEF Rooms
<1>6. stay[b] = NoStay  BY <1>0, <1>1, <1>3 DEF NewIsNew, CommitHold, Whole
<1>7. PICK s : s = [NoStay EXCEPT !.status = "PENDING_HOTEL", !.nights = nights, !.rooms = rooms]
  OBVIOUS
<1>8. s.status = "PENDING_HOTEL" /\ s.nights = nights /\ s.rooms = rooms
  BY <1>7 DEF NoStay
<1>9. /\ stay'[b] = s /\ \A c \in Bookings \ {b} : stay'[c] = stay[c]
      /\ open' = open /\ freed' = freed
  BY <1>0, <1>1, <1>3, <1>7 DEF CommitHold, SetStay, TypeOK
<1>10. PhaseOf(b) = "none" /\ PhaseOf(b)' = "held"
  BY <1>6, <1>8, <1>9, Phases, PhasesNext DEF NoStay, Held
<1>11. \A c \in Bookings \ {b} : PhaseOf(c)' = PhaseOf(c)
  BY <1>9, PhaseStays DEF SamePhase
<1>12. \A n \in nights : RoomsSold!Taken(n) + rooms <= open[n]
  BY <1>4, TakenIsBooked
<1>13. RoomsSold!Hold(b, nights, rooms)
  BY <1>8, <1>9, <1>10, <1>11, <1>12 DEF RoomsSold!Hold
<1>. QED  BY <1>3, <1>5, <1>13 DEF RoomsSold!Next

LEMMA OpenOffers ==
  ASSUME RoomsIInv, NEW w \in Workers, CommitOpen(w)
  PROVE  RoomsSold!Next
<1>0. TypeOK /\ DoneFits  BY DEF RoomsIInv, IInv, CalendarFits
<1>1. PICK r \in Job : r = job[w]  BY <1>0 DEF TypeOK
<1>2. r.nights \in SUBSET Nights /\ r.rooms \in Rooms
  BY <1>1, JobShape DEF CommitOpen, Whole
<1>3. \A n \in r.nights : RoomsSold!Taken(n) <= r.rooms
  BY <1>0, <1>1, <1>2, TakenIsBooked DEF DoneFits, CommitOpen, Whole
<1>4. open' = [n \in Nights |-> IF n \in r.nights THEN r.rooms ELSE open[n]]
  BY <1>1 DEF CommitOpen
<1>5. stay' = stay /\ freed' = freed  BY DEF CommitOpen
<1>6. \A b \in Bookings : PhaseOf(b)' = PhaseOf(b)
  BY <1>5, PhaseStays DEF SamePhase
<1>7. RoomsSold!Offer(r.nights, r.rooms)
  BY <1>3, <1>4, <1>5, <1>6 DEF RoomsSold!Offer
<1>. QED  BY <1>2, <1>7 DEF RoomsSold!Next

\* The bookings keep the promise of RoomNights: all nights or none, never beyond what is
\* open, a stay that was paid for keeps its rooms, and those of one that fell through come
\* back once.
THEOREM BookingsImplementRooms == Spec => ImplementsRooms
<1>1. Spec => []RoomsIInv  BY InitRooms, StepKeepsRooms, PTL DEF Spec
<1>2. Init => RoomsSold!Init
  <2>. SUFFICES ASSUME Init PROVE RoomsSold!Init  OBVIOUS
  <2>1. open \in [Nights -> Rooms] /\ \A b \in Bookings : stay[b] = NoStay
    BY DEF Init, HotelInit
  <2>2. \A b \in Bookings : /\ PhaseOf(b) = "none"
                            /\ stay[b].nights = {} /\ stay[b].rooms = 0
    BY <2>1, Phases DEF NoStay
  <2>. QED  BY <2>1, <2>2 DEF RoomsSold!Init, RoomsSold!Nothing
<1>3. RoomsIInv /\ [Next]_vars => [RoomsSold!Next]_(RoomsSold!vars)
  <2>. SUFFICES ASSUME RoomsIInv, [Next]_vars PROVE RoomsSold!Next \/ UNCHANGED RoomsSold!vars
    OBVIOUS
  <2>. QED
    BY StepKinds, RowsStill, ConfirmMoves, OpenOffers, HoldHolds, UnwindMoves, ReleaseMoves
<1>. QED  BY <1>1, <1>2, <1>3, PTL DEF Spec, ImplementsRooms, RoomsSold!Spec
===============================================================================
