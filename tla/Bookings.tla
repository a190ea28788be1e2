-------------------------------- MODULE Bookings --------------------------------
(***************************************************************************)
(* bookings/bookings.service.ts, room-inventory.service.ts and the expiry  *)
(* sweep: a guest applies for some nights of one room type, the hotel has  *)
(* half an hour to answer, the guest a day to pay through the gateway, and *)
(* whatever falls through gives its nights back.                           *)
(*                                                                         *)
(* A handler is job[w] of the worker w that runs it and takes one step per *)
(* statement. The three transactions that change the calendar (hold,       *)
(* release, open) update one night after another; the rows they updated    *)
(* (done) stay locked, and their new values unseen, until they commit. An  *)
(* update that would break the CHECK of room_availability aborts its       *)
(* transaction. Deadlines appear as a flag: "late" when the window the     *)
(* booking is in has closed.                                               *)
(***************************************************************************)
EXTENDS Integers, FiniteSets, FiniteSetsExt

CONSTANTS Bookings, Workers,
          LastNight,   \* bound: the calendar has nights 1..LastNight
          TotalRooms,  \* of the room type
          RoomCounts,  \* rooms a guest may ask for
          LastWeek,    \* bound: settlement weeks
          MaxCrashes   \* bound: handlers that die half-way

ASSUME BookingsConfig ==
  /\ LastNight \in Nat /\ TotalRooms \in Nat /\ LastWeek \in Nat \ {0}
  /\ RoomCounts \subseteq Nat \ {0} /\ MaxCrashes \in Nat

VARIABLES open,     \* roomsOpen of each night, 0 where the hotel opened nothing
          booked,   \* roomsBooked of each night
          stay,     \* the booking rows
          charged,  \* bookings whose guest paid at the gateway
          freed,    \* history: bookings whose nights went back on sale
          week,     \* the week it is
          job, crashes

calendar == <<open, booked>>
hotelVars == <<calendar, stay, charged, freed, week, job, crashes>>

Nights == 1..LastNight
Rooms == 0..TotalRooms
Weeks == 1..LastWeek
Spans == {m..n : m, n \in Nights} \ {{}}  \* from check-in to the night before check-out
Unpaid == 0     \* paidAt is null
Unsettled == 0  \* settlementId is null

Held  == {"PENDING_HOTEL", "AWAITING_PAYMENT"}
Kept  == {"CONFIRMED", "CHECKED_IN", "CHECKED_OUT", "NO_SHOW"}
Ended == {"REJECTED", "EXPIRED"}

Stay == [status : {"NONE"} \union Held \union Kept \union Ended,
         nights : SUBSET Nights, rooms : RoomCounts \union {0}, late : BOOLEAN,
         reference : BOOLEAN, pins : Nat, paidAt : {Unpaid} \union Weeks,
         settledBy : {Unsettled} \union Weeks]
NoStay == [status |-> "NONE", nights |-> {}, rooms |-> 0, late |-> FALSE,
           reference |-> FALSE, pins |-> 0, paidAt |-> Unpaid, settledBy |-> Unsettled]

\* What a worker does. "then" is the rest of the sweep, or nothing.
Idle == [pc |-> "idle"]
SweepJob == [pc : {"sweep"}, todo : SUBSET Bookings]
After == {Idle} \union SweepJob
HotelJob ==
  After
    \union [pc : {"hold"}, id : Bookings, nights : Spans, rooms : RoomCounts,
            done : SUBSET Nights]
    \union [pc : {"open"}, nights : SUBSET Nights, rooms : Rooms, done : SUBSET Nights]
    \union [pc : {"unwind"}, id : Bookings, to : Ended, then : After]
    \union [pc : {"release"}, id : Bookings, nights : SUBSET Nights, rooms : RoomCounts,
            done : SUBSET Nights, then : After]
    \union [pc : {"accept", "checkout", "verify", "confirm"}, id : Bookings]

Become(w, j) == job' = [job EXCEPT ![w] = j]
At(b, pc) == [pc |-> pc, id |-> b]
SetStay(b, s) == stay' = [stay EXCEPT ![b] = s]

HotelInit ==
  /\ open \in [Nights -> Rooms] /\ booked = [n \in Nights |-> 0]
  /\ stay = [b \in Bookings |-> NoStay]
  /\ charged = {} /\ freed = {} /\ week = 1
  /\ job = [w \in Workers |-> Idle] /\ crashes = 0

-------------------------------------------------------------------------------
\* Transactions over nights.
InTx(w) == job[w].pc \in {"hold", "open", "release"}
Locked(n) == \E w \in Workers : InTx(w) /\ n \in job[w].done

\* The night a transaction updates next: they all go forward in the calendar.
NextNightBackwards(j) ==  \* mutant: a release goes backwards
  IF j.pc = "release" THEN Max(j.nights \ j.done) ELSE Min(j.nights \ j.done)
NextNight(j) == Min(j.nights \ j.done)

\* CHECK (rooms_booked >= 0 AND rooms_booked <= rooms_open)
CheckNothing(n, taken, rooms) == TRUE  \* mutant: no constraint
Check(n, taken, rooms) == 0 <= taken /\ taken <= rooms

Mark(w, n) == Become(w, [job[w] EXCEPT !.done = @ \union {n}])
Whole(w, pc) == job[w].pc = pc /\ job[w].done = job[w].nights
Updates(w, pc, n) ==
  /\ job[w].pc = pc /\ job[w].done # job[w].nights
  /\ n = NextNight(job[w]) /\ ~Locked(n)

\* createBooking: checkAvailability, then one transaction.
Create(w, b, nights, rooms) ==
  /\ job[w] = Idle
  /\ stay[b] = NoStay /\ \A v \in Workers : job[v].pc = "hold" => job[v].id # b
  /\ \A n \in nights : open[n] - booked[n] >= rooms
  /\ Become(w, [pc |-> "hold", id |-> b, nights |-> nights, rooms |-> rooms, done |-> {}])
  /\ UNCHANGED <<calendar, stay, charged, freed, week, crashes>>

\* The WHERE of the raw UPDATE. It implies the CHECK, which is a second guard here.
Fits(n, rooms) == booked[n] + rooms <= open[n]
HoldNight(w) == LET j == job[w] IN
  /\ \E n \in Nights :
       /\ Updates(w, "hold", n)
       /\ \/ Fits(n, j.rooms) /\ Mark(w, n)
          \/ ~Fits(n, j.rooms) /\ Become(w, Idle)
  /\ UNCHANGED <<calendar, stay, charged, freed, week, crashes>>

CommitHold(w) == LET j == job[w] IN
  /\ Whole(w, "hold")
  /\ booked' = [n \in Nights |-> booked[n] + IF n \in j.nights THEN j.rooms ELSE 0]
  /\ SetStay(j.id, [NoStay EXCEPT !.status = "PENDING_HOTEL", !.nights = j.nights,
                                  !.rooms = j.rooms])
  /\ Become(w, Idle)
  /\ UNCHANGED <<open, charged, freed, week, crashes>>

\* openNights: what is sold is read first, then upserted in one transaction.
OpenNights(w, nights, rooms) ==
  /\ job[w] = Idle
  /\ \A n \in nights : booked[n] <= rooms
  /\ Become(w, [pc |-> "open", nights |-> nights, rooms |-> rooms, done |-> {}])
  /\ UNCHANGED <<calendar, stay, charged, freed, week, crashes>>

OpenNight(w) == LET j == job[w] IN
  /\ \E n \in Nights :
       /\ Updates(w, "open", n)
       /\ \/ Check(n, booked[n], j.rooms) /\ Mark(w, n)
          \/ ~Check(n, booked[n], j.rooms) /\ Become(w, Idle)
  /\ UNCHANGED <<calendar, stay, charged, freed, week, crashes>>

CommitOpen(w) == LET j == job[w] IN
  /\ Whole(w, "open")
  /\ open' = [n \in Nights |-> IF n \in j.nights THEN j.rooms ELSE open[n]]
  /\ Become(w, Idle)
  /\ UNCHANGED <<booked, stay, charged, freed, week, crashes>>

-------------------------------------------------------------------------------
\* The hotel answers. Both calls read the booking and check it first.
Accept(w, b) ==
  /\ job[w] = Idle
  /\ stay[b].status = "PENDING_HOTEL" /\ ~stay[b].late
  /\ Become(w, At(b, "accept"))
  /\ UNCHANGED <<calendar, stay, charged, freed, week, crashes>>

AcceptWrite(w) == LET b == job[w].id IN
  /\ job[w].pc = "accept"
  /\ \/ /\ stay[b].status = "PENDING_HOTEL"
        /\ SetStay(b, [stay[b] EXCEPT !.status = "AWAITING_PAYMENT", !.late = FALSE])
     \/ stay[b].status # "PENDING_HOTEL" /\ UNCHANGED stay
  /\ Become(w, Idle)
  /\ UNCHANGED <<calendar, charged, freed, week, crashes>>

Unwinding(b, to, then) == [pc |-> "unwind", id |-> b, to |-> to, then |-> then]

Reject(w, b) ==
  /\ job[w] = Idle /\ stay[b].status = "PENDING_HOTEL"
  /\ Become(w, Unwinding(b, "REJECTED", Idle))
  /\ UNCHANGED <<calendar, stay, charged, freed, week, crashes>>

\* expireOverdueBookings, one tick at a time: a list, then one booking after another. (The
\* code lists a hundred at a time; each that ends leaves the list to the others.)
Overdue(b) == stay[b].status \in Held /\ stay[b].late
InSweep(j) == j.pc = "sweep" \/ (j.pc \in {"unwind", "release"} /\ j.then # Idle)

BeginSweep(w) ==
  /\ job[w] = Idle /\ \A v \in Workers : ~InSweep(job[v])
  /\ \E b \in Bookings : Overdue(b)
  /\ Become(w, [pc |-> "sweep", todo |-> {b \in Bookings : Overdue(b)}])
  /\ UNCHANGED <<calendar, stay, charged, freed, week, crashes>>

SweepNext(w) == LET j == job[w] IN
  /\ j.pc = "sweep"
  /\ \/ \E b \in j.todo :
          Become(w, Unwinding(b, "EXPIRED", [j EXCEPT !.todo = @ \ {b}]))
     \/ j.todo = {} /\ Become(w, Idle)
  /\ UNCHANGED <<calendar, stay, charged, freed, week, crashes>>

\* unwind claims the booking under a guard, then releases its nights.
UnwindableAlways(b) == TRUE  \* mutant: updated by id alone
Unwindable(b) == stay[b].status \in Held
Unwind(w) == LET j == job[w] IN
  /\ j.pc = "unwind"
  /\ \/ /\ Unwindable(j.id)
        /\ SetStay(j.id, [stay[j.id] EXCEPT !.status = j.to])
        /\ Become(w, [pc |-> "release", id |-> j.id, nights |-> stay[j.id].nights,
                      rooms |-> stay[j.id].rooms, done |-> {}, then |-> j.then])
     \/ ~Unwindable(j.id) /\ Become(w, j.then) /\ UNCHANGED stay
  /\ UNCHANGED <<calendar, charged, freed, week, crashes>>

\* releaseNights
ReleaseNight(w) ==
  /\ \E n \in Nights : Updates(w, "release", n) /\ Mark(w, n)
  /\ UNCHANGED <<calendar, stay, charged, freed, week, crashes>>

Lowered(n, rooms) == IF booked[n] >= rooms THEN booked[n] - rooms ELSE booked[n]
CommitRelease(w) == LET j == job[w] IN
  /\ Whole(w, "release")
  /\ booked' = [n \in Nights |-> IF n \in j.nights THEN Lowered(n, j.rooms) ELSE booked[n]]
  /\ freed' = freed \union {j.id}
  /\ Become(w, j.then)
  /\ UNCHANGED <<open, stay, charged, week, crashes>>

-------------------------------------------------------------------------------
\* initiateBookingPayment: the gateway opens a checkout under a reference derived
\* from the booking id, which is then written by id alone.
InitiatePayment(w, b) ==
  /\ job[w] = Idle
  /\ stay[b].status = "AWAITING_PAYMENT" /\ ~stay[b].late
  /\ Become(w, At(b, "checkout"))
  /\ UNCHANGED <<calendar, stay, charged, freed, week, crashes>>

SaveReference(w) == LET b == job[w].id IN
  /\ job[w].pc = "checkout"
  /\ SetStay(b, [stay[b] EXCEPT !.reference = TRUE])
  /\ Become(w, Idle)
  /\ UNCHANGED <<calendar, charged, freed, week, crashes>>

\* The guest pays on the gateway's page, which knows nothing of the deadline.
GuestPays(b) ==
  /\ stay[b].reference /\ b \notin charged
  /\ charged' = charged \union {b}
  /\ UNCHANGED <<calendar, stay, freed, week, job, crashes>>

\* confirmBookingPayment: read, ask the gateway, write under a guard.
ConfirmPayment(w, b) ==
  /\ job[w] = Idle
  /\ stay[b].status = "AWAITING_PAYMENT" /\ stay[b].reference
  /\ Become(w, At(b, "verify"))
  /\ UNCHANGED <<calendar, stay, charged, freed, week, crashes>>

Verify(w) == LET b == job[w].id IN
  /\ job[w].pc = "verify"
  /\ Become(w, IF b \in charged THEN At(b, "confirm") ELSE Idle)
  /\ UNCHANGED <<calendar, stay, charged, freed, week, crashes>>

ConfirmableAlways(b) == TRUE  \* mutant: confirmed by id alone
Confirmable(b) == stay[b].status = "AWAITING_PAYMENT"
Confirm(w) == LET b == job[w].id IN
  /\ job[w].pc = "confirm"
  /\ \/ /\ Confirmable(b)
        /\ SetStay(b, [stay[b] EXCEPT !.status = "CONFIRMED", !.paidAt = week,
                                      !.pins = @ + 1])
     \/ ~Confirmable(b) /\ UNCHANGED stay
  /\ Become(w, Idle)
  /\ UNCHANGED <<calendar, charged, freed, week, crashes>>

\* checkInBooking, checkOutBooking, markBookingNoShow: one guarded update each.
Desk(b, from, to) ==
  /\ stay[b].status = from
  /\ SetStay(b, [stay[b] EXCEPT !.status = to])
  /\ UNCHANGED <<calendar, charged, freed, week, job, crashes>>

-------------------------------------------------------------------------------
\* BOOKING_ACCEPT_WINDOW_MS or BOOKING_PAYMENT_WINDOW_MS goes by, or a week.
WindowCloses(b) ==
  /\ stay[b].status \in Held /\ ~stay[b].late
  /\ SetStay(b, [stay[b] EXCEPT !.late = TRUE])
  /\ UNCHANGED <<calendar, charged, freed, week, job, crashes>>

WeekEnds ==
  /\ week < LastWeek
  /\ week' = week + 1
  /\ UNCHANGED <<calendar, stay, charged, freed, job, crashes>>

\* The process ends, or a statement throws: an open transaction is rolled back.
Crash(w) ==
  /\ job[w] # Idle /\ crashes < MaxCrashes
  /\ crashes' = crashes + 1
  /\ Become(w, Idle)
  /\ UNCHANGED <<calendar, stay, charged, freed, week>>

HotelStep(w) ==
  \/ HoldNight(w) \/ CommitHold(w) \/ OpenNight(w) \/ CommitOpen(w)
  \/ AcceptWrite(w) \/ SweepNext(w) \/ Unwind(w) \/ ReleaseNight(w) \/ CommitRelease(w)
  \/ SaveReference(w) \/ Verify(w) \/ Confirm(w)

\* The statements that wait for the lock of a row.
WaitsForRow(w) == HoldNight(w) \/ OpenNight(w) \/ ReleaseNight(w)

Sweep == \E w \in Workers : BeginSweep(w)

HotelNext ==
  \/ \E w \in Workers :
       \/ \E nights \in Spans :
            \/ \E b \in Bookings, rooms \in RoomCounts : Create(w, b, nights, rooms)
            \/ \E rooms \in Rooms : OpenNights(w, nights, rooms)
       \/ \E b \in Bookings :
            Accept(w, b) \/ Reject(w, b) \/ InitiatePayment(w, b) \/ ConfirmPayment(w, b)
       \/ BeginSweep(w) \/ HotelStep(w) \/ Crash(w)
  \/ \E b \in Bookings :
       \/ GuestPays(b) \/ WindowCloses(b)
       \/ Desk(b, "CONFIRMED", "CHECKED_IN") \/ Desk(b, "CHECKED_IN", "CHECKED_OUT")
       \/ Desk(b, "CONFIRMED", "NO_SHOW")
  \/ WeekEnds
===============================================================================
