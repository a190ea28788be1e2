--------------------------- MODULE BookingSettlement ---------------------------
(***************************************************************************)
(* bookings/booking-settlement.service.ts beside everything that happens   *)
(* to the bookings meanwhile: on Monday a hotel is paid what its guests    *)
(* paid in the week before. A run reads what is owed, inserts the row of   *)
(* the week, claims the bookings, credits the wallet and closes the row,   *)
(* each in a statement of its own, and may start again at any time, also   *)
(* in a second process. The amount credited is named by the bookings it    *)
(* was summed over. There is one hotel.                                    *)
(***************************************************************************)
EXTENDS Bookings

VARIABLES settlement,  \* the status of each week's row
          paidOut      \* what the wallet was credited under each row's id

settleVars == <<settlement, paidOut>>
vars == <<hotelVars, settleVars>>

SettleJob == [pc : {"insert", "claim", "credit", "complete", "fail"}, week : Weeks,
              owed : SUBSET Bookings]
Job == HotelJob \union SettleJob

Init ==
  /\ HotelInit
  /\ settlement = [wk \in Weeks |-> "NONE"]
  /\ paidOut = [wk \in Weeks |-> {}]

-------------------------------------------------------------------------------
\* The WHERE of owedForPeriod and of the claim.
Claimable(b, wk) ==
  stay[b].status = "CONFIRMED" /\ stay[b].settledBy = Unsettled /\ stay[b].paidAt = wk
SettledBy(wk) == {b \in Bookings : stay[b].settledBy = wk}

\* runWeeklySettlement, for the week that ended last (settlementPeriod knows no other).
\* Days are not told apart: Monday is the start of the week. 
SettleWeek(w) ==
  /\ job[w] = Idle /\ week > 1
  /\ \E b \in Bookings : Claimable(b, week - 1)
  /\ Become(w, [pc |-> "insert", week |-> week - 1,
                owed |-> {b \in Bookings : Claimable(b, week - 1)}])
  /\ UNCHANGED <<calendar, stay, charged, freed, week, crashes, settleVars>>

\* Unique on (businessId, weekStarting): a second run bails out.
InsertRow(w) == LET j == job[w] IN
  /\ j.pc = "insert"
  /\ \/ /\ settlement[j.week] = "NONE"
        /\ settlement' = [settlement EXCEPT ![j.week] = "PENDING"]
        /\ Become(w, [j EXCEPT !.pc = "claim"])
     \/ settlement[j.week] # "NONE" /\ Become(w, Idle) /\ UNCHANGED settlement
  /\ UNCHANGED <<calendar, stay, charged, freed, week, crashes, paidOut>>

ClaimStays(w) == LET wk == job[w].week IN
  /\ job[w].pc = "claim"
  /\ stay' = [b \in Bookings |->
       IF Claimable(b, wk) THEN [stay[b] EXCEPT !.settledBy = wk] ELSE stay[b]]
  /\ Become(w, [job[w] EXCEPT
       !.pc = IF \E b \in Bookings : Claimable(b, wk) THEN "credit" ELSE "complete"])
  /\ UNCHANGED <<calendar, charged, freed, week, crashes, settleVars>>

\* "Sum what was actually claimed, not what the earlier group-by saw."
TotalOfOwed(j) == j.owed  \* mutant: the sum of the group-by
Total(j) == SettledBy(j.week)
CreditHotel(w) == LET j == job[w] IN
  /\ j.pc = "credit"
  /\ \/ /\ paidOut' = [paidOut EXCEPT ![j.week] = Total(j)]
        /\ Become(w, [j EXCEPT !.pc = "complete"])
     \/ Become(w, [j EXCEPT !.pc = "fail"]) /\ UNCHANGED paidOut
  /\ UNCHANGED <<calendar, stay, charged, freed, week, crashes, settlement>>

CloseRow(w) == LET j == job[w] IN
  /\ j.pc \in {"complete", "fail"}
  /\ settlement' = [settlement EXCEPT
       ![j.week] = IF j.pc = "complete" THEN "COMPLETED" ELSE "FAILED"]
  /\ Become(w, Idle)
  /\ UNCHANGED <<calendar, stay, charged, freed, week, crashes, paidOut>>

-------------------------------------------------------------------------------
SettleStep(w) == InsertRow(w) \/ ClaimStays(w) \/ CreditHotel(w) \/ CloseRow(w)

Next ==
  \/ HotelNext /\ UNCHANGED settleVars
  \/ \E w \in Workers : SettleWeek(w) \/ SettleStep(w)

Spec == Init /\ [][Next]_vars

\* A handler that started goes on; a wait for a row whose lock is released again
\* and again ends, since PostgreSQL queues those who wait; and the timer of the
\* expiry sweep fires again and again whatever requests keep the workers busy.
\* Nobody has to book, answer or pay, and no window has to close.
Step(w) == (HotelStep(w) /\ UNCHANGED settleVars) \/ SettleStep(w)
RowStep(w) == WaitsForRow(w) /\ UNCHANGED settleVars
SweepTicks == Sweep /\ UNCHANGED settleVars
LiveSpec ==
  /\ Spec
  /\ \A w \in Workers : WF_vars(Step(w)) /\ SF_vars(RowStep(w))
  /\ SF_vars(SweepTicks)

-------------------------------------------------------------------------------
\* Rows, calendar and handlers have their types.
TypeOK ==
  /\ open \in [Nights -> Rooms] /\ booked \in [Nights -> Rooms]
  /\ stay \in [Bookings -> Stay]
  /\ charged \subseteq Bookings /\ freed \subseteq Bookings /\ week \in Weeks
  /\ job \in [Workers -> Job] /\ crashes \in 0..MaxCrashes
  /\ settlement \in [Weeks -> {"NONE", "PENDING", "COMPLETED", "FAILED"}]
  /\ paidOut \in [Weeks -> SUBSET Bookings]

\* "THE invariant this whole model exists to protect", both ways: a night is
\* never sold beyond what is open, and roomsBooked is the rooms of the stays
\* that have that night and did not give it back. No lost update, no release of
\* another guest's room, no half of a stay.
Occupies(b, n) ==
  n \in stay[b].nights /\ (stay[b].status \in Held \union Kept \/ b \notin freed)
NeverOverbooked == \A n \in Nights : booked[n] <= open[n]
Sold(n) ==  \* numbered stay by stay
  UNION {{b} \X (1..stay[b].rooms) : b \in {c \in Bookings : Occupies(c, n)}}
CalendarIsStays ==
  /\ NeverOverbooked
  /\ \A n \in Nights : booked[n] = Cardinality(Sold(n))

\* "A hotel holding a PIN knows the money is in": a code is issued once, exactly
\* to the stays that were paid for, and no other stay is settled.
PinIsMoney == \A b \in Bookings :
  /\ stay[b].pins = IF stay[b].status \in Kept THEN 1 ELSE 0
  /\ stay[b].pins = 1 => b \in charged /\ stay[b].paidAt # Unpaid
  /\ stay[b].settledBy # Unsettled => stay[b].pins = 1

\* "The hotel must be paid for exactly the rows carrying this settlement's id":
\* what was credited for a week is the stays marked with it, all of that week,
\* though desks and other runs change rows between the sums and the claim.
SettlementPaysItsRows == \A wk \in Weeks :
  /\ paidOut[wk] # {} \/ settlement[wk] = "COMPLETED" => paidOut[wk] = SettledBy(wk)
  /\ \A b \in paidOut[wk] : stay[b].paidAt = wk

\* A booking whose window closed does not stay in the way: it ends, unless it was
\* accepted or paid for just then, and its rooms go back on sale unless a handler
\* died over it.
OverdueEnds == \A b \in Bookings :
  Overdue(b) ~> \/ stay[b].status \in Ended /\ (b \in freed \/ crashes > 0)
                \/ stay[b].status \in Kept
                \/ ~stay[b].late

\* The promise of RoomNights, read off the rows.
PhaseOf(b) ==
  CASE stay[b].status = "NONE" -> "none"
    [] stay[b].status \in Held -> "held"
    [] stay[b].status \in Kept -> "assured"
    [] OTHER -> IF b \in freed THEN "ended" ELSE "ending"
RoomsSold == INSTANCE RoomNights WITH
  Capacities <- Rooms,
  capacity   <- open,
  phase      <- [b \in Bookings |-> PhaseOf(b)],
  claim      <- [b \in Bookings |-> [nights |-> stay[b].nights, rooms |-> stay[b].rooms]]
ImplementsRooms == RoomsSold!Spec
===============================================================================
