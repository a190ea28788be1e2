---------------------------- MODULE DeliveryProofs ----------------------------
(***************************************************************************)
(* With any number of jobs, couriers and handlers, whatever is reassigned  *)
(* or taken back meanwhile, and wherever the process ends: a delivery is   *)
(* settled with one courier, once, and for cash not before his word. While *)
(* handlers do not overlap and none died, the count of a courier whose     *)
(* count was moved with every job is the number of jobs he has in hand.    *)
(***************************************************************************)
EXTENDS MCDeliveries, FiniteSetTheorems, TLAPS

\* What a handler of the settlement relies on: it read that the cash was confirmed, and
\* once it has claimed the settlement there is no posting but the one it will make.
Settling(h) == LET a == act[h] IN
  /\ a.pc \in {"claim", "pay"} /\ a.id \in cash => job[a.id].confirmed
  /\ a.pc = "pay" => job[a.id].settled /\ \A p \in posted : p.id # a.id

\* The claim of the settlement has one winner.
OnePayer == \A h, g \in Handlers :
  act[h].pc = "pay" /\ act[g].pc = "pay" /\ act[h].id = act[g].id => h = g

IInv ==
  /\ TypeOK
  /\ SettledOnce
  /\ \A h \in Handlers : Settling(h)
  /\ OnePayer

\* What no step takes back: the courier's word and the claim of a settlement.
Grow == \A j \in Jobs :
  /\ job[j].confirmed => job'[j].confirmed
  /\ job[j].settled => job'[j].settled

\* A step that is not about settlements: no handler begins one or goes on with one.
Elsewhere ==
  /\ UNCHANGED <<cash, posted>> /\ Grow
  /\ \A h \in Handlers : act'[h] = act[h] \/ act'[h].pc \notin {"claim", "pay"}

-------------------------------------------------------------------------------
LEMMA InitIInv == Init => IInv
<1>. SUFFICES ASSUME Init PROVE IInv  OBVIOUS
<1>1. TypeOK
  <2>1. NoRow \in Row  BY DEF NoRow, Row, Courier, Active, Final
  <2>2. Idle \in Act  BY DEF Act
  <2>. QED  BY <2>1, <2>2, DeliveriesConfig DEF Init, TypeOK
<1>2. SettledOnce  BY DEF Init, SettledOnce
<1>3. \A h \in Handlers : act[h].pc = "idle"  BY DEF Init, Idle
<1>. QED  BY <1>1, <1>2, <1>3 DEF IInv, Settling, OnePayer

-------------------------------------------------------------------------------
\* Types, action by action.
LEMMA ActTypes ==
  ASSUME TypeOK, NEW h \in Handlers, NEW a \in Act, Become(h, a)
  PROVE  act' \in [Handlers -> Act]
BY DEF Become, TypeOK

LEMMA CountTypes ==
  ASSUME TypeOK, NEW c, Lower(c)
  PROVE  count' \in [Couriers -> Nat]
<1>. DEFINE low == IF count[c] > 0 THEN count[c] - 1 ELSE 0
<1>1. count' = [count EXCEPT ![c] = low] /\ count \in [Couriers -> Nat]  BY DEF Lower, TypeOK
<1>2. c \in Couriers => low \in Nat  BY <1>1
<1>. HIDE DEF low
<1>. QED  BY <1>1, <1>2

\* What a handler carries, by its place.
LEMMA Carries ==
  ASSUME TypeOK, NEW h \in Handlers
  PROVE
    /\ act[h] \in Act
    /\ act[h].pc \in {"create", "confirm"} => act[h].id \in Jobs
    /\ act[h].pc = "seek" => act[h].id \in Jobs
    /\ act[h].pc \in {"assign", "swap", "raise"} =>
         act[h] \in [pc : {"assign", "swap", "raise"}, id : Jobs, prev : Courier, to : Couriers]
    /\ act[h].pc \in {"write", "free", "order"} =>
         act[h] \in [pc : {"write", "free", "order"}, id : Jobs, courier : Courier,
                     from : {"PENDING"} \union Active, to : Active \union Final]
    /\ act[h].pc \in {"clear", "release", "decline"} =>
         act[h] \in [pc : {"clear", "release", "decline"}, id : Jobs, courier : Couriers]
    /\ act[h].pc \in {"claim", "pay"} =>
         act[h] \in [pc : {"claim", "pay"}, id : Jobs, courier : Couriers]
<1>1. act[h] \in Act  BY DEF TypeOK
<1>. QED  BY <1>1 DEF Act, Idle

\* A handler that goes on keeps what it carries.
LEMMA GotoTypes ==
  ASSUME TypeOK, NEW h \in Handlers, NEW pc, Goto(h, pc),
         \/ act[h].pc \in {"assign", "swap", "raise"} /\ pc \in {"assign", "swap", "raise"}
         \/ act[h].pc \in {"write", "free", "order"} /\ pc \in {"write", "free", "order"}
         \/ act[h].pc \in {"clear", "release", "decline"} /\ pc \in {"clear", "release", "decline"}
         \/ act[h].pc \in {"claim", "pay"} /\ pc \in {"claim", "pay"}
  PROVE  /\ act' \in [Handlers -> Act]
         /\ act'[h].pc = pc /\ act'[h].id = act[h].id
         /\ \A g \in Handlers \ {h} : act'[g] = act[g]
<1>1. [act[h] EXCEPT !.pc = pc] \in Act /\ [act[h] EXCEPT !.pc = pc].pc = pc
      /\ [act[h] EXCEPT !.pc = pc].id = act[h].id
  <2>1. CASE act[h].pc \in {"assign", "swap", "raise"}  BY <2>1, Carries DEF Act
  <2>2. CASE act[h].pc \in {"write", "free", "order"}  BY <2>2, Carries DEF Act
  <2>3. CASE act[h].pc \in {"clear", "release", "decline"}  BY <2>3, Carries DEF Act
  <2>4. CASE act[h].pc \in {"claim", "pay"}  BY <2>4, Carries DEF Act
  <2>. QED  BY <2>1, <2>2, <2>3, <2>4
<1>. QED  BY <1>1 DEF Goto, Become, TypeOK

\* The edits of a row: how it stands, the courier's word, the claim.
LEMMA Edits ==
  ASSUME TypeOK, NEW j \in Jobs,
         NEW to \in {"PENDING"} \union Active \union Final
  PROVE
    LET row == job[j]
        moved == [row EXCEPT !.status = to, !.late = FALSE]
        confirmed == [row EXCEPT !.confirmed = TRUE]
        claimed == [row EXCEPT !.settled = TRUE]
    IN  /\ {moved, confirmed, claimed} \subseteq Row
        /\ moved.confirmed = row.confirmed /\ moved.settled = row.settled
        /\ claimed.confirmed = row.confirmed /\ claimed.settled
        /\ confirmed.settled = row.settled /\ confirmed.confirmed
<1>1. job[j] \in Row  BY DEF TypeOK
<1>. QED  BY <1>1 DEF Row

\* The row of one job is written; the rest of the state, but for the handlers, is typed.
LEMMA RowTypes ==
  ASSUME TypeOK, NEW j \in Jobs, NEW r \in Row, job' = [job EXCEPT ![j] = r]
  PROVE  job' \in [Jobs -> Row]
BY DEF TypeOK

\* A step of a handler that starts or goes on with something other than a settlement.
LEMMA OneActs ==
  ASSUME TypeOK, NEW h \in Handlers, NEW a \in Act, Become(h, a), a.pc \notin {"claim", "pay"}
  PROVE  /\ act' \in [Handlers -> Act]
         /\ \A g \in Handlers : act'[g] = act[g] \/ act'[g].pc \notin {"claim", "pay"}
BY DEF Become, TypeOK

LEMMA OneGoes ==
  ASSUME TypeOK, NEW h \in Handlers, NEW pc, Goto(h, pc),
         \/ act[h].pc \in {"assign", "swap", "raise"} /\ pc \in {"assign", "swap", "raise"}
         \/ act[h].pc \in {"write", "free", "order"} /\ pc \in {"write", "free", "order"}
         \/ act[h].pc \in {"clear", "release", "decline"} /\ pc \in {"clear", "release", "decline"}
  PROVE  /\ act' \in [Handlers -> Act]
         /\ \A g \in Handlers : act'[g] = act[g] \/ act'[g].pc \notin {"claim", "pay"}
<1>1. act' \in [Handlers -> Act] /\ act'[h].pc = pc /\ \A g \in Handlers \ {h} : act'[g] = act[g]
  BY GotoTypes
<1>. QED  BY <1>1

\* What every step does to the types, and what the steps that settle nothing leave alone.
Harmless == TypeOK' /\ Elsewhere

LEMMA RowGrows ==
  ASSUME TypeOK, NEW j \in Jobs, NEW r \in Row, job' = [job EXCEPT ![j] = r],
         job[j].confirmed => r.confirmed, job[j].settled => r.settled
  PROVE  Grow
BY DEF Grow, TypeOK

LEMMA RequestTypes ==
  ASSUME TypeOK, NEW h \in Workers, NEW j \in Jobs, Request(h, j)
  PROVE  Harmless
<1>. h \in Handlers  BY DEF Handlers
<1>1. UNCHANGED <<rows, cash, roster, money, sweep, crashes>>
  BY DEF Request, Call, Reject, BeginConfirm, AssignByHand, NothingElse
<1>2. PICK a \in Act : Become(h, a) /\ a.pc \in {"write", "clear", "confirm", "assign"}
  <2>1. ASSUME Call(h, j) PROVE \E a \in Act : Become(h, a) /\ a.pc = "write"
    <3>1. PICK to \in Calls(j) :
            Become(h, [pc |-> "write", id |-> j, courier |-> job[j].courier,
                       from |-> job[j].status, to |-> to])
      BY <2>1 DEF Call
    <3>2. job[j].courier \in Courier /\ job[j].status \in {"PENDING"} \union Active
          /\ to \in Active \union Final
      BY DEF Calls, TypeOK, Row, Active, Final
    <3>. QED  BY <3>1, <3>2 DEF Act
  <2>2. ASSUME Reject(h, j) PROVE \E a \in Act : Become(h, a) /\ a.pc = "clear"
    <3>1. job[j].courier \in Couriers  BY <2>2 DEF Reject, TypeOK, Row, Courier
    <3>. QED  BY <2>2, <3>1 DEF Reject, Act
  <2>3. ASSUME BeginConfirm(h, j) PROVE \E a \in Act : Become(h, a) /\ a.pc = "confirm"
    BY <2>3 DEF BeginConfirm, Act
  <2>4. ASSUME NEW c \in Couriers, AssignByHand(h, j, c)
        PROVE  \E a \in Act : Become(h, a) /\ a.pc = "assign"
    <3>1. job[j].courier \in Courier  BY DEF TypeOK, Row
    <3>. QED  BY <2>4, <3>1 DEF AssignByHand, Act
  <2>. QED  BY <2>1, <2>2, <2>3, <2>4 DEF Request
<1>. QED  BY <1>1, <1>2, OneActs DEF Harmless, Elsewhere, Grow, TypeOK, rows, roster, money

LEMMA TickTypes == ASSUME TypeOK, Tick PROVE Harmless
<1>. Timer \in Handlers  BY DEF Handlers
<1>0. UNCHANGED <<rows, cash, roster, money, crashes>>
  BY DEF Tick, Sweep, Reclaim, Redispatch, SweepExcept
<1>1. CASE Sweep
  <2>1. sweep' \in [pass : {"off", "reclaim", "dispatch"}, left : SUBSET Jobs] /\ act' = act
    BY <1>1 DEF Sweep, Lapsed, Oldest, Unassigned, TypeOK
  <2>. QED  BY <1>0, <2>1 DEF Harmless, Elsewhere, Grow, TypeOK, rows, roster, money
<1>2. CASE Reclaim \/ Redispatch
  <2>1. PICK j \in sweep.left : sweep' = [sweep EXCEPT !.left = @ \ {j}]
          /\ \/ Become(Timer, Idle)
             \/ job[j].courier # NoCourier
                /\ Become(Timer, [pc |-> "clear", id |-> j, courier |-> job[j].courier])
             \/ Become(Timer, [pc |-> "seek", id |-> j, except |-> {}])
    BY <1>2 DEF Reclaim, Redispatch
  <2>2. j \in Jobs /\ sweep' \in [pass : {"off", "reclaim", "dispatch"}, left : SUBSET Jobs]
    BY <2>1 DEF TypeOK
  <2>3. job[j].courier \in Courier  BY <2>2 DEF TypeOK, Row
  <2>4. PICK a \in Act : Become(Timer, a) /\ a.pc \in {"idle", "clear", "seek"}
    BY <2>1, <2>2, <2>3 DEF Act, Idle, Courier
  <2>. QED  BY <1>0, <2>2, <2>4, OneActs DEF Harmless, Elsewhere, Grow, TypeOK, rows, roster, money
<1>. QED  BY <1>1, <1>2 DEF Tick

LEMMA WorldTypes == ASSUME TypeOK, World PROVE Harmless
<1>1. CASE \E c \in Couriers : GoOnline(c) \/ GoOffline(c)
  BY <1>1 DEF GoOnline, GoOffline, Harmless, Elsewhere, Grow, TypeOK, rows, roster, money
<1>2. ASSUME NEW j \in Jobs, CancelOrder(j) PROVE Harmless
  BY <1>2 DEF CancelOrder, NothingElse, Harmless, Elsewhere, Grow, TypeOK, roster, money
<1>3. ASSUME NEW j \in Jobs, Lapse(j) PROVE Harmless
  <2>1. job' = [job EXCEPT ![j] = [job[j] EXCEPT !.late = TRUE]]
        /\ [job[j] EXCEPT !.late = TRUE] \in Row
    BY <1>3 DEF Lapse, TypeOK, Row
  <2>2. job' \in [Jobs -> Row] /\ Grow  BY <2>1, RowTypes, RowGrows DEF TypeOK, Row
  <2>. QED  BY <1>3, <2>2 DEF Lapse, NothingElse, Harmless, Elsewhere, TypeOK, roster, money
<1>4. ASSUME NEW j \in Jobs, Forget(j) PROVE Harmless
  BY <1>4 DEF Forget, NothingElse, Harmless, Elsewhere, Grow, TypeOK, roster, money
<1>. QED  BY <1>1, <1>2, <1>3, <1>4 DEF World

LEMMA RestartTypes == ASSUME TypeOK, Restart PROVE Harmless
<1>1. Idle \in Act /\ Idle.pc = "idle"  BY DEF Act, Idle
<1>2. crashes' \in 0..MaxCrashes  BY DeliveriesConfig DEF Restart, TypeOK
<1>. QED  BY <1>1, <1>2 DEF Restart, Harmless, Elsewhere, Grow, TypeOK, rows, roster

\* The steps of a handler other than the claim and the posting of a settlement.
LEMMA StepTypes ==
  ASSUME TypeOK, NEW h \in Handlers, Step(h), ~Claim(h), ~Pay(h)
  PROVE  Harmless
<1>. DEFINE a == act[h]
<1>. USE DEF money, roster
<1>1. CASE Create(h)
  <2>1. a.id \in Jobs  BY <1>1, Carries DEF Create
  <2>2. [pc |-> "seek", id |-> a.id, except |-> {}] \in Act /\ Idle \in Act  BY <2>1 DEF Act
  <2>3. CASE job' = job /\ Become(h, Idle)
    BY <1>1, <2>2, <2>3, OneActs
       DEF Create, NothingElse, Harmless, Elsewhere, Grow, TypeOK, Idle
  <2>4. CASE /\ job' = [job EXCEPT ![a.id].status = "PENDING"]
             /\ Become(h, [pc |-> "seek", id |-> a.id, except |-> {}])
    <3>1. [job[a.id] EXCEPT !.status = "PENDING"] \in Row
      <4>1. job[a.id] \in Row  BY <2>1 DEF TypeOK
      <4>. QED  BY <4>1 DEF Row
    <3>2. job' = [job EXCEPT ![a.id] = [job[a.id] EXCEPT !.status = "PENDING"]]
      BY <2>4
    <3>3. job' \in [Jobs -> Row] /\ Grow  BY <2>1, <3>1, <3>2, RowTypes, RowGrows DEF TypeOK, Row
    <3>. QED
      BY <1>1, <2>2, <2>4, <3>3, OneActs DEF Create, NothingElse, Harmless, Elsewhere, TypeOK
  <2>. QED  BY <1>1, <2>3, <2>4 DEF Create
<1>2. CASE Seek(h)
  <2>1. a.id \in Jobs  BY <1>2, Carries DEF Seek
  <2>2. PICK b \in Act : Become(h, b) /\ b.pc \in {"assign", "idle"}
    <3>1. Idle \in Act /\ Idle.pc = "idle"  BY DEF Act, Idle
    <3>2. \A c \in Couriers : [pc |-> "assign", id |-> a.id, prev |-> NoCourier, to |-> c] \in Act
      BY <2>1 DEF Act, Courier
    <3>. QED  BY <1>2, <3>1, <3>2 DEF Seek
  <2>. QED
    BY <1>2, <2>2, OneActs DEF Seek, NothingElse, Harmless, Elsewhere, Grow, TypeOK, rows
<1>3. CASE Assign(h)
  <2>1. a.id \in Jobs /\ a.to \in Couriers  BY <1>3, Carries DEF Assign
  <2>. DEFINE r == [job[a.id] EXCEPT !.courier = a.to, !.status = "ASSIGNED", !.late = FALSE]
  <2>2. r \in Row /\ r.confirmed = job[a.id].confirmed /\ r.settled = job[a.id].settled
    <3>1. a.to \in Courier /\ "ASSIGNED" \in {"PENDING"} \union Active \union Final
      BY <2>1 DEF Courier, Active
    <3>2. job[a.id] \in Row  BY <2>1 DEF TypeOK
    <3>. QED  BY <3>1, <3>2 DEF Row
  <2>3. job' = [job EXCEPT ![a.id] = r]  BY <1>3, <2>1 DEF Assign, TypeOK
  <2>4. job' \in [Jobs -> Row] /\ Grow  BY <2>1, <2>2, <2>3, RowTypes, RowGrows
  <2>5. /\ act' \in [Handlers -> Act]
        /\ \A g \in Handlers : act'[g] = act[g] \/ act'[g].pc \notin {"claim", "pay"}
    <3>1. Idle \in Act /\ Idle.pc = "idle"  BY DEF Act, Idle
    <3>. QED  BY <1>3, <3>1, OneActs, OneGoes DEF Assign
  <2>6. uncounted' \subseteq Couriers
    BY <1>3, <2>1, DeliveriesConfig DEF Assign, Selves, TypeOK
  <2>. QED  BY <1>3, <2>4, <2>5, <2>6 DEF Assign, Harmless, Elsewhere, TypeOK
<1>4. CASE Swap(h)
  <2>1. /\ act' \in [Handlers -> Act]
        /\ \A g \in Handlers : act'[g] = act[g] \/ act'[g].pc \notin {"claim", "pay"}
    BY <1>4, OneGoes DEF Swap
  <2>2. count' \in [Couriers -> Nat]  BY <1>4, CountTypes DEF Swap
  <2>. QED  BY <1>4, <2>1, <2>2 DEF Swap, NothingElse, Harmless, Elsewhere, Grow, TypeOK
<1>5. CASE Raise(h)
  <2>1. a.to \in Couriers  BY <1>5, Carries DEF Raise
  <2>2. count' \in [Couriers -> Nat] /\ uncounted' \subseteq Couriers
    BY <1>5, <2>1 DEF Raise, TypeOK
  <2>3. Idle \in Act /\ Idle.pc = "idle"  BY DEF Act, Idle
  <2>. QED
    BY <1>5, <2>2, <2>3, OneActs DEF Raise, Harmless, Elsewhere, Grow, TypeOK
<1>6. CASE Write(h)
  <2>1. a.id \in Jobs /\ a.to \in Active \union Final  BY <1>6, Carries DEF Write
  <2>. DEFINE r == [job[a.id] EXCEPT !.status = a.to, !.late = FALSE]
  <2>2. r \in Row /\ r.confirmed = job[a.id].confirmed /\ r.settled = job[a.id].settled
    BY <2>1, Edits
  <2>3. job' = [job EXCEPT ![a.id] = r]  BY <1>6, <2>1 DEF Write, TypeOK
  <2>4. job' \in [Jobs -> Row] /\ Grow  BY <2>1, <2>2, <2>3, RowTypes, RowGrows
  <2>5. /\ act' \in [Handlers -> Act]
        /\ \A g \in Handlers : act'[g] = act[g] \/ act'[g].pc \notin {"claim", "pay"}
    <3>1. Idle \in Act /\ Idle.pc = "idle"  BY DEF Act, Idle
    <3>. QED  BY <1>6, <3>1, OneActs, OneGoes DEF Write
  <2>. QED  BY <1>6, <2>4, <2>5 DEF Write, NothingElse, Harmless, Elsewhere, TypeOK
<1>7. CASE ReleaseCapacity(h)
  <2>1. /\ act' \in [Handlers -> Act]
        /\ \A g \in Handlers : act'[g] = act[g] \/ act'[g].pc \notin {"claim", "pay"}
    <3>1. Idle \in Act /\ Idle.pc = "idle"  BY DEF Act, Idle
    <3>. QED  BY <1>7, <3>1, OneActs, OneGoes DEF ReleaseCapacity
  <2>2. count' \in [Couriers -> Nat]  BY <1>7, CountTypes DEF ReleaseCapacity
  <2>. QED
    BY <1>7, <2>1, <2>2 DEF ReleaseCapacity, NothingElse, Harmless, Elsewhere, Grow, TypeOK
<1>8. CASE MoveOrder(h)
  <2>1. a.id \in Jobs  BY <1>8, Carries DEF MoveOrder
  <2>2. due' \subseteq Jobs
        /\ order' \in [Jobs -> {"READY", "WITH_RIDER", "DELIVERED", "CANCELLED"}]
    BY <1>8, <2>1 DEF MoveOrder, TypeOK
  <2>3. Idle \in Act /\ Idle.pc = "idle"  BY DEF Act, Idle
  <2>. QED  BY <1>8, <2>2, <2>3, OneActs DEF MoveOrder, Harmless, Elsewhere, Grow, TypeOK
<1>9. CASE ClearRider(h)
  <2>1. a.id \in Jobs  BY <1>9, Carries DEF ClearRider
  <2>. DEFINE r == [job[a.id] EXCEPT !.courier = NoCourier, !.status = "PENDING", !.late = FALSE]
  <2>2. r \in Row /\ r.confirmed = job[a.id].confirmed /\ r.settled = job[a.id].settled
    <3>1. NoCourier \in Courier /\ "PENDING" \in {"PENDING"} \union Active \union Final
      BY DEF Courier
    <3>2. job[a.id] \in Row  BY <2>1 DEF TypeOK
    <3>. QED  BY <3>1, <3>2 DEF Row
  <2>3. job' = [job EXCEPT ![a.id] = r]  BY <1>9, <2>1 DEF ClearRider, TypeOK
  <2>4. job' \in [Jobs -> Row] /\ Grow  BY <2>1, <2>2, <2>3, RowTypes, RowGrows
  <2>5. /\ act' \in [Handlers -> Act]
        /\ \A g \in Handlers : act'[g] = act[g] \/ act'[g].pc \notin {"claim", "pay"}
    BY <1>9, OneGoes DEF ClearRider
  <2>. QED  BY <1>9, <2>4, <2>5 DEF ClearRider, NothingElse, Harmless, Elsewhere, TypeOK
<1>10. CASE Release(h)
  <2>1. /\ act' \in [Handlers -> Act]
        /\ \A g \in Handlers : act'[g] = act[g] \/ act'[g].pc \notin {"claim", "pay"}
    BY <1>10, OneGoes DEF Release
  <2>2. count' \in [Couriers -> Nat]  BY <1>10, CountTypes DEF Release
  <2>. QED  BY <1>10, <2>1, <2>2 DEF Release, NothingElse, Harmless, Elsewhere, Grow, TypeOK
<1>11. CASE Decline(h)
  <2>1. a.id \in Jobs /\ a.courier \in Couriers  BY <1>11, Carries DEF Decline
  <2>2. declined' \in [Jobs -> SUBSET Couriers]  BY <1>11, <2>1 DEF Decline, TypeOK, Selves
  <2>3. [pc |-> "seek", id |-> a.id, except |-> Selves(a.courier)] \in Act
    BY <2>1 DEF Act, Selves
  <2>. QED
    BY <1>11, <2>2, <2>3, OneActs DEF Decline, NothingElse, Harmless, Elsewhere, Grow, TypeOK
<1>12. CASE Confirm(h)
  <2>1. a.id \in Jobs  BY <1>12, Carries DEF Confirm
  <2>2. [job[a.id] EXCEPT !.confirmed = TRUE] \in Row  BY <2>1, Edits
  <2>3. job' = [job EXCEPT ![a.id] = [job[a.id] EXCEPT !.confirmed = TRUE]]  BY <1>12 DEF Confirm
  <2>4. job' \in [Jobs -> Row] /\ Grow
    BY <2>1, <2>2, <2>3, RowTypes, RowGrows DEF TypeOK, Row
  <2>5. due' \subseteq Jobs /\ Idle \in Act /\ Idle.pc = "idle"
    BY <1>12, <2>1 DEF Confirm, TypeOK, Act, Idle
  <2>. QED  BY <1>12, <2>4, <2>5, OneActs DEF Confirm, Harmless, Elsewhere, TypeOK
<1>. QED
  BY <1>1, <1>2, <1>3, <1>4, <1>5, <1>6, <1>7, <1>8, <1>9, <1>10, <1>11, <1>12 DEF Step

-------------------------------------------------------------------------------
\* A step that is not about settlements leaves every claim about them standing.
LEMMA HarmlessKeeps == ASSUME IInv, Harmless PROVE IInv'
<1>1. SettledOnce'
  BY DEF IInv, Harmless, Elsewhere, Grow, SettledOnce, TypeOK, Posting
<1>2. ASSUME NEW h \in Handlers PROVE Settling(h)'
  <2>1. CASE act'[h].pc \notin {"claim", "pay"}  BY <2>1 DEF Settling
  <2>2. CASE act'[h] = act[h] /\ act[h].pc \in {"claim", "pay"}
    <3>1. act[h].id \in Jobs  BY <2>2, Carries DEF IInv
    <3>. QED  BY <2>2, <3>1 DEF IInv, Harmless, Elsewhere, Grow, Settling
  <2>. QED  BY <2>1, <2>2 DEF Harmless, Elsewhere
<1>3. OnePayer'  BY DEF IInv, Harmless, Elsewhere, OnePayer
<1>. QED  BY <1>1, <1>2, <1>3 DEF IInv, Harmless

\* The event is taken up: the handler checks the row before it claims the settlement.
LEMMA EventKeeps ==
  ASSUME IInv, NEW h \in Workers, NEW j \in Jobs, Event(h, j)
  PROVE  IInv'
<1>. h \in Handlers /\ TypeOK  BY DEF Handlers, IInv
<1>1. CASE BeginCreate(h, j)
  <2>1. [pc |-> "create", id |-> j] \in Act  BY DEF Act
  <2>. QED
    BY <1>1, <2>1, OneActs, HarmlessKeeps
       DEF BeginCreate, NothingElse, Harmless, Elsewhere, Grow, TypeOK, rows, roster, money
<1>2. CASE BeginSettle(h, j)
  <2>. DEFINE go == [pc |-> "claim", id |-> j, courier |-> job[j].courier]
  <2>1. UNCHANGED <<rows, cash, roster, posted, sweep, crashes>> /\ due' \subseteq Jobs
    BY <1>2 DEF BeginSettle, TypeOK
  <2>2. CASE Become(h, Idle)
    <3>1. Idle \in Act /\ Idle.pc = "idle"  BY DEF Act, Idle
    <3>. QED
      BY <2>1, <2>2, <3>1, OneActs, HarmlessKeeps DEF Harmless, Elsewhere, Grow, TypeOK, rows, roster
  <2>3. CASE MaySettle(j) /\ Become(h, go)
    <3>1. job[j].courier \in Couriers  BY <2>3 DEF MaySettle, TypeOK, Row, Courier
    <3>2. go \in Act  BY <3>1 DEF Act
    <3>3. act' = [act EXCEPT ![h] = go] /\ act' \in [Handlers -> Act]
      BY <2>3, <3>2, ActTypes DEF Become
    <3>4. TypeOK'  BY <2>1, <3>3 DEF TypeOK, rows, roster
    <3>5. SettledOnce'  BY <2>1 DEF IInv, SettledOnce, rows
    <3>6. ASSUME NEW g \in Handlers PROVE Settling(g)'
      <4>1. CASE g = h  BY <2>1, <2>3, <3>3, <4>1 DEF Settling, MaySettle, rows, TypeOK
      <4>2. CASE g # h
        <5>1. act'[g] = act[g]  BY <3>3, <4>2 DEF TypeOK
        <5>. QED  BY <2>1, <5>1 DEF IInv, Settling, rows
      <4>. QED  BY <4>1, <4>2
    <3>7. OnePayer'  BY <3>3 DEF IInv, OnePayer, TypeOK
    <3>. QED  BY <3>4, <3>5, <3>6, <3>7 DEF IInv
  <2>. QED  BY <1>2, <2>2, <2>3 DEF BeginSettle
<1>. QED  BY <1>1, <1>2 DEF Event

\* The claim: the first to find the row unclaimed is the only one to go on.
LEMMA ClaimKeeps == ASSUME IInv, NEW h \in Handlers, Claim(h) PROVE IInv'
<1>. DEFINE a == act[h]
<1>1. TypeOK /\ a.pc = "claim" /\ a.id \in Jobs  BY Carries DEF Claim, IInv
<1>2. UNCHANGED <<order, count, declined, cash, roster, money, sweep, crashes>>
  BY DEF Claim, NothingElse
<1>3. CASE Become(h, Idle) /\ job' = job
  <2>1. Idle \in Act /\ Idle.pc = "idle"  BY DEF Act, Idle
  <2>. QED
    BY <1>1, <1>2, <1>3, <2>1, OneActs, HarmlessKeeps DEF Harmless, Elsewhere, Grow, TypeOK, roster, money
<1>4. CASE /\ ~job[a.id].settled
           /\ job' = [job EXCEPT ![a.id].settled = TRUE] /\ Goto(h, "pay")
  <2>. DEFINE r == [job[a.id] EXCEPT !.settled = TRUE]
  <2>1. r \in Row /\ r.settled /\ r.confirmed = job[a.id].confirmed
    BY <1>1, Edits
  <2>2. job' = [job EXCEPT ![a.id] = r]  BY <1>4
  <2>3. job' \in [Jobs -> Row] /\ Grow  BY <1>1, <2>1, <2>2, RowTypes, RowGrows
  <2>4. /\ act' \in [Handlers -> Act] /\ act'[h].pc = "pay" /\ act'[h].id = a.id
        /\ \A g \in Handlers \ {h} : act'[g] = act[g]
    BY <1>1, <1>4, GotoTypes
  <2>5. TypeOK'  BY <1>1, <1>2, <2>3, <2>4 DEF TypeOK, roster, money
  <2>6. SettledOnce'
    BY <1>1, <1>2, <2>3 DEF IInv, SettledOnce, Grow, TypeOK, Posting, money
  <2>7. \A p \in posted : p.id # a.id  BY <1>4 DEF IInv, SettledOnce
  <2>8. ASSUME NEW g \in Handlers PROVE Settling(g)'
    <3>1. CASE g = h
      <4>1. a.id \in cash => job[a.id].confirmed  BY <1>1 DEF IInv, Settling
      <4>2. job'[a.id] = r  BY <1>1, <2>2 DEF TypeOK
      <4>. QED  BY <1>2, <2>1, <2>4, <2>7, <3>1, <4>1, <4>2 DEF Settling, money
    <3>2. CASE g # h
      <4>1. act'[g] = act[g] /\ Settling(g)  BY <2>4, <3>2 DEF IInv
      <4>2. act[g].pc \in {"claim", "pay"} => act[g].id \in Jobs  BY <1>1, Carries
      <4>. QED  BY <1>2, <2>3, <4>1, <4>2 DEF Settling, Grow, money
    <3>. QED  BY <3>1, <3>2
  <2>9. OnePayer'
    <3>1. \A g \in Handlers : act[g].pc = "pay" => act[g].id # a.id
      BY <1>4 DEF IInv, Settling
    <3>. QED  BY <2>4, <3>1 DEF IInv, OnePayer
  <2>. QED  BY <2>5, <2>6, <2>8, <2>9 DEF IInv
<1>. QED  BY <1>3, <1>4 DEF Claim

\* The posting: whoever claimed the settlement makes it, or lets it go; nobody else does.
LEMMA PayKeeps == ASSUME IInv, NEW h \in Handlers, Pay(h) PROVE IInv'
<1>. DEFINE a == act[h]
            p == [id |-> a.id, courier |-> a.courier,
                  kind |-> IF a.id \in cash THEN "debt" ELSE "earning"]
<1>1. TypeOK /\ a.pc = "pay" /\ a.id \in Jobs /\ a.courier \in Couriers
  BY Carries DEF Pay, IInv
<1>2. UNCHANGED <<rows, cash, roster, due, sweep, crashes>> /\ Become(h, Idle)
      /\ posted' \in {posted \union {p}, posted}
  BY DEF Pay
<1>3. act' \in [Handlers -> Act] /\ act'[h].pc = "idle"
      /\ \A g \in Handlers \ {h} : act'[g] = act[g]
  BY <1>1, <1>2 DEF Become, TypeOK, Act, Idle
<1>4. p \in Posting  BY <1>1 DEF Posting
<1>5. TypeOK'  BY <1>1, <1>2, <1>3, <1>4 DEF TypeOK, rows, roster
<1>6. job[a.id].settled /\ (a.id \in cash => job[a.id].confirmed) /\ \A q \in posted : q.id # a.id
  BY <1>1 DEF IInv, Settling
<1>7. SettledOnce'  BY <1>2, <1>6 DEF IInv, SettledOnce, rows
<1>8. ASSUME NEW g \in Handlers PROVE Settling(g)'
  <2>1. CASE g = h  BY <1>3, <2>1 DEF Settling
  <2>2. CASE g # h
    <3>1. act'[g] = act[g] /\ Settling(g)  BY <1>3, <2>2 DEF IInv
    <3>2. act[g].pc = "pay" => act[g].id # a.id  BY <1>1, <2>2 DEF IInv, OnePayer
    <3>. QED  BY <1>2, <3>1, <3>2 DEF Settling, rows
  <2>. QED  BY <2>1, <2>2
<1>9. OnePayer'  BY <1>3 DEF IInv, OnePayer
<1>. QED  BY <1>5, <1>7, <1>8, <1>9 DEF IInv

LEMMA NextKeeps == ASSUME IInv, [Next]_vars PROVE IInv'
<1>1. TypeOK  BY DEF IInv
<1>2. CASE Next
  <2>1. ASSUME NEW h \in Workers, NEW j \in Jobs, Request(h, j) PROVE IInv'
    BY <1>1, <2>1, RequestTypes, HarmlessKeeps
  <2>2. ASSUME NEW h \in Workers, NEW j \in Jobs, Event(h, j) PROVE IInv'
    BY <2>2, EventKeeps
  <2>3. ASSUME NEW h \in Handlers, Step(h) PROVE IInv'
    BY <1>1, <2>3, StepTypes, HarmlessKeeps, ClaimKeeps, PayKeeps
  <2>4. CASE Tick \/ World \/ Restart
    BY <1>1, <2>4, TickTypes, WorldTypes, RestartTypes, HarmlessKeeps
  <2>. QED  BY <1>2, <2>1, <2>2, <2>3, <2>4 DEF Next
<1>3. CASE UNCHANGED vars
  BY <1>1, <1>3, HarmlessKeeps DEF vars, rows, roster, money, Harmless, Elsewhere, Grow, TypeOK
<1>. QED  BY <1>2, <1>3

\* The inductive invariant holds in every reachable state.
THEOREM DeliveryInvariant == Spec => []IInv
  BY InitIInv, NextKeeps, PTL DEF Spec

\* Rows, counts, events and handlers always have their types: no count of a courier's
\* jobs falls below zero, however often it is lowered (decrementActiveJobCount), and only
\* a job with a courier is settled.
THEOREM DeliveryTypes == Spec => []TypeOK
<1>1. IInv => TypeOK  BY DEF IInv
<1>. QED  BY <1>1, DeliveryInvariant, PTL

\* Both events may settle a delivery, at once and again, while it is reassigned and taken
\* back, and the process may end: it is settled with one courier, once, and a cash
\* delivery not before the courier confirmed it (settleDelivery).
THEOREM DeliveriesSettledOnce == Spec => []SettledOnce
<1>1. IInv => SettledOnce  BY DEF IInv
<1>. QED  BY <1>1, DeliveryInvariant, PTL

-------------------------------------------------------------------------------
\* Serial handlers. The count of a courier and the jobs he has in hand differ by what
\* the one handler in progress has still to write, if he got and lost none uncounted.
InHand(c) == {j \in Jobs : job[j].courier = c /\ job[j].status \in Active}

Short(a, c) == a.pc \in {"swap", "raise"} /\ a.to = c
Excess(a, c) == \/ a.pc \in {"free", "release"} /\ a.courier = c
                \/ a.pc = "swap" /\ a.prev = c
Off(a, c) == IF Short(a, c) THEN -1 ELSE IF Excess(a, c) THEN 1 ELSE 0
CountsAreOff(a) == \A c \in Couriers :
  /\ IsFiniteSet(InHand(c))
  /\ c \notin uncounted => count[c] = Cardinality(InHand(c)) + Off(a, c)

\* What it read still holds.
Knows(a) ==
  /\ a.pc \in {"seek", "release", "decline"} => a.id \in Unassigned
  /\ a.pc = "assign" => /\ job[a.id].courier = a.prev
                        /\ job[a.id].status \in {"PENDING"} \union Active
  /\ a.pc = "swap" => a.prev \in Couriers /\ a.prev # a.to
  /\ a.pc = "write" => /\ job[a.id].courier = a.courier /\ job[a.id].status = a.from
                       /\ a.to \in Calls(a.id)
  /\ a.pc = "free" => a.courier \in Couriers
  /\ a.pc = "clear" => job[a.id].status = "ASSIGNED" /\ job[a.id].courier = a.courier

\* A job has a courier from its assignment on.
RowsAgree == \A j \in Jobs :
  /\ job[j].status \in {"NONE", "PENDING"} => job[j].courier = NoCourier
  /\ job[j].status \in Active => job[j].courier \in Couriers

SerialIInv ==
  /\ \A g, h \in Busy : g = h
  /\ RowsAgree
  /\ \A h \in Busy : Knows(act[h]) /\ CountsAreOff(act[h])
  /\ Busy = {} => CountsAreOff(Idle)

MCIInv == IInv /\ (serial /\ crashes = 0 => SerialIInv)

\* Nothing of what a handler carries has to do with the counts.
Even == {"idle", "create", "seek", "assign", "write", "order", "clear", "decline",
         "claim", "pay", "confirm"}
\* Who has which job, and how it stands, is as it was.
SameHands ==
  /\ \A j \in Jobs : job'[j].status = job[j].status /\ job'[j].courier = job[j].courier
  /\ count' = count /\ uncounted' = uncounted
Placed(a) == a = Idle \/ a.id \in Jobs

LEMMA InitMCIInv == MCInit => MCIInv
<1>. SUFFICES ASSUME MCInit PROVE SerialIInv  BY InitIInv DEF MCInit, MCIInv
<1>1. Busy = {}  BY DEF MCInit, Init, Busy
<1>2. RowsAgree  BY DEF MCInit, Init, RowsAgree, NoRow, Active
<1>3. ASSUME NEW c \in Couriers PROVE InHand(c) = {} /\ Off(Idle, c) = 0 /\ count[c] = 0
  BY DEF MCInit, Init, InHand, NoRow, Active, Off, Short, Excess, Idle
<1>4. IsFiniteSet({}) /\ Cardinality({}) = 0  BY FS_EmptySet
<1>5. CountsAreOff(Idle)  BY <1>3, <1>4 DEF CountsAreOff
<1>. QED  BY <1>1, <1>2, <1>5 DEF SerialIInv

\* Every handler that is not idle has a job.
LEMMA ActPlaced == ASSUME NEW a \in Act PROVE Placed(a)
BY DEF Act, Placed

\* Where nobody's jobs changed, what was known of them still is.
LEMMA SameKnows ==
  ASSUME TypeOK, SameHands
  PROVE  /\ \A c \in Couriers : InHand(c)' = InHand(c)
         /\ RowsAgree => RowsAgree'
         /\ \A a : Placed(a) /\ Knows(a) => Knows(a)'
         /\ \A a : CountsAreOff(a) => CountsAreOff(a)'
<1>1. \A c \in Couriers : InHand(c)' = InHand(c)  BY DEF SameHands, InHand
<1>2. RowsAgree => RowsAgree'  BY DEF SameHands, RowsAgree
<1>3. ASSUME NEW a, Placed(a), Knows(a) PROVE Knows(a)'
  <2>1. CASE a = Idle  BY <2>1 DEF Knows, Idle
  <2>2. CASE a.id \in Jobs
    <3>1. (a.id \in Unassigned)' <=> a.id \in Unassigned  BY <2>2 DEF SameHands, Unassigned
    <3>2. Calls(a.id)' = Calls(a.id)  BY <2>2 DEF SameHands, Calls
    <3>3. job'[a.id].status = job[a.id].status /\ job'[a.id].courier = job[a.id].courier
      BY <2>2 DEF SameHands
    <3>. QED  BY <1>3, <3>1, <3>2, <3>3 DEF Knows
  <2>. QED  BY <1>3, <2>1, <2>2 DEF Placed
<1>4. ASSUME NEW a, CountsAreOff(a) PROVE CountsAreOff(a)'
  <2>1. \A c \in Couriers : Off(a, c)' = Off(a, c)  BY DEF Off, Short, Excess
  <2>. QED  BY <1>1, <1>4, <2>1 DEF CountsAreOff, SameHands
<1>. QED  BY <1>1, <1>2, <1>3, <1>4

\* What only the world does.
LEMMA QuietKeeps ==
  ASSUME TypeOK, SerialIInv, SameHands, act' = act
  PROVE  SerialIInv'
<1>1. Busy' = Busy  BY DEF Busy
<1>2. \A h \in Busy : Placed(act[h])  BY ActPlaced DEF Busy, TypeOK
<1>3. ASSUME NEW h \in Busy PROVE Knows(act[h])' /\ CountsAreOff(act[h])'
  <2>1. PICK a : a = act[h]  OBVIOUS
  <2>2. Placed(a) /\ Knows(a) /\ CountsAreOff(a)  BY <1>2, <1>3, <2>1 DEF SerialIInv
  <2>3. Knows(a)' /\ CountsAreOff(a)'  BY <2>2, SameKnows
  <2>4. act'[h] = a  BY <2>1
  <2>. QED  BY <2>3, <2>4 DEF Knows, CountsAreOff, Off, Short, Excess
<1>4. CountsAreOff(Idle) => CountsAreOff(Idle)'  BY SameKnows
<1>. QED  BY <1>1, <1>3, <1>4, SameKnows DEF SerialIInv

\* One handler starts, goes on or ends; it is the only one, before and after.
LEMMA OneMoves ==
  ASSUME TypeOK, SerialIInv, NEW h \in Handlers, NEW a, Become(h, a),
         \A g, k \in Busy' : g = k, act[h] # Idle \/ a # Idle
  PROVE  /\ CountsAreOff(act[h])
         /\ act[h] # Idle => Knows(act[h])
         /\ RowsAgree' /\ Knows(a)' /\ CountsAreOff(a)' => SerialIInv'
<1>1. act'[h] = a /\ \A g \in Handlers \ {h} : act'[g] = act[g]
  BY DEF Become, TypeOK
<1>2. CountsAreOff(act[h]) /\ (act[h] # Idle => Knows(act[h]))
  <2>1. CASE act[h] # Idle  BY <2>1 DEF SerialIInv, Busy
  <2>2. CASE act[h] = Idle
    <3>1. a # Idle  BY <2>2
    <3>2. h \in Busy'  BY <1>1, <3>1 DEF Busy
    <3>3. Busy = {}  BY <1>1, <2>2, <3>2 DEF Busy
    <3>. QED  BY <2>2, <3>3 DEF SerialIInv
  <2>. QED  BY <2>1, <2>2
<1>3. ASSUME RowsAgree', Knows(a)', CountsAreOff(a)' PROVE SerialIInv'
  <2>1. CASE a # Idle
    <3>1. Busy' = {h}  BY <1>1, <2>1 DEF Busy
    <3>2. Knows(act[h])' /\ CountsAreOff(act[h])'
      BY <1>1, <1>3 DEF Knows, CountsAreOff, Off, Short, Excess
    <3>. QED  BY <1>3, <3>1, <3>2 DEF SerialIInv
  <2>2. CASE a = Idle
    <3>1. Busy' = {}  BY <1>1, <2>2 DEF Busy, SerialIInv
    <3>. QED  BY <1>3, <2>2, <3>1 DEF SerialIInv
  <2>. QED  BY <2>1, <2>2
<1>. QED  BY <1>2, <1>3

LEMMA EvenOff ==
  ASSUME NEW a, a.pc \in Even, NEW c PROVE Off(a, c) = 0
BY DEF Even, Off, Short, Excess

LEMMA EvenCounts ==
  ASSUME NEW a, NEW b, a.pc \in Even, b.pc \in Even, CountsAreOff(a)
  PROVE  CountsAreOff(b)
BY EvenOff DEF CountsAreOff

\* A handler starts or goes on, and what it reads or writes is not who has which job.
LEMMA EvenKeeps ==
  ASSUME TypeOK, SerialIInv, SameHands, NEW h \in Handlers, NEW a, Become(h, a),
         \A g, k \in Busy' : g = k, act[h] # Idle \/ a # Idle,
         act[h].pc \in Even, a.pc \in Even, Placed(a), Knows(a)
  PROVE  SerialIInv'
<1>1. CountsAreOff(act[h])  BY OneMoves
<1>2. CountsAreOff(a)  BY <1>1, EvenCounts
<1>3. RowsAgree' /\ Knows(a)' /\ CountsAreOff(a)'  BY <1>2, SameKnows DEF SerialIInv
<1>. QED  BY <1>3, OneMoves

-------------------------------------------------------------------------------
\* How a row that is written moves its job from hand to hand.
LEMMA RowMoves ==
  ASSUME TypeOK, NEW j \in Jobs, NEW r, job' = [job EXCEPT ![j] = r], NEW c \in Couriers
  PROVE  InHand(c)' = IF r.courier = c /\ r.status \in Active
                      THEN InHand(c) \union {j} ELSE InHand(c) \ {j}
<1>1. job'[j] = r /\ \A k \in Jobs \ {j} : job'[k] = job[k]  BY DEF TypeOK
<1>. QED  BY <1>1 DEF InHand

LEMMA CardMoves ==
  ASSUME NEW S, IsFiniteSet(S), NEW j
  PROVE  /\ Cardinality(S) \in Nat
         /\ IsFiniteSet(S \union {j}) /\ IsFiniteSet(S \ {j})
         /\ j \in S => Cardinality(S \union {j}) = Cardinality(S)
                       /\ Cardinality(S \ {j}) = Cardinality(S) - 1
         /\ j \notin S => Cardinality(S \union {j}) = Cardinality(S) + 1
                          /\ Cardinality(S \ {j}) = Cardinality(S)
<1>1. j \in S => S \union {j} = S  OBVIOUS
<1>2. j \notin S => S \ {j} = S  OBVIOUS
<1>. QED  BY <1>1, <1>2, FS_CardinalityType, FS_AddElement, FS_RemoveElement

\* A job that is written into a courier's hands, or out of them, is one more or one less.
LEMMA HandCounts ==
  ASSUME TypeOK, NEW j \in Jobs, NEW r, job' = [job EXCEPT ![j] = r], NEW c \in Couriers,
         IsFiniteSet(InHand(c))
  PROVE  LET had == job[j].courier = c /\ job[j].status \in Active
             has == r.courier = c /\ r.status \in Active
         IN  /\ IsFiniteSet(InHand(c)') /\ Cardinality(InHand(c)) \in Nat
             /\ had <=> has => Cardinality(InHand(c)') = Cardinality(InHand(c))
             /\ had /\ ~has => Cardinality(InHand(c)') = Cardinality(InHand(c)) - 1
             /\ ~had /\ has => Cardinality(InHand(c)') = Cardinality(InHand(c)) + 1
<1>. DEFINE S == InHand(c)
            has == r.courier = c /\ r.status \in Active
<1>1. j \in S <=> job[j].courier = c /\ job[j].status \in Active  BY DEF InHand
<1>2. InHand(c)' = IF has THEN S \union {j} ELSE S \ {j}  BY RowMoves
<1>3. has \in BOOLEAN  OBVIOUS
<1>. HIDE DEF S
<1>4. IsFiniteSet(S)  BY DEF S
<1>5. /\ Cardinality(S) \in Nat
      /\ IsFiniteSet(S \union {j}) /\ IsFiniteSet(S \ {j})
      /\ j \in S => Cardinality(S \union {j}) = Cardinality(S)
                    /\ Cardinality(S \ {j}) = Cardinality(S) - 1
      /\ j \notin S => Cardinality(S \union {j}) = Cardinality(S) + 1
                       /\ Cardinality(S \ {j}) = Cardinality(S)
  BY <1>4, CardMoves
<1>6. CASE has
  <2>1. InHand(c)' = S \union {j}  BY <1>2, <1>6
  <2>. QED  BY <1>1, <1>5, <1>6, <2>1 DEF S
<1>7. CASE ~has
  <2>1. InHand(c)' = S \ {j}  BY <1>2, <1>7
  <2>. QED  BY <1>1, <1>5, <1>7, <2>1 DEF S
<1>. QED  BY <1>6, <1>7

\* A row that is written leaves the others as they agree.
LEMMA RowAgrees ==
  ASSUME TypeOK, RowsAgree, NEW j \in Jobs, NEW r, job' = [job EXCEPT ![j] = r],
         r.status \in {"NONE", "PENDING"} => r.courier = NoCourier,
         r.status \in Active => r.courier \in Couriers
  PROVE  RowsAgree'
<1>1. job'[j] = r /\ \A k \in Jobs \ {j} : job'[k] = job[k]  BY DEF TypeOK
<1>. QED  BY <1>1 DEF RowsAgree

\* The count is lowered where it is too high, so that it does not stop at zero.
LEMMA LowerExcess ==
  ASSUME TypeOK, NEW a, NEW b, CountsAreOff(a), NEW c \in Couriers, Lower(c), job' = job,
         uncounted' = uncounted,
         Off(a, c) = 1, Off(b, c) = 0, \A d \in Couriers \ {c} : Off(b, d) = Off(a, d)
  PROVE  CountsAreOff(b)'
<1>1. \A d \in Couriers : InHand(d)' = InHand(d)  BY DEF InHand
<1>2. \A d \in Couriers : Off(b, d)' = Off(b, d)  BY DEF Off, Short, Excess
<1>3. \A d \in Couriers \ {c} : count'[d] = count[d]  BY DEF Lower, TypeOK
<1>4. ASSUME c \notin uncounted PROVE count'[c] = Cardinality(InHand(c)) + Off(b, c)
  <2>1. IsFiniteSet(InHand(c)) /\ count[c] = Cardinality(InHand(c)) + 1
    BY <1>4 DEF CountsAreOff
  <2>2. Cardinality(InHand(c)) \in Nat  BY <2>1, FS_CardinalityType
  <2>3. count[c] > 0 /\ count[c] - 1 = Cardinality(InHand(c))  BY <2>1, <2>2
  <2>4. count' = [count EXCEPT ![c] = count[c] - 1]  BY <2>3 DEF Lower
  <2>5. count'[c] = Cardinality(InHand(c))  BY <2>3, <2>4 DEF TypeOK
  <2>. QED  BY <2>2, <2>5
<1>. QED  BY <1>1, <1>2, <1>3, <1>4 DEF CountsAreOff

-------------------------------------------------------------------------------
\* What handlers that do not overlap rely on, kept by every step.
Serially == TypeOK /\ SerialIInv /\ \A g, k \in Busy' : g = k

LEMMA RowsSame == ASSUME UNCHANGED <<job, count, uncounted>> PROVE SameHands
BY DEF SameHands

\* What a handler reads of a row before it starts.
LEMMA RequestCounts ==
  ASSUME Serially, NEW h \in Workers, NEW j \in Jobs, Request(h, j) \/ Event(h, j)
  PROVE  SerialIInv'
<1>. h \in Handlers  BY DEF Handlers
<1>. TypeOK /\ SerialIInv /\ \A g, k \in Busy' : g = k  BY DEF Serially
<1>a. UNCHANGED <<rows, uncounted>> /\ act[h] = Idle
  BY DEF Request, Event, Call, Reject, BeginConfirm, AssignByHand, BeginCreate, BeginSettle,
         NothingElse, rows, roster
<1>0. SameHands /\ act[h] = Idle /\ act[h].pc \in Even
  BY <1>a, RowsSame DEF rows, Idle, Even
<1>r. job[j].status \in {"PENDING"} \union Active => job[j].courier \in Courier
  BY DEF TypeOK, Row
<1>1. CASE Call(h, j)
  <2>1. PICK to \in Calls(j) :
          Become(h, [pc |-> "write", id |-> j, courier |-> job[j].courier,
                     from |-> job[j].status, to |-> to])
    BY <1>1 DEF Call
  <2>2. PICK a : a = [pc |-> "write", id |-> j, courier |-> job[j].courier,
                      from |-> job[j].status, to |-> to]
    OBVIOUS
  <2>3. Become(h, a) /\ a # Idle /\ a.pc \in Even /\ Placed(a) /\ Knows(a)
    BY <2>1, <2>2 DEF Even, Placed, Knows, Idle
  <2>. QED  BY <1>0, <2>3, EvenKeeps
<1>2. CASE Reject(h, j)
  <2>1. PICK a : a = [pc |-> "clear", id |-> j, courier |-> job[j].courier]  OBVIOUS
  <2>2. Become(h, a) /\ a # Idle /\ a.pc \in Even /\ Placed(a) /\ Knows(a)
    BY <1>2, <2>1 DEF Reject, Even, Placed, Knows, Idle
  <2>. QED  BY <1>0, <2>2, EvenKeeps
<1>3. CASE BeginConfirm(h, j)
  <2>1. PICK a : a = [pc |-> "confirm", id |-> j]  OBVIOUS
  <2>2. Become(h, a) /\ a # Idle /\ a.pc \in Even /\ Placed(a) /\ Knows(a)
    BY <1>3, <2>1 DEF BeginConfirm, Even, Placed, Knows, Idle
  <2>. QED  BY <1>0, <2>2, EvenKeeps
<1>4. ASSUME NEW c \in Couriers, AssignByHand(h, j, c) PROVE SerialIInv'
  <2>1. PICK a : a = [pc |-> "assign", id |-> j, prev |-> job[j].courier, to |-> c]  OBVIOUS
  <2>2. job[j].status \in {"PENDING"} \union Active
    BY <1>4 DEF AssignByHand, TypeOK, Row
  <2>3. Become(h, a) /\ a # Idle /\ a.pc \in Even /\ Placed(a) /\ Knows(a)
    BY <1>4, <2>1, <2>2 DEF AssignByHand, Even, Placed, Knows, Idle
  <2>. QED  BY <1>0, <2>3, EvenKeeps
<1>5. CASE BeginCreate(h, j)
  <2>1. PICK a : a = [pc |-> "create", id |-> j]  OBVIOUS
  <2>2. Become(h, a) /\ a # Idle /\ a.pc \in Even /\ Placed(a) /\ Knows(a)
    BY <1>5, <2>1 DEF BeginCreate, Even, Placed, Knows, Idle
  <2>. QED  BY <1>0, <2>2, EvenKeeps
<1>6. CASE BeginSettle(h, j)
  <2>1. CASE Become(h, Idle)
    <3>1. act' = act  BY <1>0, <2>1 DEF Become, TypeOK
    <3>. QED  BY <1>0, <3>1, QuietKeeps
  <2>2. CASE Become(h, [pc |-> "claim", id |-> j, courier |-> job[j].courier])
    <3>1. PICK a : a = [pc |-> "claim", id |-> j, courier |-> job[j].courier]  OBVIOUS
    <3>2. Become(h, a) /\ a # Idle /\ a.pc \in Even /\ Placed(a) /\ Knows(a)
      BY <2>2, <3>1 DEF Even, Placed, Knows, Idle
    <3>. QED  BY <1>0, <3>2, EvenKeeps
  <2>. QED  BY <1>6, <2>1, <2>2 DEF BeginSettle
<1>. QED  BY <1>1, <1>2, <1>3, <1>4, <1>5, <1>6 DEF Request, Event

\* The sweep reads every row of its list again before it takes it up.
LEMMA TickCounts == ASSUME Serially, Tick PROVE SerialIInv'
<1>. Timer \in Handlers  BY DEF Handlers
<1>. TypeOK /\ SerialIInv /\ \A g, k \in Busy' : g = k  BY DEF Serially
<1>0. SameHands /\ act[Timer] = Idle /\ act[Timer].pc \in Even
  BY RowsSame DEF Tick, Sweep, Reclaim, Redispatch, SweepExcept, rows, roster, Idle, Even
<1>1. CASE act' = act  BY <1>0, <1>1, QuietKeeps
<1>2. CASE Become(Timer, Idle)
  <2>1. act' = act  BY <1>0, <1>2 DEF Become, TypeOK
  <2>. QED  BY <2>1, <1>1
<1>3. ASSUME NEW j \in Jobs, job[j].status = "ASSIGNED",
             Become(Timer, [pc |-> "clear", id |-> j, courier |-> job[j].courier])
      PROVE  SerialIInv'
  <2>1. PICK a : a = [pc |-> "clear", id |-> j, courier |-> job[j].courier]  OBVIOUS
  <2>2. Become(Timer, a) /\ a # Idle /\ a.pc \in Even /\ Placed(a) /\ Knows(a)
    BY <1>3, <2>1 DEF Even, Placed, Knows, Idle
  <2>. QED  BY <1>0, <2>2, EvenKeeps
<1>4. ASSUME NEW j \in Unassigned, Become(Timer, [pc |-> "seek", id |-> j, except |-> {}])
      PROVE  SerialIInv'
  <2>1. PICK a : a = [pc |-> "seek", id |-> j, except |-> {}]  OBVIOUS
  <2>2. Become(Timer, a) /\ a # Idle /\ a.pc \in Even /\ Placed(a) /\ Knows(a)
    BY <1>4, <2>1 DEF Even, Placed, Knows, Idle, Unassigned
  <2>. QED  BY <1>0, <2>2, EvenKeeps
<1>5. CASE Reclaim
  <2>1. sweep.left \subseteq Jobs  BY DEF TypeOK
  <2>. QED  BY <1>5, <2>1, <1>2, <1>3 DEF Reclaim
<1>6. CASE Redispatch  BY <1>6, <1>2, <1>4 DEF Redispatch
<1>. QED  BY <1>1, <1>5, <1>6 DEF Tick, Sweep

LEMMA WorldCounts == ASSUME Serially, World PROVE SerialIInv'
<1>1. act' = act /\ SameHands
  <2>1. CASE \E c \in Couriers : GoOnline(c) \/ GoOffline(c)
    BY <2>1, RowsSame DEF GoOnline, GoOffline, rows
  <2>2. ASSUME NEW j \in Jobs, CancelOrder(j) \/ Forget(j) PROVE act' = act /\ SameHands
    BY <2>2, RowsSame DEF CancelOrder, Forget, NothingElse, roster
  <2>3. ASSUME NEW j \in Jobs, Lapse(j) PROVE act' = act /\ SameHands
    BY <2>3 DEF Lapse, SameHands, TypeOK, Row, Serially, NothingElse, roster
  <2>. QED  BY <2>1, <2>2, <2>3 DEF World
<1>. QED  BY <1>1, QuietKeeps DEF Serially

\* The steps that touch neither hands nor counts.
LEMMA EvenSteps ==
  ASSUME Serially, NEW h \in Handlers,
         \/ Seek(h) \/ Decline(h) \/ MoveOrder(h) \/ Confirm(h) \/ Claim(h) \/ Pay(h)
  PROVE  SerialIInv'
<1>. TypeOK /\ SerialIInv /\ \A g, k \in Busy' : g = k  BY DEF Serially
<1>0. act[h].pc \in {"seek", "decline", "order", "confirm", "claim", "pay"}
  BY DEF Seek, Decline, MoveOrder, Confirm, Claim, Pay
<1>1. act[h] # Idle /\ act[h].pc \in Even  BY <1>0 DEF Idle, Even
<1>2. Knows(act[h])  BY <1>1 DEF SerialIInv, Busy
<1>3. act[h].id \in Jobs  BY Carries DEF Seek, Decline, MoveOrder, Confirm, Claim, Pay
<1>4. SameHands
  <2>1. CASE Seek(h) \/ Decline(h) \/ MoveOrder(h) \/ Pay(h)
    BY <2>1, RowsSame DEF Seek, Decline, MoveOrder, Pay, NothingElse, rows, roster
  <2>2. CASE Confirm(h) \/ Claim(h)  BY <2>2 DEF Confirm, Claim, SameHands, TypeOK, Row, NothingElse, roster
  <2>. QED  BY <2>1, <2>2
<1>5. CASE Become(h, Idle)
  <2>1. Placed(Idle) /\ Knows(Idle) /\ Idle.pc \in Even  BY DEF Placed, Knows, Idle, Even
  <2>. QED  BY <1>1, <1>4, <1>5, <2>1, EvenKeeps
<1>6. CASE Seek(h) /\ ~Become(h, Idle)
  <2>1. PICK c \in Couriers :
          Become(h, [pc |-> "assign", id |-> act[h].id, prev |-> NoCourier, to |-> c])
    BY <1>6 DEF Seek
  <2>2. PICK a : a = [pc |-> "assign", id |-> act[h].id, prev |-> NoCourier, to |-> c]  OBVIOUS
  <2>3. act[h].id \in Unassigned  BY <1>2, <1>6 DEF Seek, Knows
  <2>4. Become(h, a) /\ a.pc \in Even /\ Placed(a) /\ Knows(a)
    BY <1>3, <2>1, <2>2, <2>3 DEF Even, Placed, Knows, Unassigned
  <2>. QED  BY <1>1, <1>4, <2>4, EvenKeeps
<1>7. CASE Decline(h)
  <2>1. PICK a : a = [pc |-> "seek", id |-> act[h].id, except |-> Selves(act[h].courier)]
    OBVIOUS
  <2>2. Become(h, a) /\ a.pc \in Even /\ Placed(a) /\ Knows(a)
    BY <1>2, <1>3, <1>7, <2>1 DEF Decline, Even, Placed, Knows
  <2>. QED  BY <1>1, <1>4, <2>2, EvenKeeps
<1>8. CASE Claim(h) /\ ~Become(h, Idle)
  <2>1. PICK a : a = [act[h] EXCEPT !.pc = "pay"]  OBVIOUS
  <2>2. a.pc = "pay" /\ a.id = act[h].id  BY <1>8, <2>1, Carries DEF Claim
  <2>3. Become(h, a) /\ a.pc \in Even /\ Placed(a) /\ Knows(a)
    BY <1>3, <1>8, <2>1, <2>2 DEF Claim, Goto, Even, Placed, Knows
  <2>. QED  BY <1>1, <1>4, <2>3, EvenKeeps
<1>. QED  BY <1>5, <1>6, <1>7, <1>8 DEF MoveOrder, Confirm, Pay

\* Steps that go on with what the handler carries.
LEMMA Going ==
  ASSUME Serially, NEW h \in Handlers, act[h] # Idle
  PROVE  /\ Knows(act[h]) /\ CountsAreOff(act[h]) /\ RowsAgree
         /\ \A a : Become(h, a) /\ RowsAgree' /\ Knows(a)' /\ CountsAreOff(a)' => SerialIInv'
<1>. TypeOK /\ SerialIInv /\ \A g, k \in Busy' : g = k  BY DEF Serially
<1>1. Knows(act[h]) /\ CountsAreOff(act[h]) /\ RowsAgree  BY DEF SerialIInv, Busy
<1>2. ASSUME NEW a, Become(h, a), RowsAgree', Knows(a)', CountsAreOff(a)' PROVE SerialIInv'
  BY <1>2, OneMoves
<1>. QED  BY <1>1, <1>2

LEMMA CreateCounts ==
  ASSUME Serially, NEW h \in Handlers, Create(h) PROVE SerialIInv'
<1>. TypeOK /\ SerialIInv /\ \A g, k \in Busy' : g = k  BY DEF Serially
<1>1. act[h] # Idle /\ act[h].pc \in Even  BY DEF Create, Idle, Even
<1>2. PICK j \in Jobs : j = act[h].id  BY Carries DEF Create
<1>3. CASE job' = job /\ Become(h, Idle)
  <2>1. Placed(Idle) /\ Knows(Idle) /\ Idle.pc \in Even  BY DEF Placed, Knows, Idle, Even
  <2>2. SameHands  BY <1>3, RowsSame DEF Create, NothingElse, roster
  <2>. QED  BY <1>1, <1>3, <2>1, <2>2, EvenKeeps
<1>4. CASE /\ job[j].status = "NONE" /\ job' = [job EXCEPT ![j].status = "PENDING"]
           /\ Become(h, [pc |-> "seek", id |-> j, except |-> {}])
  <2>1. PICK r : r = [job[j] EXCEPT !.status = "PENDING"]  OBVIOUS
  <2>2. job[j].courier = NoCourier  BY <1>4, Going, <1>1 DEF RowsAgree
  <2>3. r.status = "PENDING" /\ r.courier = NoCourier  BY <2>1, <2>2 DEF TypeOK, Row
  <2>4. job' = [job EXCEPT ![j] = r]  BY <1>4, <2>1
  <2>5. RowsAgree'  BY <2>3, <2>4, <1>1, Going, RowAgrees DEF Active
  <2>6. PICK a : a = [pc |-> "seek", id |-> j, except |-> {}]  OBVIOUS
  <2>7. job'[j] = r  BY <2>4 DEF TypeOK
  <2>8. Knows(a)'  BY <2>3, <2>6, <2>7 DEF Knows, Unassigned
  <2>9. CountsAreOff(a)
    <3>1. a.pc \in Even  BY <2>6 DEF Even
    <3>. QED  BY <1>1, <3>1, Going, EvenCounts
  <2>10. CountsAreOff(a)'
    <3>1. ASSUME NEW c \in Couriers PROVE InHand(c)' = InHand(c)
      <4>1. job[j].status \notin Active /\ r.status \notin Active  BY <1>4, <2>3 DEF Active
      <4>2. j \notin InHand(c)  BY <4>1 DEF InHand
      <4>3. InHand(c)' = InHand(c) \ {j}  BY <2>4, <4>1, RowMoves
      <4>. QED  BY <4>2, <4>3
    <3>2. count' = count /\ uncounted' = uncounted  BY DEF Create, NothingElse, roster
    <3>. QED  BY <2>9, <3>1, <3>2 DEF CountsAreOff, Off, Short, Excess
  <2>. QED  BY <1>1, <1>4, <2>5, <2>6, <2>8, <2>10, Going
<1>. QED  BY <1>2, <1>3, <1>4 DEF Create

\* The job comes into the hands of the courier it is given to, and leaves those it was in.
LEMMA AssignCounts ==
  ASSUME Serially, NEW h \in Handlers, Assign(h) PROVE SerialIInv'
<1>. TypeOK /\ SerialIInv /\ \A g, k \in Busy' : g = k  BY DEF Serially
<1>1. act[h] # Idle  BY DEF Assign, Idle
<1>2. PICK b : b = act[h]  OBVIOUS
<1>3. b \in [pc : {"assign", "swap", "raise"}, id : Jobs, prev : Courier, to : Couriers]
      /\ b.pc = "assign"
  BY <1>2, Carries DEF Assign
<1>4. PICK j \in Jobs : j = b.id  BY <1>3
<1>5. /\ job[j].courier = b.prev /\ job[j].status \in {"PENDING"} \union Active
      /\ RowsAgree /\ CountsAreOff(b)
  BY <1>1, <1>2, <1>3, <1>4, Going DEF Knows
<1>6. PICK r : r = [job[j] EXCEPT !.courier = b.to, !.status = "ASSIGNED", !.late = FALSE]
  OBVIOUS
<1>7. r.courier = b.to /\ r.status = "ASSIGNED"  BY <1>6 DEF TypeOK, Row
<1>8. job' = [job EXCEPT ![j] = r]  BY <1>2, <1>4, <1>6 DEF Assign, TypeOK
<1>9. RowsAgree'  BY <1>3, <1>5, <1>7, <1>8, RowAgrees
<1>10. PICK a : a = IF b.prev \in Selves(b.to) THEN Idle
                    ELSE [b EXCEPT !.pc = IF b.prev = NoCourier THEN "raise" ELSE "swap"]
  OBVIOUS
<1>11. Become(h, a)  BY <1>2, <1>10 DEF Assign, Goto
<1>12. \/ b.prev = b.to /\ a.pc = "idle" /\ uncounted' = uncounted
       \/ /\ b.prev \in Couriers \ {b.to} /\ a.pc = "idle"
          /\ uncounted' = uncounted \union {b.prev, b.to}
       \/ b.prev = NoCourier /\ a.pc = "raise" /\ a.to = b.to /\ uncounted' = uncounted
       \/ /\ b.prev \in Couriers \ {b.to} /\ a.pc = "swap" /\ a.to = b.to /\ a.prev = b.prev
          /\ uncounted' = uncounted
  BY <1>2, <1>3, <1>10, DeliveriesConfig DEF Assign, Courier, Selves, Idle
<1>13. Knows(a)'  BY <1>12, <1>3 DEF Knows
<1>14. ASSUME NEW c \in Couriers
       PROVE  /\ IsFiniteSet(InHand(c)')
              /\ c \notin uncounted' => count'[c] = Cardinality(InHand(c)') + Off(a, c)
  <2>1. Off(b, c) = 0  BY <1>3, EvenOff DEF Even
  <2>2. IsFiniteSet(InHand(c)) /\ (c \notin uncounted => count[c] = Cardinality(InHand(c)))
    <3>1. /\ IsFiniteSet(InHand(c))
          /\ c \notin uncounted => count[c] = Cardinality(InHand(c)) + 0
      BY <1>5, <2>1 DEF CountsAreOff
    <3>. QED  BY <3>1, FS_CardinalityType
  <2>3. count' = count /\ (c \notin uncounted' => c \notin uncounted)
    BY <1>12 DEF Assign
  <2>4. job[j].courier = c /\ job[j].status \in Active <=> c = b.prev
    BY <1>5, DeliveriesConfig DEF RowsAgree
  <2>5. r.courier = c /\ r.status \in Active <=> c = b.to  BY <1>7 DEF Active
  <2>. DEFINE n == Cardinality(InHand(c))
              m == Cardinality(InHand(c)')
  <2>6. /\ IsFiniteSet(InHand(c)') /\ n \in Nat
        /\ (c = b.prev <=> c = b.to) => m = n
        /\ c = b.prev /\ c # b.to => m = n - 1
        /\ c # b.prev /\ c = b.to => m = n + 1
    BY <1>8, <2>2, <2>4, <2>5, HandCounts
  <2>7. c \notin uncounted' =>
          Off(a, c) = IF c = b.prev THEN IF c = b.to THEN 0 ELSE 1
                      ELSE IF c = b.to THEN -1 ELSE 0
    BY <1>12, <1>3, DeliveriesConfig DEF Off, Short, Excess
  <2>. HIDE DEF n, m
  <2>8. c \notin uncounted' => n = m + Off(a, c)  BY <2>6, <2>7
  <2>. QED  BY <2>2, <2>3, <2>6, <2>8 DEF n, m
<1>15. CountsAreOff(a)'
  <2>1. \A c \in Couriers : Off(a, c)' = Off(a, c)  BY DEF Off, Short, Excess
  <2>. QED  BY <1>14, <2>1 DEF CountsAreOff
<1>. QED  BY <1>1, <1>9, <1>11, <1>13, <1>15, Going

\* The count of who lost the job, and then of who got it.
LEMMA SwapCounts ==
  ASSUME Serially, NEW h \in Handlers, Swap(h) \/ Raise(h) PROVE SerialIInv'
<1>. TypeOK  BY DEF Serially
<1>1. act[h] # Idle  BY DEF Swap, Raise, Idle
<1>2. PICK b : b = act[h]  OBVIOUS
<1>3. b \in [pc : {"assign", "swap", "raise"}, id : Jobs, prev : Courier, to : Couriers]
  BY <1>2, Carries DEF Swap, Raise
<1>4. CountsAreOff(b) /\ Knows(b) /\ RowsAgree  BY <1>1, <1>2, Going
<1>5. job' = job /\ RowsAgree'  BY <1>4 DEF Swap, Raise, RowsAgree
<1>6. CASE Swap(h)
  <2>1. PICK a : a = [b EXCEPT !.pc = "raise"]  OBVIOUS
  <2>2. Become(h, a) /\ Lower(b.prev) /\ b.pc = "swap" /\ uncounted' = uncounted
    BY <1>2, <1>6, <2>1 DEF Swap, Goto, NothingElse, roster
  <2>3. a.pc = "raise" /\ a.to = b.to  BY <1>3, <2>1
  <2>4. b.prev \in Couriers /\ b.prev # b.to  BY <1>4, <2>2 DEF Knows
  <2>5. Off(b, b.prev) = 1 /\ Off(a, b.prev) = 0
        /\ \A d \in Couriers \ {b.prev} : Off(a, d) = Off(b, d)
    BY <2>2, <2>3, <2>4 DEF Off, Short, Excess
  <2>6. CountsAreOff(a)'  BY <1>4, <1>5, <2>2, <2>4, <2>5, LowerExcess
  <2>7. Knows(a)'  BY <2>3 DEF Knows
  <2>. QED  BY <1>1, <1>5, <2>2, <2>6, <2>7, Going
<1>7. CASE Raise(h)
  <2>1. PICK c \in Couriers : c = b.to  BY <1>3
  <2>2. /\ Become(h, Idle) /\ b.pc = "raise"
        /\ \/ uncounted' = uncounted \union {c} /\ count' = count
           \/ uncounted' = uncounted /\ count' = [count EXCEPT ![c] = @ + 1]
    BY <1>2, <1>7, <2>1 DEF Raise
  <2>3. Knows(Idle)'  BY DEF Knows, Idle
  <2>4. CountsAreOff(Idle)'
    <3>1. ASSUME NEW d \in Couriers
          PROVE  /\ IsFiniteSet(InHand(d)')
                 /\ d \notin uncounted' => count'[d] = Cardinality(InHand(d)') + Off(Idle, d)'
      <4>1. InHand(d)' = InHand(d)  BY <1>5 DEF InHand
      <4>2. /\ IsFiniteSet(InHand(d))
            /\ d \notin uncounted => count[d] = Cardinality(InHand(d)) + Off(b, d)
        BY <1>4 DEF CountsAreOff
      <4>3. Cardinality(InHand(d)) \in Nat  BY <4>2, FS_CardinalityType
      <4>4. Off(b, d) = (IF d = c THEN -1 ELSE 0) /\ Off(Idle, d)' = 0
        BY <2>1, <2>2 DEF Off, Short, Excess, Idle
      <4>5. d \notin uncounted' =>
              /\ d \notin uncounted
              /\ count'[d] = IF d = c THEN count[d] + 1 ELSE count[d]
        BY <2>2 DEF TypeOK
      <4>6. d \notin uncounted' => count'[d] = Cardinality(InHand(d)) + 0
        BY <4>2, <4>3, <4>4, <4>5
      <4>. QED  BY <4>1, <4>2, <4>4, <4>6
    <3>. QED  BY <3>1 DEF CountsAreOff
  <2>. QED  BY <1>1, <1>5, <2>2, <2>3, <2>4, Going
<1>. QED  BY <1>6, <1>7

\* A courier is released from what he no longer has in hand.
LEMMA ReleaseCounts ==
  ASSUME Serially, NEW h \in Handlers, ReleaseCapacity(h) \/ Release(h) PROVE SerialIInv'
<1>. TypeOK  BY DEF Serially
<1>1. act[h] # Idle  BY DEF ReleaseCapacity, Release, Idle
<1>2. PICK b : b = act[h]  OBVIOUS
<1>3. CountsAreOff(b) /\ Knows(b) /\ RowsAgree  BY <1>1, <1>2, Going
<1>4. job' = job /\ RowsAgree' /\ uncounted' = uncounted
  BY <1>3 DEF ReleaseCapacity, Release, RowsAgree, NothingElse, roster
<1>5. PICK a : /\ Become(h, a) /\ a.pc \in {"idle", "order", "decline"}
               /\ a.pc = "decline" => a.id = b.id /\ b.pc = "release"
  <2>1. CASE Release(h)
    <3>1. b \in [pc : {"clear", "release", "decline"}, id : Jobs, courier : Couriers]
      BY <1>2, <2>1, Carries DEF Release
    <3>2. Become(h, [b EXCEPT !.pc = "decline"]) /\ b.pc = "release"
      BY <1>2, <2>1 DEF Release, Goto
    <3>3. [b EXCEPT !.pc = "decline"].pc = "decline" /\ [b EXCEPT !.pc = "decline"].id = b.id
      BY <3>1
    <3>. QED  BY <3>2, <3>3
  <2>2. CASE ReleaseCapacity(h) /\ Become(h, Idle)  BY <2>2 DEF Idle
  <2>3. CASE ReleaseCapacity(h) /\ Goto(h, "order")
    <3>1. b \in [pc : {"write", "free", "order"}, id : Jobs, courier : Courier,
                 from : {"PENDING"} \union Active, to : Active \union Final]
      BY <1>2, <2>3, Carries DEF ReleaseCapacity
    <3>2. Become(h, [b EXCEPT !.pc = "order"])  BY <1>2, <2>3 DEF Goto
    <3>3. [b EXCEPT !.pc = "order"].pc = "order"  BY <3>1
    <3>. QED  BY <3>2, <3>3
  <2>. QED  BY <2>1, <2>2, <2>3 DEF ReleaseCapacity
<1>6. PICK c \in Couriers : c = b.courier /\ b.pc \in {"free", "release"} /\ Lower(c)
  <2>1. CASE Release(h)
    <3>1. b.courier \in Couriers  BY <1>2, <2>1, Carries DEF Release
    <3>. QED  BY <1>2, <2>1, <3>1 DEF Release
  <2>2. CASE ReleaseCapacity(h)
    <3>1. b.courier \in Couriers  BY <1>2, <1>3, <2>2 DEF ReleaseCapacity, Knows
    <3>. QED  BY <1>2, <2>2, <3>1 DEF ReleaseCapacity
  <2>. QED  BY <2>1, <2>2
<1>7. Off(b, c) = 1 /\ Off(a, c) = 0 /\ \A d \in Couriers \ {c} : Off(a, d) = Off(b, d)
  BY <1>5, <1>6 DEF Off, Short, Excess
<1>8. CountsAreOff(a)'  BY <1>3, <1>4, <1>6, <1>7, LowerExcess
<1>9. Knows(a)'
  <2>1. a.pc = "decline" => a.id \in Unassigned  BY <1>3, <1>5 DEF Knows
  <2>2. Unassigned' = Unassigned  BY <1>4 DEF Unassigned
  <2>. QED  BY <1>5, <2>1, <2>2 DEF Knows
<1>. QED  BY <1>1, <1>4, <1>5, <1>8, <1>9, Going

\* A courier who declines, or does not answer, has the job no more.
LEMMA ClearCounts ==
  ASSUME Serially, NEW h \in Handlers, ClearRider(h) PROVE SerialIInv'
<1>. TypeOK  BY DEF Serially
<1>1. act[h] # Idle  BY DEF ClearRider, Idle
<1>2. PICK b : b = act[h]  OBVIOUS
<1>3. b \in [pc : {"clear", "release", "decline"}, id : Jobs, courier : Couriers]
      /\ b.pc = "clear"
  BY <1>2, Carries DEF ClearRider
<1>4. PICK j \in Jobs : j = b.id  BY <1>3
<1>5. /\ job[j].status = "ASSIGNED" /\ job[j].courier = b.courier
      /\ RowsAgree /\ CountsAreOff(b)
  BY <1>1, <1>2, <1>3, <1>4, Going DEF Knows
<1>6. PICK r : r = [job[j] EXCEPT !.courier = NoCourier, !.status = "PENDING", !.late = FALSE]
  OBVIOUS
<1>7. r.courier = NoCourier /\ r.status = "PENDING"  BY <1>6 DEF TypeOK, Row
<1>8. job' = [job EXCEPT ![j] = r]  BY <1>2, <1>4, <1>6 DEF ClearRider, TypeOK
<1>9. RowsAgree'  BY <1>5, <1>7, <1>8, RowAgrees DEF Active
<1>10. PICK a : a = [b EXCEPT !.pc = "release"]  OBVIOUS
<1>11. Become(h, a)  BY <1>2, <1>10 DEF ClearRider, Goto
<1>12. a.pc = "release" /\ a.courier = b.courier /\ a.id = j  BY <1>3, <1>4, <1>10
<1>13. Knows(a)'
  <2>1. job'[j] = r  BY <1>8 DEF TypeOK
  <2>. QED  BY <1>7, <1>12, <2>1 DEF Knows, Unassigned
<1>14. ASSUME NEW c \in Couriers
       PROVE  /\ IsFiniteSet(InHand(c)')
              /\ c \notin uncounted' => count'[c] = Cardinality(InHand(c)') + Off(a, c)
  <2>1. Off(b, c) = 0  BY <1>3, EvenOff DEF Even
  <2>2. /\ IsFiniteSet(InHand(c))
        /\ c \notin uncounted => count[c] = Cardinality(InHand(c)) + 0
    BY <1>5, <2>1 DEF CountsAreOff
  <2>3. count' = count /\ uncounted' = uncounted  BY DEF ClearRider, NothingElse, roster
  <2>4. job[j].courier = c /\ job[j].status \in Active <=> c = b.courier  BY <1>5 DEF Active
  <2>5. ~(r.courier = c /\ r.status \in Active)  BY <1>7 DEF Active
  <2>. DEFINE n == Cardinality(InHand(c))
              m == Cardinality(InHand(c)')
  <2>6. /\ IsFiniteSet(InHand(c)') /\ n \in Nat
        /\ c # b.courier => m = n
        /\ c = b.courier => m = n - 1
    BY <1>8, <2>2, <2>4, <2>5, HandCounts
  <2>7. Off(a, c) = IF c = b.courier THEN 1 ELSE 0  BY <1>12 DEF Off, Short, Excess
  <2>. HIDE DEF n, m
  <2>8. n = m + Off(a, c) /\ n + 0 = n  BY <2>6, <2>7
  <2>. QED  BY <2>2, <2>3, <2>6, <2>8 DEF n, m
<1>15. CountsAreOff(a)'
  <2>1. \A c \in Couriers : Off(a, c)' = Off(a, c)  BY DEF Off, Short, Excess
  <2>. QED  BY <1>14, <2>1 DEF CountsAreOff
<1>. QED  BY <1>1, <1>9, <1>11, <1>13, <1>15, Going

\* A job goes on in its courier's hands, or leaves them for good; then he is to be freed.
LEMMA WriteCounts ==
  ASSUME Serially, NEW h \in Handlers, Write(h) PROVE SerialIInv'
<1>. TypeOK  BY DEF Serially
<1>1. act[h] # Idle  BY DEF Write, Idle
<1>2. PICK b : b = act[h]  OBVIOUS
<1>3. /\ b \in [pc : {"write", "free", "order"}, id : Jobs, courier : Courier,
                from : {"PENDING"} \union Active, to : Active \union Final]
      /\ b.pc = "write"
  BY <1>2, Carries DEF Write
<1>4. PICK j \in Jobs : j = b.id  BY <1>3
<1>5. /\ job[j].status = b.from /\ job[j].courier = b.courier /\ b.to \in Calls(j)
      /\ RowsAgree /\ CountsAreOff(b)
  BY <1>1, <1>2, <1>3, <1>4, Going DEF Knows
<1>6. /\ b.from \in Active <=> b.courier \in Couriers
      /\ b.from \notin Active => b.courier = NoCourier
      /\ b.to \in Active => b.from \in Active
      /\ b.to \in {"ACCEPTED", "CARRIED"} \union Final
      /\ b.to \in Active <=> b.to \in {"ACCEPTED", "CARRIED"}
  BY <1>3, <1>5, DeliveriesConfig DEF Calls, RowsAgree, Active, Final
<1>7. PICK r : r = [job[j] EXCEPT !.status = b.to, !.late = FALSE]  OBVIOUS
<1>8. r.courier = b.courier /\ r.status = b.to  BY <1>5, <1>7 DEF TypeOK, Row
<1>9. job' = [job EXCEPT ![j] = r]  BY <1>2, <1>4, <1>7 DEF Write, TypeOK
<1>10. b.to \notin {"NONE", "PENDING"}  BY <1>6 DEF Final
<1>11. RowsAgree'  BY <1>5, <1>6, <1>8, <1>9, <1>10, RowAgrees
<1>12. PICK a : /\ Become(h, a)
                /\ \/ /\ b.to \in Final /\ b.courier # NoCourier /\ b.from \in Active
                      /\ a = [b EXCEPT !.pc = "free"]
                   \/ b.to \notin Final /\ a = [b EXCEPT !.pc = "order"]
                   \/ /\ ~(b.to \in Final /\ b.courier # NoCourier /\ b.from \in Active)
                      /\ a = Idle
  BY <1>2 DEF Write, Goto
<1>13. Become(h, a)  BY <1>12
<1>14. \/ b.to \in Final /\ b.courier \in Couriers /\ a.pc = "free" /\ a.courier = b.courier
       \/ b.to \in Active /\ a.pc \in {"order", "idle"}
       \/ b.to \in Final /\ b.courier \notin Couriers /\ a.pc = "idle"
  <2>1. /\ [b EXCEPT !.pc = "free"].pc = "free" /\ [b EXCEPT !.pc = "free"].courier = b.courier
        /\ [b EXCEPT !.pc = "order"].pc = "order" /\ Idle.pc = "idle"
    BY <1>3 DEF Idle
  <2>. QED  BY <1>6, <1>12, <2>1, DeliveriesConfig DEF Final
<1>15. Knows(a)'  BY <1>14 DEF Knows
<1>16. b.to \in Active <=> b.to \notin Final  BY <1>6 DEF Final, Active
<1>17. ASSUME NEW c \in Couriers
       PROVE  /\ IsFiniteSet(InHand(c)')
              /\ c \notin uncounted' => count'[c] = Cardinality(InHand(c)') + Off(a, c)
  <2>1. Off(b, c) = 0  BY <1>3, EvenOff DEF Even
  <2>2. /\ IsFiniteSet(InHand(c))
        /\ c \notin uncounted => count[c] = Cardinality(InHand(c)) + 0
    BY <1>5, <2>1 DEF CountsAreOff
  <2>3. count' = count /\ uncounted' = uncounted  BY DEF Write, NothingElse, roster
  <2>4. job[j].courier = c /\ job[j].status \in Active <=> c = b.courier  BY <1>5, <1>6
  <2>5. r.courier = c /\ r.status \in Active <=> c = b.courier /\ b.to \in Active  BY <1>8
  <2>. DEFINE n == Cardinality(InHand(c))
              m == Cardinality(InHand(c)')
  <2>6. /\ IsFiniteSet(InHand(c)') /\ n \in Nat
        /\ c # b.courier \/ b.to \in Active => m = n
        /\ c = b.courier /\ b.to \notin Active => m = n - 1
    BY <1>9, <2>2, <2>4, <2>5, HandCounts
  <2>7. Off(a, c) = IF c = b.courier /\ b.to \notin Active THEN 1 ELSE 0
    BY <1>14, <1>16 DEF Off, Short, Excess
  <2>. HIDE DEF n, m
  <2>8. n = m + Off(a, c) /\ n + 0 = n  BY <2>6, <2>7
  <2>. QED  BY <2>2, <2>3, <2>6, <2>8 DEF n, m
<1>18. CountsAreOff(a)'
  <2>1. \A c \in Couriers : Off(a, c)' = Off(a, c)  BY DEF Off, Short, Excess
  <2>. QED  BY <1>17, <2>1 DEF CountsAreOff
<1>. QED  BY <1>1, <1>11, <1>13, <1>15, <1>18, Going

\* In the scenes without overlap no two handlers are under way.
LEMMA SerialScene == ASSUME Scene, serial PROVE \A g, k \in Busy' : g = k
<1>1. OneAtATime  BY DEF Scene, serial
<1>. QED  BY <1>1 DEF OneAtATime

LEMMA MCNextKeeps == ASSUME MCIInv, [MCNext]_mcVars PROVE MCIInv'
<1>1. IInv'  BY NextKeeps DEF MCIInv, MCNext, mcVars
<1>2. TypeOK  BY DEF MCIInv, IInv
<1>3. ASSUME serial', crashes' = 0 PROVE SerialIInv'
  <2>1. serial  BY <1>3 DEF MCNext, mcVars, serial
  <2>2. crashes = 0
    <3>1. crashes' = crashes \/ crashes' = crashes + 1
      BY DEF MCNext, mcVars, vars, Next, Request, Event, Call, Reject, BeginConfirm,
             AssignByHand, BeginCreate, BeginSettle, Step, Create, Seek, Assign, Swap, Raise,
             Write, ReleaseCapacity, MoveOrder, ClearRider, Release, Decline, Confirm, Claim,
             Pay, Tick, Sweep, Reclaim, Redispatch, SweepExcept, World, GoOnline, GoOffline,
             CancelOrder, Lapse, Forget, Restart, NothingElse
    <3>2. crashes \in Nat  BY <1>2 DEF TypeOK
    <3>. QED  BY <1>3, <3>1, <3>2
  <2>3. SerialIInv  BY <2>1, <2>2 DEF MCIInv
  <2>4. CASE UNCHANGED mcVars
    <3>1. SameHands /\ act' = act  BY <2>4, RowsSame DEF mcVars, vars, rows, roster
    <3>. QED  BY <1>2, <2>3, <3>1, QuietKeeps
  <2>5. CASE MCNext
    <3>1. \A g, k \in Busy' : g = k  BY <2>1, <2>5, SerialScene DEF MCNext
    <3>2. Serially  BY <1>2, <2>3, <3>1 DEF Serially
    <3>3. ~Restart  BY <1>2, <1>3, <2>2 DEF Restart
    <3>4. ASSUME NEW h \in Handlers, Step(h) PROVE SerialIInv'
      BY <3>2, <3>4, CreateCounts, EvenSteps, AssignCounts, SwapCounts, WriteCounts,
         ReleaseCounts, ClearCounts
         DEF Step
    <3>. QED
      BY <2>5, <3>2, <3>3, <3>4, RequestCounts, TickCounts, WorldCounts DEF MCNext, Next
  <2>. QED  BY <2>4, <2>5
<1>. QED  BY <1>1, <1>3 DEF MCIInv

\* While handlers do not overlap and none dies, the count a courier's availability row
\* carries is the number of jobs he has in hand, if he never got one as a driver without a
\* row and none of his went from one of his roles to the other: assigned and taken back, declined,
\* reassigned by Operations, delivered, failed or cancelled, each way out of his hands
\* lowers it once, and never where it is zero already (assignRiderToJob, clearRider,
\* releaseRiderCapacity, deliver).
THEOREM CountsAreJobs == MCSpec => []SerialCountIsJobs
<1>1. MCIInv => SerialCountIsJobs
  <2>. SUFFICES ASSUME MCIInv, serial, Busy = {}, crashes = 0, NEW c \in Couriers \ uncounted
                PROVE  count[c] = Cardinality({j \in Jobs : job[j].courier = c
                                                            /\ job[j].status \in Active})
    BY DEF SerialCountIsJobs
  <2>1. CountsAreOff(Idle)  BY DEF MCIInv, SerialIInv
  <2>2. Off(Idle, c) = 0  BY EvenOff DEF Idle, Even
  <2>3. IsFiniteSet(InHand(c)) /\ count[c] = Cardinality(InHand(c)) + 0
    BY <2>1, <2>2 DEF CountsAreOff
  <2>4. Cardinality(InHand(c)) + 0 = Cardinality(InHand(c))  BY <2>3, FS_CardinalityType
  <2>. QED  BY <2>3, <2>4 DEF InHand
<1>. QED  BY <1>1, InitMCIInv, MCNextKeeps, PTL DEF MCSpec
===============================================================================
