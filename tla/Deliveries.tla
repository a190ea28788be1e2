------------------------------ MODULE Deliveries ------------------------------
(***************************************************************************)
(* delivery/: who carries an order that is ready. The subscriber of        *)
(* ORDER_READY creates a delivery job and looks for a courier; couriers    *)
(* accept, decline, carry and hand over; Operations assign and cancel by   *)
(* hand; a sweep takes back what nobody accepted and offers again what     *)
(* nobody has; and a subscriber pays the courier, or charges him what he   *)
(* took in cash.                                                           *)
(*                                                                         *)
(* Every write is by id, after a read and a check of an earlier statement: *)
(* act[h] is what the handler h read and is about to write.                *)
(*                                                                         *)
(* A courier is a person who carries as a rider or as a driver, courierId  *)
(* and courierType of a job: somebody who is both is two couriers of one   *)
(* person. The count of a courier is activeJobCount, or activeRideCount,   *)
(* in which the passengers of a driver, who count too, are left out. A     *)
(* driver has that row only once he said whether he is online (onFile).    *)
(* The fee of a delivery and what a courier holds in cash beyond his share *)
(* are taken to be above zero. uncounted is a history: the couriers who    *)
(* got or lost a job without their count being moved.                      *)
(***************************************************************************)
EXTENDS Integers, FiniteSets

CONSTANTS Jobs,      \* one per order, numbered in the order of their creation
          Couriers, NoCourier,
          Drivers,   \* the couriers who carry as drivers; the others are riders
          Workers, Timer,  \* who runs handlers; Timer is the sweep
          Capacity,  \* MAX_RIDER_ACTIVE_JOBS
          Batch,     \* DELIVERY_DISPATCH_SWEEP_BATCH_SIZE
          MaxCrashes \* bound: how often the process ends

ASSUME DeliveriesConfig ==
  /\ Jobs \subseteq Int /\ NoCourier \notin Couriers /\ Timer \notin Workers
  /\ Drivers \subseteq Couriers
  /\ Capacity \in Nat /\ Batch \in Nat /\ MaxCrashes \in Nat

VARIABLES job,       \* the delivery_job rows
          order,     \* status of their orders; WITH_RIDER is DRIVER_ASSIGNED to IN_TRANSIT
          cash,      \* jobs whose order is paid in cash
          count,     \* the active jobs of a courier, as his availability row has it
          person,    \* who a courier is; the same, in every state
          available, \* couriers online, accepting and approved
          onFile,    \* drivers who have an availability row
          uncounted, \* history
          declined,  \* rejections younger than DELIVERY_REJECTION_COOLDOWN_MS
          due,       \* jobs of which an event waits for the settlement's subscriber
          posted,    \* postings to the couriers' wallets and commission accounts
          sweep,     \* the sweep: its pass, and what is left of the list it read
          act, crashes

rows == <<job, order, count, declined>>
money == <<due, posted>>
roster == <<person, available, onFile, uncounted>>
vars == <<rows, cash, roster, money, sweep, act, crashes>>

Handlers == Workers \union {Timer}
\* PICKED_UP, ON_THE_WAY and ARRIVED are CARRIED, FAILED, RETURNED and CANCELLED are ENDED.
Active == {"ASSIGNED", "ACCEPTED", "CARRIED"}
Final == {"DELIVERED", "ENDED"}  \* TERMINAL_STATUSES
Courier == Couriers \union {NoCourier}
\* late: assigned longer ago than DELIVERY_ASSIGNMENT_ACCEPT_TIMEOUT_MS.
Row == [status : {"NONE", "PENDING"} \union Active \union Final, courier : Courier,
        late : BOOLEAN, confirmed : BOOLEAN, settled : BOOLEAN]
NoRow == [status |-> "NONE", courier |-> NoCourier, late |-> FALSE,
          confirmed |-> FALSE, settled |-> FALSE]
Posting == [id : Jobs, courier : Couriers, kind : {"earning", "debt"}]

Idle == [pc |-> "idle"]
Act ==
  {Idle}
    \union [pc : {"create", "confirm"}, id : Jobs]
    \union [pc : {"seek"}, id : Jobs, except : SUBSET Couriers]
    \union [pc : {"assign", "swap", "raise"}, id : Jobs, prev : Courier, to : Couriers]
    \union [pc : {"write", "free", "order"}, id : Jobs, courier : Courier,
            from : {"PENDING"} \union Active, to : Active \union Final]
    \union [pc : {"clear", "release", "decline"}, id : Jobs, courier : Couriers]
    \union [pc : {"claim", "pay"}, id : Jobs, courier : Couriers]

Become(h, a) == act' = [act EXCEPT ![h] = a]
Goto(h, pc) == Become(h, [act[h] EXCEPT !.pc = pc])
Selves(c) == {d \in Couriers : person[d] = person[c]}
Lower(c) == count' = [count EXCEPT ![c] = IF @ > 0 THEN @ - 1 ELSE 0]
NothingElse == UNCHANGED <<cash, roster, money, sweep, crashes>>

Init ==
  /\ job = [j \in Jobs |-> NoRow] /\ order = [j \in Jobs |-> "READY"]
  /\ cash \in SUBSET Jobs
  /\ count = [c \in Couriers |-> 0]
  /\ person \in [Couriers -> Couriers] /\ available \in SUBSET Couriers
  /\ onFile \in SUBSET Drivers /\ available \intersect Drivers \subseteq onFile
  /\ uncounted = {}
  /\ declined = [j \in Jobs |-> {}]
  /\ due = {} /\ posted = {} /\ sweep = [pass |-> "off", left |-> {}]
  /\ act = [h \in Handlers |-> Idle] /\ crashes = 0

-------------------------------------------------------------------------------
\* createDeliveryJob: the order must be ready; it has one job. (An order that is ready
\* and not paid in cash is taken to be paid.)
BeginCreate(h, j) ==
  /\ act[h] = Idle
  /\ order[j] = "READY" /\ job[j].status = "NONE"
  /\ \A k \in Jobs : k < j => job[k].status # "NONE"
  /\ Become(h, [pc |-> "create", id |-> j])
  /\ UNCHANGED rows /\ NothingElse

Create(h) == LET j == act[h].id IN
  /\ act[h].pc = "create"
  /\ \/ /\ job[j].status = "NONE"
        /\ job' = [job EXCEPT ![j].status = "PENDING"]
        /\ Become(h, [pc |-> "seek", id |-> j, except |-> {}])
     \/ job[j].status # "NONE" /\ Become(h, Idle) /\ UNCHANGED job
  /\ UNCHANGED <<order, count, declined>> /\ NothingElse

\* findNearestCourier, in tryAutoAssign. The sweep looks at the order and at the
\* rejections first; a courier who declines is the only one a request leaves out.
Free(c) == c \in available /\ count[c] < Capacity
Seek(h) == LET j == act[h].id IN
  /\ act[h].pc = "seek"
  /\ LET Candidates ==
           {c \in Couriers :
              /\ Free(c) /\ c \notin act[h].except
              /\ h = Timer => order[j] = "READY" /\ c \notin declined[j]}
     IN  \/ \E c \in Candidates :
              Become(h, [pc |-> "assign", id |-> j, prev |-> NoCourier, to |-> c])
         \/ Candidates = {} /\ Become(h, Idle)
  /\ UNCHANGED rows /\ NothingElse

\* assignRider and reassignRider, by Operations. (Bound: of a courier with room.)
AssignByHand(h, j, c) ==
  /\ act[h] = Idle
  /\ job[j].status \notin Final \union {"NONE"} /\ count[c] < Capacity
  /\ Become(h, [pc |-> "assign", id |-> j, prev |-> job[j].courier, to |-> c])
  /\ UNCHANGED rows /\ NothingElse

\* assignRiderToJob: the row by id, then the counts of who loses and who gets the job.
\* Who carries it already keeps his counts, also if he is to carry it in his other role.
Assign(h) == LET a == act[h] IN
  /\ a.pc = "assign"
  /\ job' = [job EXCEPT ![a.id].courier = a.to, ![a.id].status = "ASSIGNED",
                        ![a.id].late = FALSE]
  /\ IF a.prev \in Selves(a.to)
     THEN /\ Become(h, Idle)
          /\ uncounted' = IF a.prev = a.to THEN uncounted ELSE uncounted \union {a.prev, a.to}
     ELSE /\ Goto(h, IF a.prev = NoCourier THEN "raise" ELSE "swap")
          /\ UNCHANGED uncounted
  /\ UNCHANGED <<order, count, declined, cash, person, available, onFile, money, sweep, crashes>>

Swap(h) ==
  /\ act[h].pc = "swap"
  /\ Lower(act[h].prev) /\ Goto(h, "raise")
  /\ UNCHANGED <<job, order, declined>> /\ NothingElse

\* incrementActiveJobCount: a rider without a row gets one, of a driver nothing is written.
Raise(h) == LET c == act[h].to IN
  /\ act[h].pc = "raise"
  /\ IF c \in Drivers \ onFile
     THEN uncounted' = uncounted \union {c} /\ UNCHANGED count
     ELSE count' = [count EXCEPT ![c] = @ + 1] /\ UNCHANGED uncounted
  /\ Become(h, Idle)
  /\ UNCHANGED <<job, order, declined, cash, person, available, onFile, money, sweep, crashes>>

-------------------------------------------------------------------------------
\* What may be asked for: acceptJob, pickUp, markOnTheWay and arrived (from CARRIED to
\* CARRIED), deliver, by the courier; fail and returnJob, by the courier, or cancelJob, by
\* Operations.
Calls(j) ==
  {to \in Active \union Final :
     \/ /\ job[j].courier # NoCourier
        /\ <<job[j].status, to>> \in {<<"ASSIGNED", "ACCEPTED">>, <<"ACCEPTED", "CARRIED">>,
                                     <<"CARRIED", "CARRIED">>, <<"CARRIED", "DELIVERED">>}
     \/ job[j].status \notin Final \union {"NONE"} /\ to = "ENDED"}

Call(h, j) ==
  /\ act[h] = Idle
  /\ \E to \in Calls(j) :
       Become(h, [pc |-> "write", id |-> j, courier |-> job[j].courier,
                  from |-> job[j].status, to |-> to])
  /\ UNCHANGED rows /\ NothingElse

\* updateJobStatus; what follows is the courier's count, the order, or (arrived) nothing.
Write(h) == LET a == act[h] IN
  /\ a.pc = "write"
  /\ job' = [job EXCEPT ![a.id].status = a.to, ![a.id].late = FALSE]
  /\ IF a.to \in Final /\ a.courier # NoCourier /\ a.from \in Active THEN Goto(h, "free")
     ELSE \/ a.to \notin Final /\ Goto(h, "order")
          \/ (a.to \in Final \/ a.from = "CARRIED") /\ Become(h, Idle)
  /\ UNCHANGED <<order, count, declined>> /\ NothingElse

\* releaseRiderCapacity, and decrementActiveJobCount of deliver.
ReleaseDelivered(h) ==  \* mutant: only a delivery that was made frees its courier
  /\ act[h].pc = "free"
  /\ IF act[h].to = "DELIVERED" THEN Lower(act[h].courier) /\ Goto(h, "order")
     ELSE Become(h, Idle) /\ UNCHANGED count
  /\ UNCHANGED <<job, order, declined>> /\ NothingElse
ReleaseCapacity(h) ==
  /\ act[h].pc = "free"
  /\ Lower(act[h].courier)
  /\ IF act[h].to = "DELIVERED" THEN Goto(h, "order") ELSE Become(h, Idle)
  /\ UNCHANGED <<job, order, declined>> /\ NothingElse

\* The transition of the order; a delivery that was made is announced.
MoveOrder(h) == LET a == act[h] IN
  /\ a.pc = "order"
  /\ order' = [order EXCEPT ![a.id] = IF a.to = "DELIVERED" THEN "DELIVERED" ELSE "WITH_RIDER"]
  /\ due' = IF a.to = "DELIVERED" THEN due \union {a.id} ELSE due
  /\ Become(h, Idle)
  /\ UNCHANGED <<job, count, declined, cash, roster, posted, sweep, crashes>>

\* rejectJob: the courier is taken off the job, his count lowered and his rejection noted;
\* then somebody else is looked for. The sweep does the same for him.
Reject(h, j) ==
  /\ act[h] = Idle
  /\ job[j].status = "ASSIGNED" /\ job[j].courier # NoCourier
  /\ Become(h, [pc |-> "clear", id |-> j, courier |-> job[j].courier])
  /\ UNCHANGED rows /\ NothingElse

ClearRider(h) == LET j == act[h].id IN
  /\ act[h].pc = "clear"
  /\ job' = [job EXCEPT ![j].courier = NoCourier, ![j].status = "PENDING", ![j].late = FALSE]
  /\ Goto(h, "release")
  /\ UNCHANGED <<order, count, declined>> /\ NothingElse

Release(h) ==
  /\ act[h].pc = "release"
  /\ Lower(act[h].courier) /\ Goto(h, "decline")
  /\ UNCHANGED <<job, order, declined>> /\ NothingElse

Decline(h) == LET a == act[h] IN
  /\ a.pc = "decline"
  /\ declined' = [declined EXCEPT ![a.id] = @ \union Selves(a.courier)]
  /\ Become(h, [pc |-> "seek", id |-> a.id, except |-> Selves(a.courier)])
  /\ UNCHANGED <<job, order, count>> /\ NothingElse

-------------------------------------------------------------------------------
\* runSweep: reclaimStaleAssignments, then redispatchUnassignedJobs; each reads a list and
\* then every row of it again. Of the jobs nobody has it takes the oldest, whatever became
\* of their orders; of the assignments that lapsed, all (the code takes the oldest of these
\* too, and each that it takes leaves the list).
NeverLapsed == {}  \* mutant: an assignment stands until it is answered
Lapsed == {j \in Jobs : job[j].status = "ASSIGNED" /\ job[j].courier # NoCourier /\ job[j].late}
Unassigned == {j \in Jobs : job[j].status = "PENDING" /\ job[j].courier = NoCourier}
Oldest == {j \in Unassigned : Cardinality({k \in Unassigned : k < j}) < Batch}

SweepExcept == UNCHANGED <<rows, cash, roster, money, crashes>>
Sweep ==
  /\ act[Timer] = Idle /\ sweep.left = {}
  /\ sweep' = CASE sweep.pass = "off" -> [pass |-> "reclaim", left |-> Lapsed]
                [] sweep.pass = "reclaim" -> [pass |-> "dispatch", left |-> Oldest]
                [] sweep.pass = "dispatch" -> [pass |-> "off", left |-> {}]
  /\ UNCHANGED act /\ SweepExcept

Reclaim ==
  /\ act[Timer] = Idle /\ sweep.pass = "reclaim"
  /\ \E j \in sweep.left :
       /\ sweep' = [sweep EXCEPT !.left = @ \ {j}]
       /\ Become(Timer, IF job[j].status = "ASSIGNED" /\ job[j].courier # NoCourier
                        THEN [pc |-> "clear", id |-> j, courier |-> job[j].courier] ELSE Idle)
  /\ SweepExcept

Redispatch ==
  /\ act[Timer] = Idle /\ sweep.pass = "dispatch"
  /\ \E j \in sweep.left :
       /\ sweep' = [sweep EXCEPT !.left = @ \ {j}]
       /\ Become(Timer, IF j \in Unassigned THEN [pc |-> "seek", id |-> j, except |-> {}]
                        ELSE Idle)
  /\ SweepExcept

-------------------------------------------------------------------------------
\* confirmCash: the courier says what he took.
BeginConfirm(h, j) ==
  /\ act[h] = Idle
  /\ job[j].status = "DELIVERED" /\ job[j].courier # NoCourier
  /\ j \in cash /\ ~job[j].confirmed
  /\ Become(h, [pc |-> "confirm", id |-> j])
  /\ UNCHANGED rows /\ NothingElse

Confirm(h) == LET j == act[h].id IN
  /\ act[h].pc = "confirm"
  /\ job' = [job EXCEPT ![j].confirmed = TRUE]
  /\ due' = due \union {j}
  /\ Become(h, Idle)
  /\ UNCHANGED <<order, count, declined, cash, roster, posted, sweep, crashes>>

\* settleDelivery, in the subscriber of both events: it must wait for the courier's word
\* about cash; then it claims the settlement, and then it makes it.
ReadyToSettle(j) == job[j].courier # NoCourier /\ ~job[j].settled  \* mutant
MaySettle(j) ==
  /\ job[j].courier # NoCourier /\ ~job[j].settled
  /\ j \in cash => job[j].confirmed

BeginSettle(h, j) ==
  /\ act[h] = Idle /\ j \in due
  /\ due' = due \ {j}
  /\ Become(h, IF MaySettle(j) THEN [pc |-> "claim", id |-> j, courier |-> job[j].courier]
               ELSE Idle)
  /\ UNCHANGED <<rows, cash, roster, posted, sweep, crashes>>

Claim(h) == LET j == act[h].id IN
  /\ act[h].pc = "claim"
  /\ IF job[j].settled THEN Become(h, Idle) /\ UNCHANGED job
     ELSE job' = [job EXCEPT ![j].settled = TRUE] /\ Goto(h, "pay")
  /\ UNCHANGED <<order, count, declined>> /\ NothingElse

\* The posting is made, or throws; the subscriber catches it.
Pay(h) == LET a == act[h] IN
  /\ a.pc = "pay"
  /\ \/ posted' = posted \union
          {[id |-> a.id, courier |-> a.courier,
            kind |-> IF a.id \in cash THEN "debt" ELSE "earning"]}
     \/ UNCHANGED posted
  /\ Become(h, Idle)
  /\ UNCHANGED <<rows, cash, roster, due, sweep, crashes>>

-------------------------------------------------------------------------------
\* updateRiderAvailability, and updateDriverAvailability, which makes a driver's row. (A
\* courier whose account is blocked cannot go online.)
GoOnline(c) ==
  /\ c \notin available
  /\ available' = available \union {c}
  /\ onFile' = onFile \union ({c} \intersect Drivers)
  /\ UNCHANGED <<rows, cash, person, uncounted, money, sweep, act, crashes>>
GoOffline(c) ==
  /\ c \in available \union (Drivers \ onFile)
  /\ available' = available \ {c}
  /\ onFile' = onFile \union ({c} \intersect Drivers)
  /\ UNCHANGED <<rows, cash, person, uncounted, money, sweep, act, crashes>>

\* cancelOrder of an order that is ready; its delivery job is not told.
CancelOrder(j) ==
  /\ order[j] = "READY"
  /\ order' = [order EXCEPT ![j] = "CANCELLED"]
  /\ UNCHANGED <<job, count, declined, act>> /\ NothingElse

\* Time passes: an assignment lapses, a rejection is forgotten.
Lapse(j) ==
  /\ job[j].status = "ASSIGNED" /\ ~job[j].late
  /\ job' = [job EXCEPT ![j].late = TRUE]
  /\ UNCHANGED <<order, count, declined, act>> /\ NothingElse
Forget(j) == \E c \in declined[j] :
  /\ declined' = [declined EXCEPT ![j] = @ \ Selves(c)]
  /\ UNCHANGED <<job, order, count, act>> /\ NothingElse

\* The process ends, with its handlers and the events nobody took up.
Restart ==
  /\ crashes < MaxCrashes /\ (due # {} \/ \E h \in Handlers : act[h] # Idle)
  /\ crashes' = crashes + 1
  /\ act' = [h \in Handlers |-> Idle] /\ due' = {}
  /\ sweep' = [pass |-> "off", left |-> {}]
  /\ UNCHANGED <<rows, cash, roster, posted>>

Request(h, j) ==
  \/ Call(h, j) \/ Reject(h, j) \/ BeginConfirm(h, j)
  \/ \E c \in Couriers : AssignByHand(h, j, c)
Event(h, j) == BeginCreate(h, j) \/ BeginSettle(h, j)
Step(h) ==
  \/ Create(h) \/ Seek(h) \/ Assign(h) \/ Swap(h) \/ Raise(h)
  \/ Write(h) \/ ReleaseCapacity(h) \/ MoveOrder(h)
  \/ ClearRider(h) \/ Release(h) \/ Decline(h)
  \/ Confirm(h) \/ Claim(h) \/ Pay(h)
Tick == Sweep \/ Reclaim \/ Redispatch
World ==
  \/ \E c \in Couriers : GoOnline(c) \/ GoOffline(c)
  \/ \E j \in Jobs : CancelOrder(j) \/ Lapse(j) \/ Forget(j)

Next ==
  \/ \E h \in Workers, j \in Jobs : Request(h, j) \/ Event(h, j)
  \/ \E h \in Handlers : Step(h)
  \/ Tick \/ World \/ Restart

Spec == Init /\ [][Next]_vars

-------------------------------------------------------------------------------
TypeOK ==
  /\ job \in [Jobs -> Row]
  /\ order \in [Jobs -> {"READY", "WITH_RIDER", "DELIVERED", "CANCELLED"}]
  /\ cash \subseteq Jobs /\ count \in [Couriers -> Nat]
  /\ person \in [Couriers -> Couriers] /\ available \subseteq Couriers
  /\ onFile \subseteq Drivers /\ uncounted \subseteq Couriers
  /\ declined \in [Jobs -> SUBSET Couriers]
  /\ due \subseteq Jobs /\ posted \subseteq Posting
  /\ sweep \in [pass : {"off", "reclaim", "dispatch"}, left : SUBSET Jobs]
  /\ act \in [Handlers -> Act] /\ crashes \in 0..MaxCrashes

\* A delivery is settled once, with one courier: its earning is paid if the order was
\* prepaid, and if it was paid in cash, what the courier took is charged, once he has said
\* what that is (settleDelivery).
SettledOnce ==
  /\ \A p, q \in posted : p.id = q.id => p = q
  /\ \A p \in posted :
       /\ job[p.id].settled
       /\ IF p.id \in cash THEN p.kind = "debt" /\ job[p.id].confirmed ELSE p.kind = "earning"
===============================================================================
