----------------------------- MODULE MCDeliveries -----------------------------
(***************************************************************************)
(* Deliveries for TLC, in three scenes of one run:                         *)
(*   - "jobs": two prepaid jobs, handlers run one at a time; no sweep;     *)
(*     or one job, while a driver comes on file late who is the rider in   *)
(*     his other role;                                                     *)
(*   - "sweep": the sweep beside handlers, one at a time, which may die;   *)
(*     one courier comes and goes, declines, or lets assignments lapse,    *)
(*     but carries nothing, and orders are cancelled;                      *)
(*   - "overlap": one job, handlers interleave at every statement while it *)
(*     is created and from the time it is carried; nobody declines.        *)
(***************************************************************************)
EXTENDS Deliveries

VARIABLE scene

mcVars == <<vars, scene>>
Busy == {h \in Handlers : act[h] # Idle}
serial == scene # "overlap"

Alone == CHOOSE w \in Workers : TRUE
First == {j \in Jobs : \A k \in Jobs : j <= k}
Resident == CHOOSE c \in Couriers : TRUE
MCInit ==
  /\ Init /\ scene \in {"jobs", "sweep", "overlap"}
  /\ \/ /\ available = IF scene = "sweep" THEN {} ELSE Couriers
        /\ person = [c \in Couriers |-> c]
     \/ /\ scene = "jobs" /\ available = Couriers \ Drivers
        /\ person = [c \in Couriers |-> Resident]
  /\ onFile = available \intersect Drivers
  /\ serial => cash = {}

OneAtATime == (\A g, h \in Busy' : g = h) /\ Busy' \subseteq {Alone, Timer}
Carried == {"CARRIED"} \union Final
OneJob == \A h \in Busy' : act'[h].id \in First
Timeless == act'[Timer] = Idle /\ sweep' = sweep /\ available \subseteq available'
              /\ \A j \in Jobs : ~job'[j].late /\ order'[j] # "CANCELLED"
                                /\ declined[j] \subseteq declined'[j]
Scene ==
  \/ /\ scene = "jobs" /\ OneAtATime /\ Timeless /\ due \subseteq due' /\ crashes' = 0
     /\ (\A c \in Couriers : person[c] = c) \/ OneJob
  \/ /\ scene = "sweep" /\ OneAtATime
     /\ available' \union onFile' \subseteq {Resident}
     /\ \A h \in Handlers :
          act'[h].pc = "assign" => act'[h].to = Resident /\ act'[h].prev = NoCourier
     /\ \A h \in Handlers : act'[h].pc = "write" => act'[h].to = "ENDED"
  \/ /\ scene = "overlap" /\ OneJob /\ Timeless /\ crashes' = 0
     /\ \A c \in Couriers : count'[c] <= 1
     /\ \A h \in Handlers : act'[h].pc # "clear"
     /\ (\A j \in First : job[j].status \notin Carried \union {"NONE"}) =>
          OneAtATime \/ Busy' \subseteq Busy
MCNext == Next /\ Scene /\ UNCHANGED scene
MCSpec == MCInit /\ [][MCNext]_mcVars

\* Fairness is of use where the sweep runs, which is where liveness is promised.
InScene(A) == scene = "sweep" /\ A /\ Scene /\ UNCHANGED scene
MCLiveSpec ==
  /\ MCSpec
  /\ WF_mcVars(InScene(\E h \in Handlers : Step(h)))
  /\ SF_mcVars(InScene(Tick))

\* While handlers do not overlap and none dies, a courier's count is the number of
\* jobs he has in hand, through every way to get and to lose one, unless he ever got a job
\* as a driver without a row, or a job went from one of his roles to the other
\* (assignRiderToJob, clearRider, releaseRiderCapacity, deliver).
SerialCountIsJobs == serial /\ Busy = {} /\ crashes = 0 =>
  \A c \in Couriers \ uncounted :
    count[c] = Cardinality({j \in Jobs : job[j].courier = c /\ job[j].status \in Active})

\* Where the sweep runs and handlers do not overlap, a job nobody has is given to a courier,
\* as long as the order waits for one and some courier is free; unless the sweep's list is full of jobs
\* of other orders. And an assignment that lapsed is taken back
\* (redispatchUnassignedJobs, reclaimStaleAssignments).
Crowded(j) == Cardinality({k \in Unassigned : k < j}) >= Batch
Waiting(j) == j \in Unassigned /\ order[j] = "READY" /\ ~Crowded(j)
Overdue(j) == job[j].status = "ASSIGNED" /\ job[j].late
SerialJobsFindCouriers == \A j \in Jobs :
  /\ scene = "sweep" /\ Waiting(j)
       ~> ~Waiting(j) \/ \A c \in Couriers : ~Free(c) \/ c \in declined[j]
  /\ scene = "sweep" /\ Overdue(j) ~> ~Overdue(j)
===============================================================================
