-------------------------- MODULE SchedulesProofs --------------------------
(***************************************************************************)
(* Theorems about Schedules, for every set of planned joins and of joins,  *)
(* every number of schedulers and every number of restarts.                *)
(***************************************************************************)
EXTENDS Schedules, TLAPS

\* A scheduler holds a planned join from its claim to its outcome.
Holds(c, s) == s \in taken[c] \/ plan[c] = s

\* The job has not been created yet.
Before(c, s) == s \in taken[c] \/ (plan[c] = s /\ step[c] # "record")

Exclusive == \A c, d \in Copy, s \in Schedule : Holds(c, s) /\ Holds(d, s) => c = d

Held == \A c \in Copy, s \in Schedule : Holds(c, s) =>
          state[s] = "fired" /\ s \notin recorded

FiredOne == \A c \in Copy :
  (step[c] = "idle" <=> plan[c] = None) /\ plan[c] \notin taken[c]

NotYet ==
  /\ \A s \in Schedule : state[s] \in {"none", "pending"} => made[s] = 0
  /\ \A c \in Copy, s \in Schedule : Before(c, s) => made[s] = 0

Asked == \A s \in adding : state[s] = "none"

Recorded == \A s \in recorded : state[s] = "fired"

\* The inductive invariant.  A job is created only by the scheduler that holds
\* the planned join, at most one holds it, and only once: what it has fired is
\* not pending any more and so is never found again.
IInv ==
  /\ ScheduleTypeOK
  /\ Exclusive /\ Held /\ FiredOne /\ NotYet /\ Asked /\ Recorded
  /\ FiresAtMostOnce

claims == <<state, recorded, made, adding, taken, plan, step>>

LEMMA InitInv == Init => IInv
<1>. SUFFICES ASSUME Init PROVE IInv
  OBVIOUS
<1>1. ScheduleTypeOK
  <2>1. /\ state \in [Schedule -> {"none", "pending", "fired", "cancelled", "failed"}]
        /\ joining \in [Join -> {"no", "allowed", "cleared"}]
        /\ job \in [Origin -> {"none", "active", "won", "over"}]
        /\ made \in [Schedule -> Nat]
    BY DEF Init
  <2>2. /\ found \in [Copy -> SUBSET Schedule] /\ taken \in [Copy -> SUBSET Schedule]
        /\ plan \in [Copy -> Schedule \cup {None}] /\ step \in [Copy -> Steps]
    BY DEF Init, Steps
  <2>3. stops \in 0 .. MaxStops
    BY ScheduleAssumption DEF Init
  <2>. QED BY <2>1, <2>2, <2>3 DEF Init, ScheduleTypeOK
<1>2. \A c \in Copy, s \in Schedule : ~Holds(c, s) /\ ~Before(c, s)
  BY ScheduleAssumption DEF Init, Holds, Before
<1>3. Exclusive /\ Held /\ NotYet
  BY <1>2 DEF Exclusive, Held, NotYet, Init
<1>4. FiredOne /\ Asked /\ Recorded /\ FiresAtMostOnce
  BY DEF FiredOne, Asked, Recorded, FiresAtMostOnce, Init
<1>. QED BY <1>1, <1>3, <1>4 DEF IInv

\* What the store does to a job keeps its type.
LEMMA JobTypes ==
  ASSUME ScheduleTypeOK, NEW o \in Origin
  PROVE  /\ FinishJob(o) => job' \in [Origin -> {"none", "active", "won", "over"}]
         /\ CreateJob(o) => /\ job' \in [Origin -> {"none", "active", "won", "over"}]
                            /\ thisMonth' \subseteq Origin
  BY DEF ScheduleTypeOK, FinishJob, CreateJob

LEMMA FinishTypes ==
  ASSUME ScheduleTypeOK, FinishesTheActiveJob
  PROVE  /\ job' \in [Origin -> {"none", "active", "won", "over"}]
         /\ thisMonth' \subseteq Origin
<1>1. CASE ActiveJobs = {}
  BY <1>1 DEF ScheduleTypeOK, FinishesTheActiveJob
<1>2. CASE ActiveJobs # {}
  <2>1. PICK o \in ActiveJobs : FinishJob(o)
    BY <1>2 DEF FinishesTheActiveJob
  <2>2. o \in Origin
    BY DEF ActiveJobs
  <2>. QED BY <2>1, <2>2, JobTypes DEF FinishesTheActiveJob, ScheduleTypeOK
<1>. QED BY <1>1, <1>2

\* A step that leaves the claims alone keeps what is said of them.
LEMMA Frame ==
  ASSUME IInv, ScheduleTypeOK', UNCHANGED claims
  PROVE  IInv'
  BY DEF IInv, claims, Exclusive, Held, FiredOne, NotYet, Asked, Recorded,
         FiresAtMostOnce, Holds, Before

LEMMA RequestsKeepInv == ASSUME IInv, Requests PROVE IInv'
<1>. USE DEF IInv
<1>1. ASSUME NEW s \in Schedule, AskSchedule(s) PROVE IInv'
  BY <1>1 DEF AskSchedule, rows, pc, account, jobs, scheduler, ScheduleTypeOK,
      Exclusive, Held, FiredOne, NotYet, Asked, Recorded, FiresAtMostOnce, Holds, Before
<1>2. ASSUME NEW s \in Schedule, CreateSchedule(s) PROVE IInv'
  BY <1>2 DEF CreateSchedule, pc, account, jobs, scheduler, ScheduleTypeOK,
      Exclusive, Held, FiredOne, NotYet, Asked, Recorded, FiresAtMostOnce, Holds, Before
<1>3. ASSUME NEW s \in Schedule, CancelSchedule(s) PROVE IInv'
  BY <1>3 DEF CancelSchedule, pc, account, jobs, scheduler, ScheduleTypeOK,
      Exclusive, Held, FiredOne, NotYet, Asked, Recorded, FiresAtMostOnce, Holds, Before
<1>4. ASSUME NEW j \in Join, AskJoin(j) \/ ClearJoin(j) \/ CreateJoin(j) PROVE IInv'
  <2>1. CASE AskJoin(j) \/ ClearJoin(j)
    <3>1. ScheduleTypeOK'
      BY <2>1 DEF AskJoin, ClearJoin, rows, pc, account, jobs, scheduler, ScheduleTypeOK
    <3>. QED BY <2>1, <3>1, Frame DEF AskJoin, ClearJoin, claims, rows, scheduler
  <2>2. CASE CreateJoin(j)
    <3>1. ScheduleTypeOK'
      BY <2>2, JobTypes DEF CreateJoin, rows, pc, account, jobs, scheduler, ScheduleTypeOK, Origin
    <3>. QED BY <2>2, <3>1, Frame DEF CreateJoin, claims, rows, scheduler
  <2>. QED BY <1>4, <2>1, <2>2
<1>5. CASE RevokeDevice
  <2>1. ScheduleTypeOK'
    BY <1>5 DEF RevokeDevice, rows, account, jobs, scheduler, ScheduleTypeOK
  <2>. QED BY <1>5, <2>1, Frame DEF RevokeDevice, claims, rows, scheduler
<1>6. CASE RevokeCancels
  BY <1>6 DEF RevokeCancels, Pending, account, jobs, scheduler, ScheduleTypeOK,
      Exclusive, Held, FiredOne, NotYet, Asked, Recorded, FiresAtMostOnce, Holds, Before
<1>7. CASE RevokeStops
  <2>1. ScheduleTypeOK'
    BY <1>7, FinishTypes DEF RevokeStops, rows, account, scheduler, ScheduleTypeOK
  <2>. QED BY <1>7, <2>1, Frame DEF RevokeStops, claims, rows, scheduler
<1>. QED BY <1>1, <1>2, <1>3, <1>4, <1>5, <1>6, <1>7 DEF Requests

LEMMA ClaimKeepsInv ==
  ASSUME IInv, NEW c \in Copy, NEW s \in Schedule,
         Claim(c, s) \/ ClaimFails(c, s) \/ Fire(c, s)
  PROVE  IInv'
<1>. USE DEF IInv
<1>1. CASE Claim(c, s)
  <2>1. ScheduleTypeOK'
    BY <1>1 DEF Claim, Mark, ScheduleTypeOK, pc, account, jobs
  <2>2. CASE state[s] = "pending"
    <3>1. state' = [state EXCEPT ![s] = "fired"] /\ taken' = [taken EXCEPT ![c] = @ \cup {s}]
      BY <1>1, <2>2 DEF Claim, Mark, ScheduleTypeOK
    <3>2. UNCHANGED <<recorded, made, adding, plan, step>>
      BY <1>1 DEF Claim
    <3>. QED BY <2>1, <2>2, <3>1, <3>2, ScheduleAssumption DEF ScheduleTypeOK, Exclusive, Held,
          FiredOne, NotYet, Asked, Recorded, FiresAtMostOnce, Holds, Before
  <2>3. CASE state[s] # "pending"
    BY <1>1, <2>1, <2>3, Frame DEF Claim, Mark, claims, ScheduleTypeOK
  <2>. QED BY <2>2, <2>3
<1>2. CASE ClaimFails(c, s)
  <2>1. ScheduleTypeOK'
    BY <1>2 DEF ClaimFails, Mark, ScheduleTypeOK, pc, account, jobs
  <2>. QED BY <1>2, <2>1 DEF ClaimFails, Mark, ScheduleTypeOK, Exclusive, Held,
      FiredOne, NotYet, Asked, Recorded, FiresAtMostOnce, Holds, Before
<1>3. CASE Fire(c, s)
  <2>1. ScheduleTypeOK'
    BY <1>3 DEF Fire, rows, ScheduleTypeOK, Steps, pc, account, jobs
  <2>. QED BY <1>3, <2>1, ScheduleAssumption DEF Fire, rows, ScheduleTypeOK, Exclusive, Held,
      FiredOne, NotYet, Asked, Recorded, FiresAtMostOnce, Holds, Before
<1>. QED BY <1>1, <1>2, <1>3

\* The claims when a scheduler goes on without creating anything.
LEMMA GoingOn ==
  ASSUME IInv, NEW c \in Copy, NEW from \in Steps, NEW to \in Steps,
         GoesOn(c, from, to), from # "idle", to \notin {"idle", "record"}, from # "record",
         UNCHANGED <<state, recorded, made, adding>>, ScheduleTypeOK'
  PROVE  IInv'
  BY DEF IInv, GoesOn, ScheduleTypeOK, Exclusive, Held, FiredOne, NotYet, Asked,
         Recorded, FiresAtMostOnce, Holds, Before

\* The claims when a scheduler records an outcome.
LEMMA Resolving ==
  ASSUME IInv, NEW c \in Copy, NEW from \in Steps \ {"idle"}, NEW outcome \in {"fired", "failed"},
         Resolve(c, from, outcome), UNCHANGED adding, ScheduleTypeOK',
         \/ UNCHANGED made
         \/ from # "record" /\ made' = [made EXCEPT ![plan[c]] = @ + 1]
  PROVE  IInv'
<1>. USE DEF IInv
<1>1. plan[c] \in Schedule /\ Holds(c, plan[c]) /\ plan[c] \notin taken[c]
  BY DEF Resolve, FiredOne, ScheduleTypeOK, Holds
<1>2. \A d \in Copy, t \in Schedule :
        Holds(d, t)' => Holds(d, t) /\ t # plan[c] /\ (Before(d, t)' => Before(d, t))
  BY <1>1, ScheduleAssumption DEF Resolve, Exclusive, Holds, Before, ScheduleTypeOK
<1>3. \A t \in Schedule : t # plan[c] => state'[t] = state[t] /\ made'[t] = made[t]
                                         /\ (t \in recorded' <=> t \in recorded)
  BY <1>1 DEF Resolve, ScheduleTypeOK
<1>4. Exclusive' /\ Held'
  BY <1>2, <1>3 DEF Exclusive, Held
<1>5. FiredOne'
  BY <1>1, ScheduleAssumption DEF FiredOne, Resolve, ScheduleTypeOK
<1>6. state[plan[c]] = "fired" /\ state'[plan[c]] = outcome
  BY <1>1 DEF Held, Resolve, ScheduleTypeOK
<1>7. made'[plan[c]] <= 1
  <2>1. made[plan[c]] \in Nat /\ made[plan[c]] <= 1
    BY <1>1 DEF FiresAtMostOnce, ScheduleTypeOK
  <2>2. from # "record" => made[plan[c]] = 0
    BY <1>1 DEF NotYet, Before, Resolve
  <2>. QED BY <1>1, <2>1, <2>2 DEF ScheduleTypeOK
<1>8. \A d \in Copy, t \in Schedule : Before(d, t) => Holds(d, t)
  BY DEF Before, Holds
<1>9. NotYet'
  <2>1. \A t \in Schedule : state'[t] \in {"none", "pending"} => made'[t] = 0
    BY <1>3, <1>6 DEF NotYet
  <2>2. \A d \in Copy, t \in Schedule : Before(d, t)' => made'[t] = 0
    BY <1>2, <1>3 DEF NotYet, Before, Holds
  <2>. QED BY <2>1, <2>2 DEF NotYet
<1>10. Asked'
  BY <1>1, <1>3, <1>6 DEF Asked, Resolve, ScheduleTypeOK
<1>11. Recorded'
  BY <1>1, <1>3, <1>6 DEF Recorded, Resolve, ScheduleTypeOK
<1>12. FiresAtMostOnce'
  BY <1>3, <1>7 DEF FiresAtMostOnce, ScheduleTypeOK
<1>. QED BY <1>4, <1>5, <1>9, <1>10, <1>11, <1>12

LEMMA LooksKeepInv ==
  ASSUME IInv, NEW c \in Copy, Looks(c), UNCHANGED <<adding, joining, pc, stops>>
  PROVE  IInv'
<1>. USE DEF IInv
<1>1. UNCHANGED <<made, account, jobs, adding, joining, pc, stops>>
  BY DEF Looks, LookAtDevice, DeviceGone, PlanAllows, PlanIsFree, PlanRefuses, RecordJob, rows
<1>2. CASE LookAtDevice(c) \/ PlanAllows(c) \/ PlanIsFree(c)
  <2>1. ScheduleTypeOK'
    BY <1>1, <1>2 DEF LookAtDevice, PlanAllows, PlanIsFree, GoesOn, rows, account, jobs, pc,
        ScheduleTypeOK, Steps
  <2>. QED BY <1>1, <1>2, <2>1, GoingOn DEF LookAtDevice, PlanAllows, PlanIsFree, rows, Steps
<1>3. CASE DeviceGone(c) \/ PlanRefuses(c) \/ RecordJob(c)
  <2>1. \E from \in Steps \ {"idle"}, outcome \in {"fired", "failed"} : Resolve(c, from, outcome)
    BY <1>3 DEF DeviceGone, PlanRefuses, RecordJob, Steps
  <2>2. PICK from \in Steps \ {"idle"}, outcome \in {"fired", "failed"} : Resolve(c, from, outcome)
    BY <2>1
  <2>3. plan[c] \in Schedule
    BY <2>2 DEF Resolve, FiredOne, ScheduleTypeOK
  <2>4. ScheduleTypeOK'
    BY <1>1, <2>2, <2>3 DEF Resolve, account, jobs, pc, ScheduleTypeOK, Steps
  <2>. QED BY <1>1, <2>2, <2>4, Resolving
<1>. QED BY <1>2, <1>3 DEF Looks

\* The one step that creates the job and goes on.
LEMMA CreatingKeepsInv ==
  ASSUME IInv, NEW c \in Copy, CreatePlanned(c), UNCHANGED adding, ScheduleTypeOK'
  PROVE  IInv'
<1>. USE DEF IInv
<1>1. plan[c] \in Schedule /\ Holds(c, plan[c]) /\ Before(c, plan[c]) /\ step[c] = "create"
  BY DEF CreatePlanned, GoesOn, FiredOne, ScheduleTypeOK, Holds, Before
<1>2. /\ made[plan[c]] = 0 /\ made' = [made EXCEPT ![plan[c]] = 1]
      /\ state[plan[c]] = "fired"
  <2>1. made[plan[c]] = 0 /\ state[plan[c]] = "fired"
    BY <1>1 DEF NotYet, Held
  <2>. QED BY <2>1 DEF CreatePlanned
<1>3. UNCHANGED <<state, recorded, taken, plan>> /\ step' = [step EXCEPT ![c] = "record"]
  BY DEF CreatePlanned, GoesOn
<1>4. Exclusive' /\ Held' /\ Asked' /\ Recorded'
  BY <1>3 DEF Exclusive, Held, Asked, Recorded, Holds
<1>5. FiredOne'
  BY <1>1, <1>3 DEF FiredOne, ScheduleTypeOK
<1>6. \A d \in Copy, t \in Schedule : Before(d, t)' => Before(d, t) /\ t # plan[c]
  <2>. SUFFICES ASSUME NEW d \in Copy, NEW t \in Schedule, Before(d, t)'
                PROVE  Before(d, t) /\ t # plan[c]
    OBVIOUS
  <2>1. Before(d, t)
    BY <1>1, <1>3 DEF Before, ScheduleTypeOK
  <2>2. CASE d = c
    BY <1>1, <1>3, <2>2 DEF Before, FiredOne, ScheduleTypeOK
  <2>3. CASE d # c
    BY <1>1, <2>1, <2>3 DEF Exclusive, Holds, Before
  <2>. QED BY <2>1, <2>2, <2>3
<1>7. NotYet' /\ FiresAtMostOnce'
  BY <1>1, <1>2, <1>3, <1>6 DEF NotYet, FiresAtMostOnce, ScheduleTypeOK
<1>. QED BY <1>4, <1>5, <1>7

LEMMA WorksKeepInv ==
  ASSUME IInv, NEW c \in Copy, Works(c), UNCHANGED <<adding, joining, pc, stops>>
  PROVE  IInv'
<1>. USE DEF IInv
<1>1. CASE SpendFreeWipeJoin(c)
  <2>1. ScheduleTypeOK'
    BY <1>1 DEF SpendFreeWipeJoin, GoesOn, FiredOne, rows, jobs, pc, ScheduleTypeOK, Steps
  <2>. QED BY <1>1, <2>1, GoingOn DEF SpendFreeWipeJoin, rows, Steps
<1>2. CASE TakeOver(c)
  <2>1. ScheduleTypeOK'
    BY <1>2, FinishTypes DEF TakeOver, GoesOn, rows, account, pc, ScheduleTypeOK, Steps
  <2>. QED BY <1>2, <2>1, GoingOn DEF TakeOver, rows, Steps
<1>3. CASE CreatePlanned(c)
  <2>1. plan[c] \in Schedule /\ plan[c] \in Origin
    BY <1>3 DEF CreatePlanned, GoesOn, FiredOne, ScheduleTypeOK, Origin
  <2>2. ScheduleTypeOK'
    BY <1>3, <2>1, JobTypes DEF CreatePlanned, GoesOn, account, pc, ScheduleTypeOK, Steps
  <2>. QED BY <1>3, <2>2, CreatingKeepsInv
<1>4. CASE CreateFails(c)
  <2>1. plan[c] \in Schedule /\ plan[c] \in Origin
    BY <1>4 DEF CreateFails, Resolve, FiredOne, ScheduleTypeOK, Origin
  <2>2. ScheduleTypeOK'
    BY <1>4, <2>1, JobTypes DEF CreateFails, Resolve, account, jobs, pc, ScheduleTypeOK, Steps
  <2>. QED BY <1>4, <2>2, Resolving DEF CreateFails, Steps
<1>. QED BY <1>1, <1>2, <1>3, <1>4 DEF Works

LEMMA SchedulerKeepsInv == ASSUME IInv, NEW c \in Copy, Scheduler(c) PROVE IInv'
<1>1. CASE FindDue(c)
  <2>1. ScheduleTypeOK'
    BY <1>1 DEF IInv, FindDue, Pending, rows, pc, account, jobs, ScheduleTypeOK
  <2>. QED BY <1>1, <2>1, Frame DEF FindDue, claims, rows
<1>2. CASE \E s \in Schedule : Claim(c, s) \/ ClaimFails(c, s) \/ Fire(c, s)
  BY <1>2, ClaimKeepsInv
<1>3. CASE Firing(c)
  BY <1>3, LooksKeepInv, WorksKeepInv DEF Firing
<1>. QED BY <1>1, <1>2, <1>3 DEF Scheduler

LEMMA WorldKeepsInv == ASSUME IInv, World PROVE IInv'
<1>1. CASE \/ \E s \in Schedule : ComesDue(s)
           \/ \E o \in Origin : JobEnds(o)
           \/ NewMonth \/ SubscriptionChanges
  <2>1. ScheduleTypeOK'
    BY <1>1 DEF IInv, ComesDue, Pending, JobEnds, NewMonth, SubscriptionChanges,
        rows, pc, account, jobs, scheduler, ScheduleTypeOK
  <2>2. UNCHANGED claims
    BY <1>1 DEF ComesDue, JobEnds, NewMonth, SubscriptionChanges, claims, rows, scheduler
  <2>. QED BY <2>1, <2>2, Frame
<1>2. CASE Stop
  <2>. USE DEF IInv
  <2>1. ScheduleTypeOK'
    BY <1>2, ScheduleAssumption DEF Stop, rows, account, jobs, ScheduleTypeOK, Steps
  <2>2. \A c \in Copy, s \in Schedule : ~Holds(c, s)' /\ ~Before(c, s)'
    BY <1>2, ScheduleAssumption DEF Stop, Holds, Before
  <2>3. FiredOne'
    BY <1>2 DEF Stop, FiredOne
  <2>4. Asked' /\ Recorded' /\ FiresAtMostOnce'
    BY <1>2 DEF Stop, rows, Asked, Recorded, FiresAtMostOnce
  <2>5. Exclusive' /\ Held' /\ NotYet'
    BY <1>2, <2>2 DEF Stop, rows, Exclusive, Held, NotYet
  <2>. QED BY <2>1, <2>3, <2>4, <2>5
<1>. QED BY <1>1, <1>2 DEF World

LEMMA StutterKeepsInv == ASSUME IInv, UNCHANGED vars PROVE IInv'
<1>1. ScheduleTypeOK'
  BY DEF IInv, vars, rows, pc, account, jobs, scheduler, ScheduleTypeOK
<1>. QED BY <1>1, Frame DEF vars, claims, rows, scheduler

\* The inductive invariant holds throughout.
THEOREM ClaimsAreSound == Spec => []IInv
<1>1. IInv /\ [Next]_vars => IInv'
  BY RequestsKeepInv, SchedulerKeepsInv, WorldKeepsInv, StutterKeepsInv DEF Next
<1>. QED BY <1>1, InitInv, PTL DEF Spec

\* Every variable keeps its type (the rows of schedules and jobs, and the
\* scheduler's own state).
THEOREM ScheduleTypeCorrect == Spec => []ScheduleTypeOK
<1>1. IInv => ScheduleTypeOK
  BY DEF IInv
<1>. QED BY <1>1, ClaimsAreSound, PTL

\* A planned join starts at most one job, with any number of schedulers at
\* work and any number of restarts (DueSchedules).
THEOREM PlannedJoinFiresOnce == Spec => []FiresAtMostOnce
<1>1. IInv => FiresAtMostOnce
  BY DEF IInv
<1>. QED BY <1>1, ClaimsAreSound, PTL

-----------------------------------------------------------------------------
(* The word that is kept.                                                  *)

Keeps(s) ==
  Settled(s) => state'[s] = state[s] /\ made'[s] = made[s] /\ (s \in recorded <=> s \in recorded')

\* What a scheduler holds is not settled.
LEMMA HeldIsOpen ==
  ASSUME IInv, NEW c \in Copy, step[c] # "idle" PROVE plan[c] \in Schedule /\ ~Settled(plan[c])
  BY DEF IInv, FiredOne, Held, Holds, Settled, ScheduleTypeOK

LEMMA StepKeepsWord == ASSUME IInv, [Next]_vars, NEW s \in Schedule PROVE Keeps(s)
<1>. USE DEF IInv, ScheduleTypeOK
<1>1. CASE UNCHANGED <<state, recorded, made>>
  BY <1>1 DEF Keeps
<1>2. CASE Requests
  <2>1. \A t \in Schedule : CreateSchedule(t) => Keeps(s)
    BY DEF CreateSchedule, Keeps, Settled, Asked, Recorded
  <2>2. \A t \in Schedule : CancelSchedule(t) => Keeps(s)
    BY DEF CancelSchedule, Keeps, Settled, Recorded
  <2>3. RevokeCancels => Keeps(s)
    BY DEF RevokeCancels, Pending, Keeps, Settled, Recorded
  <2>. QED BY <1>1, <1>2, <2>1, <2>2, <2>3
      DEF Requests, AskSchedule, AskJoin, ClearJoin, CreateJoin, RevokeDevice, RevokeStops, rows
<1>3. ASSUME NEW c \in Copy, Scheduler(c) PROVE Keeps(s)
  <2>1. \A t \in Schedule : Claim(c, t) \/ ClaimFails(c, t) => Keeps(s)
    BY DEF Claim, ClaimFails, Mark, Keeps, Settled, Recorded
  <2>2. \A t \in Schedule : Fire(c, t) \/ FindDue(c) => Keeps(s)
    BY DEF Fire, FindDue, rows, Keeps
  <2>3. CASE Looks(c)
    BY <1>1, <2>3, HeldIsOpen DEF Looks, LookAtDevice, DeviceGone, PlanAllows, PlanIsFree,
        PlanRefuses, RecordJob, Resolve, rows, Keeps
  <2>4. CASE Works(c)
    BY <1>1, <2>4, HeldIsOpen DEF Works, SpendFreeWipeJoin, TakeOver, CreatePlanned,
        CreateFails, GoesOn, Resolve, rows, Keeps
  <2>. QED BY <1>3, <2>1, <2>2, <2>3, <2>4 DEF Scheduler, Firing
<1>4. CASE World
  BY <1>1, <1>4 DEF World, ComesDue, JobEnds, NewMonth, SubscriptionChanges, Stop, rows
<1>5. CASE UNCHANGED vars
  BY <1>1, <1>5 DEF vars, rows
<1>. QED BY <1>2, <1>3, <1>4, <1>5 DEF Next

\* Once a planned join shows how it turned out, it stays so and starts nothing
\* more: a cancelled one is never fired (CancelSchedule, ResolveSchedule).
THEOREM SettledStaysSettled == Spec => WordIsKept
<1>1. IInv /\ [Next]_vars => [\A s \in Schedule : Settled(s) =>
        /\ state'[s] = state[s] /\ made'[s] = made[s]
        /\ s \in recorded <=> s \in recorded']_vars
  BY StepKeepsWord DEF Keeps
<1>. QED BY <1>1, ClaimsAreSound, PTL DEF Spec, WordIsKept

-----------------------------------------------------------------------------
(* The free wipe join.                                                     *)

OneScheduler == \A c, d \in Copy : c = d

FreeInv ==
  /\ spentBy # {} => wipeUsed
  /\ \A c \in Copy : step[c] = "spend" => ~wipeUsed
  /\ FreeWipeOnce

LEMMA FreeInvKept ==
  ASSUME OneScheduler, IInv, FreeInv, [Next]_vars
  PROVE  FreeInv'
<1>. USE DEF FreeInv, FreeWipeOnce
<1>1. CASE UNCHANGED <<wipeUsed, spentBy, step>>
  BY <1>1
<1>2. CASE Stop
  BY <1>2 DEF Stop, account
<1>3. ASSUME NEW c \in Copy, Scheduler(c) PROVE FreeInv'
  <2>. USE OneScheduler DEF OneScheduler
  <2>. step \in [Copy -> Steps]
    BY DEF IInv, ScheduleTypeOK
  <2>1. CASE \E s \in Schedule : Fire(c, s)
    BY <2>1 DEF Fire, account
  <2>2. CASE Looks(c)
    BY <2>2 DEF Looks, LookAtDevice, DeviceGone, PlanAllows, PlanIsFree, PlanRefuses,
        RecordJob, GoesOn, Resolve, account
  <2>3. CASE SpendFreeWipeJoin(c)
    <3>1. ~wipeUsed /\ spentBy = {}
      BY <2>3 DEF SpendFreeWipeJoin, GoesOn
    <3>. QED BY <2>3, <3>1 DEF SpendFreeWipeJoin, GoesOn
  <2>4. CASE TakeOver(c) \/ CreatePlanned(c) \/ CreateFails(c)
    BY <2>4 DEF TakeOver, CreatePlanned, CreateFails, GoesOn, Resolve, account
  <2>5. CASE FindDue(c) \/ \E s \in Schedule : Claim(c, s) \/ ClaimFails(c, s)
    BY <2>5 DEF FindDue, Claim, ClaimFails, account
  <2>. QED BY <1>3, <2>1, <2>2, <2>3, <2>4, <2>5 DEF Scheduler, Firing, Works
<1>4. CASE Requests \/ (World /\ ~Stop) \/ UNCHANGED vars
  <2>1. UNCHANGED <<wipeUsed, spentBy, step>>
    BY <1>4 DEF Requests, AskSchedule, CreateSchedule, CancelSchedule, AskJoin, ClearJoin,
        CreateJoin, RevokeDevice, RevokeCancels, RevokeStops, World, ComesDue, JobEnds,
        NewMonth, SubscriptionChanges, vars, account, scheduler
  <2>. QED BY <1>1, <2>1
<1>. QED BY <1>2, <1>3, <1>4 DEF Next

\* With the one scheduler that the relay runs, one planned join at most is
\* given the free wipe join (MarkFreeWipeJoinUsed).
THEOREM FreeWipeJoinIsSpentOnce == ASSUME OneScheduler PROVE Spec => []FreeWipeOnce
<1>1. Init => FreeInv
  BY DEF Init, FreeInv, FreeWipeOnce
<1>2. IInv /\ FreeInv /\ [Next]_vars => FreeInv'
  BY OneScheduler, FreeInvKept
<1>3. FreeInv => FreeWipeOnce
  BY DEF FreeInv
<1>. QED BY <1>1, <1>2, <1>3, ClaimsAreSound, PTL DEF Spec
=============================================================================
