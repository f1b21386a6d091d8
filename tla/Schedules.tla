----------------------------- MODULE Schedules -----------------------------
(***************************************************************************)
(* The planned joins of one account and its PC, and the free plan they are *)
(* weighed against.                                                        *)
(*                                                                         *)
(* A planned join is a row of the relay's database                         *)
(* (internal/store/schedules.go).  The player adds and cancels it through  *)
(* the API (internal/relay/schedulesapi.go); the scheduler claims the rows *)
(* whose time has come and turns each into a job                           *)
(* (internal/relay/scheduler.go).  A join asked for now and the unlinking  *)
(* of the PC go through their own handlers (internal/relay/server.go).     *)
(* Every handler, and the scheduler, is a sequence of statements on the    *)
(* database: a step is one of them, or a look and the write it leads to    *)
(* where nothing in between could change the outcome.  The relay may stop  *)
(* between any two steps and keeps only the rows.  What happens to a job   *)
(* once it exists is RelayJobs; here it is active, then won or over.       *)
(***************************************************************************)
EXTENDS Naturals, FiniteSets

CONSTANTS
  Schedule,   \* the planned joins the player may ask for
  Join,       \* the joins he may ask for at once
  Copy,       \* the schedulers that run: one, or more if relays overlap
  FreeJoins,  \* joins a month without paying (10 in the code)
  MaxStops,   \* bound: how often the relay stops
  None

ASSUME ScheduleAssumption ==
  /\ Schedule \cap Join = {} /\ None \notin Schedule
  /\ FreeJoins \in Nat /\ MaxStops \in Nat

VARIABLES
  state,      \* schedules.state
  recorded,   \* the planned joins whose row names the job they started
  due,        \* those whose time has come
  adding,     \* requests to add one, past the gate
  joining,    \* requests for a join: "no", "allowed", "cleared"
  linked,     \* the PC is not revoked
  unlinking,  \* what the handler that revoked it has left to do
  paid,       \* Subscription.Active
  wipeUsed,   \* accounts.free_wipe_join_used_at is set
  job,        \* the jobs, by what they came from
  thisMonth,  \* those created since the first of the month
  found,      \* per scheduler: due rows it has read and not yet claimed
  taken,      \* rows it has claimed and not yet fired
  plan, step, \* the one it is firing, and how far it is
  made,       \* history: jobs created for each planned join
  spentBy,    \* history: planned joins that took the free wipe join
  stops       \* how often the relay has stopped

rows == <<state, recorded, due, made>>
account == <<paid, wipeUsed, spentBy>>
jobs == <<job, thisMonth>>
pc == <<linked, unlinking>>
scheduler == <<found, taken, plan, step>>
vars == <<rows, adding, joining, pc, account, jobs, scheduler, stops>>

Origin == Schedule \cup Join
Steps == {"idle", "look", "plan", "spend", "stand", "create", "record"}

ScheduleTypeOK ==
  /\ state \in [Schedule -> {"none", "pending", "fired", "cancelled", "failed"}]
  /\ recorded \subseteq Schedule /\ due \subseteq Schedule
  /\ adding \subseteq Schedule
  /\ joining \in [Join -> {"no", "allowed", "cleared"}]
  /\ linked \in BOOLEAN /\ unlinking \in {"nothing", "schedules", "job"}
  /\ paid \in BOOLEAN /\ wipeUsed \in BOOLEAN
  /\ job \in [Origin -> {"none", "active", "won", "over"}]
  /\ thisMonth \subseteq Origin
  /\ found \in [Copy -> SUBSET Schedule] /\ taken \in [Copy -> SUBSET Schedule]
  /\ plan \in [Copy -> Schedule \cup {None}] /\ step \in [Copy -> Steps]
  /\ made \in [Schedule -> Nat] /\ spentBy \subseteq Schedule
  /\ stops \in 0 .. MaxStops

Init ==
  /\ state = [s \in Schedule |-> "none"]
  /\ recorded = {} /\ due = {} /\ adding = {}
  /\ joining = [j \in Join |-> "no"]
  /\ linked = TRUE /\ unlinking = "nothing"
  /\ paid \in BOOLEAN /\ wipeUsed = FALSE
  /\ job = [o \in Origin |-> "none"] /\ thisMonth = {}
  /\ found = [c \in Copy |-> {}] /\ taken = [c \in Copy |-> {}]
  /\ plan = [c \in Copy |-> None] /\ step = [c \in Copy |-> "idle"]
  /\ made = [s \in Schedule |-> 0] /\ spentBy = {}
  /\ stops = 0

-----------------------------------------------------------------------------
(* The store.                                                              *)

Pending == {s \in Schedule : state[s] = "pending"}

ActiveJobs == {o \in Origin : job[o] = "active"}

\* SuccessfulJoinsSince: every job created this month that was won.
Used == Cardinality({o \in thisMonth : job[o] = "won"})

\* The gates of the free plan.
AllowJoin == paid \/ Used < FreeJoins
AllowSchedule == paid \/ ~wipeUsed

CreateJob(o) ==
  /\ job' = [job EXCEPT ![o] = "active"]
  /\ thisMonth' = thisMonth \cup {o}

FinishJob(o) == job' = [job EXCEPT ![o] = IF @ = "active" THEN "over" ELSE @]

\* ActiveJobForDevice and FinishJob.  There may be two; it finds the newest,
\* which is not kept here.
FinishesTheActiveJob ==
  /\ IF ActiveJobs = {} THEN UNCHANGED job ELSE \E o \in ActiveJobs : FinishJob(o)
  /\ UNCHANGED thisMonth

-----------------------------------------------------------------------------
(* The player's requests.                                                  *)

\* handleCreateSchedule looks at the PC and at the plan, spends up to ten
\* seconds on the server's address, and only then stores the row.
AskSchedule(s) ==
  /\ state[s] = "none" /\ s \notin adding
  /\ linked /\ AllowSchedule
  /\ adding' = adding \cup {s}
  /\ UNCHANGED <<rows, joining, pc, account, jobs, scheduler, stops>>

CreateSchedule(s) ==
  /\ s \in adding
  /\ adding' = adding \ {s}
  /\ \/ state' = [state EXCEPT ![s] = "pending"]
     \/ UNCHANGED state   \* no address, or a time that will not do
  /\ UNCHANGED <<recorded, due, made, joining, pc, account, jobs, scheduler, stops>>

\* Mutant: a planned join can be cancelled while it is being fired.
CancelScheduleLate(s) ==
  /\ state[s] \in {"pending", "fired"}
  /\ state' = [state EXCEPT ![s] = "cancelled"]
  /\ UNCHANGED <<recorded, due, made, adding, joining, pc, account, jobs, scheduler, stops>>

CancelSchedule(s) ==
  /\ state[s] = "pending"
  /\ state' = [state EXCEPT ![s] = "cancelled"]
  /\ UNCHANGED <<recorded, due, made, adding, joining, pc, account, jobs, scheduler, stops>>

\* handleCreateJob: the PC and the plan, then the planned join the PC is kept
\* for, then the job it is busy with, then the row.
AskJoin(j) ==
  /\ job[j] = "none" /\ joining[j] = "no"
  /\ linked /\ AllowJoin
  /\ joining' = [joining EXCEPT ![j] = "allowed"]
  /\ UNCHANGED <<rows, adding, pc, account, jobs, scheduler, stops>>

ClearJoin(j) ==
  /\ joining[j] = "allowed"
  /\ joining' = [joining EXCEPT ![j] =
       IF Pending = {} /\ ActiveJobs = {} THEN "cleared" ELSE "no"]
  /\ UNCHANGED <<rows, adding, pc, account, jobs, scheduler, stops>>

CreateJoin(j) ==
  /\ joining[j] = "cleared"
  /\ joining' = [joining EXCEPT ![j] = "no"]
  /\ CreateJob(j)
  /\ UNCHANGED <<rows, adding, pc, account, scheduler, stops>>

\* handleRevokeDevice: the PC, its planned joins, the job it is busy with.
RevokeDevice ==
  /\ linked /\ linked' = FALSE /\ unlinking' = "schedules"
  /\ UNCHANGED <<rows, adding, joining, account, jobs, scheduler, stops>>

RevokeCancels ==
  /\ unlinking = "schedules" /\ unlinking' = "job"
  /\ state' = [s \in Schedule |-> IF s \in Pending THEN "cancelled" ELSE state[s]]
  /\ UNCHANGED <<recorded, due, made, linked, adding, joining, account, jobs, scheduler, stops>>

RevokeStops ==
  /\ unlinking = "job" /\ unlinking' = "nothing"
  /\ FinishesTheActiveJob
  /\ UNCHANGED <<rows, linked, adding, joining, account, scheduler, stops>>

-----------------------------------------------------------------------------
(* The scheduler.                                                          *)

Idle(c) == found[c] = {} /\ taken[c] = {} /\ step[c] = "idle"

\* Mutant: only the rows of PCs that are linked are looked for.
FindDueLinked(c) ==
  /\ Idle(c)
  /\ found' = [found EXCEPT ![c] = IF linked THEN Pending \cap due ELSE {}]
  /\ UNCHANGED <<taken, plan, step>>
  /\ UNCHANGED <<rows, adding, joining, pc, account, jobs, stops>>

\* DueSchedules reads the due rows, claims one after the other, and returns
\* those it got.  An error on the way loses those it has claimed.
FindDue(c) ==
  /\ Idle(c)
  /\ found' = [found EXCEPT ![c] = Pending \cap due]
  /\ UNCHANGED <<taken, plan, step>>
  /\ UNCHANGED <<rows, adding, joining, pc, account, jobs, stops>>

\* Mutant: the row is left pending until the join has been dealt with.
MarkLater(s) == state' = state

\* Mutant: the row is given a state of its own.
MarkFiring(s) == state' = [state EXCEPT ![s] = IF @ = "pending" THEN "firing" ELSE @]

\* The conditional UPDATE.
Mark(s) == state' = [state EXCEPT ![s] = IF @ = "pending" THEN "fired" ELSE @]

Claim(c, s) ==
  /\ s \in found[c]
  /\ Mark(s)
  /\ found' = [found EXCEPT ![c] = @ \ {s}]
  /\ taken' = [taken EXCEPT ![c] = IF state[s] = "pending" THEN @ \cup {s} ELSE @]
  /\ UNCHANGED <<plan, step>>
  /\ UNCHANGED <<recorded, due, made, adding, joining, pc, account, jobs, stops>>

ClaimFails(c, s) ==
  /\ s \in found[c]
  /\ Mark(s) \/ UNCHANGED state
  /\ found' = [found EXCEPT ![c] = {}] /\ taken' = [taken EXCEPT ![c] = {}]
  /\ UNCHANGED <<plan, step>>
  /\ UNCHANGED <<recorded, due, made, adding, joining, pc, account, jobs, stops>>

\* fireSchedule, from here on.
Fire(c, s) ==
  /\ found[c] = {} /\ step[c] = "idle" /\ s \in taken[c]
  /\ taken' = [taken EXCEPT ![c] = @ \ {s}]
  /\ plan' = [plan EXCEPT ![c] = s] /\ step' = [step EXCEPT ![c] = "look"]
  /\ UNCHANGED found
  /\ UNCHANGED <<rows, adding, joining, pc, account, jobs, stops>>

GoesOn(c, from, to) ==
  /\ step[c] = from /\ step' = [step EXCEPT ![c] = to]
  /\ UNCHANGED <<found, taken, plan>>

\* ResolveSchedule names the row and asks nothing of it.
Resolve(c, from, outcome) ==
  /\ step[c] = from /\ step' = [step EXCEPT ![c] = "idle"]
  /\ plan' = [plan EXCEPT ![c] = None]
  /\ state' = [state EXCEPT ![plan[c]] = outcome]
  /\ recorded' = IF outcome = "fired" THEN recorded \cup {plan[c]}
                 ELSE recorded \ {plan[c]}
  /\ UNCHANGED <<found, taken, due>>

\* The PC.  An unreadable answer is no refusal.
LookAtDevice(c) == GoesOn(c, "look", "plan") /\ UNCHANGED rows
DeviceGone(c) == ~linked /\ Resolve(c, "look", "failed") /\ UNCHANGED made

\* Mutant: the free wipe join is asked about when it is planned, not again.
PlanIsFreeStill(c) == ~paid /\ GoesOn(c, "plan", "spend") /\ UNCHANGED rows

\* The plan.  An unreadable answer is no refusal either.
PlanAllows(c) == GoesOn(c, "plan", "stand") /\ UNCHANGED rows
PlanIsFree(c) == ~paid /\ ~wipeUsed /\ GoesOn(c, "plan", "spend") /\ UNCHANGED rows
PlanRefuses(c) ==
  ~paid /\ wipeUsed /\ Resolve(c, "plan", "failed") /\ UNCHANGED made

\* A write that fails does not stop the join.
SpendFreeWipeJoin(c) ==
  /\ GoesOn(c, "spend", "stand")
  /\ \/ wipeUsed' = TRUE /\ spentBy' = spentBy \cup {plan[c]}
     \/ UNCHANGED <<wipeUsed, spentBy>>
  /\ UNCHANGED <<rows, paid, jobs>>

\* The planned join wins over the one that is running.
TakeOver(c) ==
  /\ GoesOn(c, "stand", "create")
  /\ FinishesTheActiveJob
  /\ UNCHANGED <<rows, account>>

\* After up to ten seconds spent on the server's address.  The row of the job
\* and the first line of its timeline are two writes.
CreatePlanned(c) ==
  /\ GoesOn(c, "create", "record")
  /\ CreateJob(plan[c])
  /\ made' = [made EXCEPT ![plan[c]] = @ + 1]
  /\ UNCHANGED <<state, recorded, due, account>>

CreateFails(c) ==
  /\ Resolve(c, "create", "failed")
  /\ \/ CreateJob(plan[c]) /\ made' = [made EXCEPT ![plan[c]] = @ + 1]
     \/ UNCHANGED <<jobs, made>>
  /\ UNCHANGED account

RecordJob(c) == Resolve(c, "record", "fired") /\ UNCHANGED made

\* The statements of fireSchedule.
Looks(c) ==
  /\ LookAtDevice(c) \/ DeviceGone(c) \/ PlanAllows(c) \/ PlanIsFree(c)
       \/ PlanRefuses(c) \/ RecordJob(c)
  /\ UNCHANGED <<account, jobs>>

Works(c) == SpendFreeWipeJoin(c) \/ TakeOver(c) \/ CreatePlanned(c) \/ CreateFails(c)

Firing(c) == (Looks(c) \/ Works(c)) /\ UNCHANGED <<adding, joining, pc, stops>>

-----------------------------------------------------------------------------
(* Around them.                                                            *)

ComesDue(s) ==
  /\ s \in Pending \ due /\ due' = due \cup {s}
  /\ UNCHANGED <<state, recorded, made, adding, joining, pc, account, jobs, scheduler, stops>>

JobEnds(o) ==
  /\ job[o] = "active"
  /\ \E end \in {"won", "over"} : job' = [job EXCEPT ![o] = end]
  /\ UNCHANGED <<rows, adding, joining, pc, account, thisMonth, scheduler, stops>>

NewMonth ==
  /\ thisMonth' = {}
  /\ UNCHANGED <<rows, adding, joining, pc, account, job, scheduler, stops>>

SubscriptionChanges ==
  /\ paid' = ~paid
  /\ UNCHANGED <<rows, adding, joining, pc, wipeUsed, spentBy, jobs, scheduler, stops>>

\* The relay stops and starts again.
Stop ==
  /\ stops < MaxStops /\ stops' = stops + 1
  /\ adding' = {} /\ joining' = [j \in Join |-> "no"] /\ unlinking' = "nothing"
  /\ found' = [c \in Copy |-> {}] /\ taken' = [c \in Copy |-> {}]
  /\ plan' = [c \in Copy |-> None] /\ step' = [c \in Copy |-> "idle"]
  /\ UNCHANGED <<rows, linked, account, jobs>>

Requests ==
  \/ \E s \in Schedule : AskSchedule(s) \/ CreateSchedule(s) \/ CancelSchedule(s)
  \/ \E j \in Join : AskJoin(j) \/ ClearJoin(j) \/ CreateJoin(j)
  \/ RevokeDevice \/ RevokeCancels \/ RevokeStops

Scheduler(c) ==
  \/ FindDue(c)
  \/ \E s \in Schedule : Claim(c, s) \/ ClaimFails(c, s) \/ Fire(c, s)
  \/ Firing(c)

World ==
  \/ \E s \in Schedule : ComesDue(s)
  \/ \E o \in Origin : JobEnds(o)
  \/ NewMonth \/ SubscriptionChanges \/ Stop

Next == Requests \/ (\E c \in Copy : Scheduler(c)) \/ World

Spec == Init /\ [][Next]_vars

\* The ticker of RunScheduler keeps the scheduler going, and the database does
\* not fail at every claim.  Nothing obliges the player, the jobs or the
\* calendar.
FairSpec ==
  /\ Spec
  /\ \A c \in Copy : WF_vars(Scheduler(c)) /\ SF_vars(\E s \in Schedule : Claim(c, s))

-----------------------------------------------------------------------------
(* What the planned joins owe the player.                                  *)

\* A planned join starts at most one job, whatever the scheduler, the player
\* and the restarts of the relay do, "even if two copies of the scheduler were
\* somehow running" (DueSchedules).
FiresAtMostOnce == \A s \in Schedule : made[s] <= 1

\* What the player can read of a planned join: withdrawn, failed, or started
\* with a job to follow.
Settled(s) == state[s] \in {"cancelled", "failed"} \/ s \in recorded

\* Once a planned join shows how it turned out, that stays true: a cancelled
\* or failed one starts nothing afterwards, and none is shown differently
\* later, although ResolveSchedule overwrites whatever it finds.
WordIsKept ==
  [][\A s \in Schedule : Settled(s) =>
       /\ state'[s] = state[s] /\ made'[s] = made[s]
       /\ s \in recorded <=> s \in recorded']_vars

\* The free wipe join goes to one planned join, once ever, however many are
\* due together and whenever the relay stops (MarkFreeWipeJoinUsed).
FreeWipeOnce == \A s, t \in spentBy : s = t

\* A planned join whose time has come is taken up or withdrawn, through errors
\* and restarts: it cannot be forgotten as pending.
DueIsTaken == \A s \in Schedule : s \in due /\ state[s] = "pending" ~> state[s] # "pending"

\* docs/relay-api.md:206-208, "the join still starts, and whatever cannot
\* happen is notified instead of silently dropped": a planned join that was
\* taken up starts or says that it failed.
NothingIsDropped == \A s \in Schedule : state[s] = "fired" ~> Settled(s)

\* internal/relay/freeplan.go:34, "JoinsUsed is successful, self-started
\* joins this calendar month": what is counted against the free joins.
OnlyOwnJoinsCount ==
  Used = Cardinality({j \in Join \cap thisMonth : job[j] = "won"})

=============================================================================
