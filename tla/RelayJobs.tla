----------------------------- MODULE RelayJobs -----------------------------
(***************************************************************************)
(* The jobs of one PC, shared between the relay and the agent.             *)
(*                                                                         *)
(* The relay keeps a row for each job (internal/store/jobs.go) and at most *)
(* one connection for the PC (internal/relay/hub.go).  The agent keeps the *)
(* job it works on and the results of those it finished, in memory         *)
(* (internal/agentapp/app.go), and dials the relay again whenever it loses *)
(* it (internal/relayclient/client.go).  The relay may hold a dead         *)
(* connection for three heartbeats before it notices.  Requests of the     *)
(* web app, the scheduler and the expiry sweep run in goroutines of their  *)
(* own; a step is what they do between two looks at the database or the    *)
(* hub.  The database is one connection, so one statement is one step.  A  *)
(* look and the write that follows it are one step where nothing between   *)
(* them could change the outcome.                                          *)
(***************************************************************************)
EXTENDS Naturals, Sequences, FiniteSets

CONSTANTS
  MaxJobs,     \* bound: jobs ever created; they are numbered in that order
  MaxQueue,    \* messages the agent's queue holds (64 in the code)
  MaxSend,     \* messages the relay's queue for a PC holds (64 in the code)
  MaxWire,     \* bound: messages on their way to the relay
  MaxTrouble   \* bound: broken links and restarts

ASSUME RelayAssumption ==
  {MaxJobs, MaxQueue, MaxSend, MaxWire} \subseteq Nat \ {0} /\ MaxTrouble \in Nat

VARIABLES
  row,          \* jobs.state: "none", "pending", "working", "ended"
  hub,          \* the PC's connection: "none", "live", "stale"
  greeted,      \* the connection has said hello
  up, down,     \* the two directions of the socket
  handing,      \* the job its reader is about to hand over, 0 for none
  applying,     \* a status between its check and its UPDATE, or none
  dispatching,  \* jobs on their way to hub.SendTo
  joining,      \* a join request has found the PC free
  firing,       \* a schedule has cleared the way for its job
  finishing,    \* cancelled jobs that could not be sent to the agent
  asked,        \* history: jobs whose cancel has been answered
  planned,      \* history: jobs a schedule created
  closed,       \* history: jobs whose row has been ended
  told,         \* history: those ended on the agent's own word
  session,      \* the agent has a connection
  out,          \* relayclient.Client.out
  current,      \* App.current, 0 for none
  finished,     \* App.finished
  trouble       \* how many links broke and programs restarted

relay == <<row, closed, told>>
requests == <<joining, firing, finishing, asked, planned>>
handover == <<dispatching, handing>>
wire == <<hub, greeted, up, down, session>>
agent == <<out, current, finished>>
vars == <<relay, requests, handover, applying, wire, agent, trouble>>

Jobs == 1 .. MaxJobs
Hello == [type |-> "hello", job |-> 0, ended |-> FALSE]
Status(j, isOver) == [type |-> "job_status", job |-> j, ended |-> isOver]
Statuses == {Status(j, isOver) : j \in Jobs, isOver \in BOOLEAN}
Order(t, j) == [type |-> t, job |-> j]
Orders == {Order(t, j) : t \in {"assign", "cancel"}, j \in Jobs}
NoStatus == Hello

RelayTypeOK ==
  /\ row \in [Jobs -> {"none", "pending", "working", "ended"}]
  /\ hub \in {"none", "live", "stale"} /\ greeted \in BOOLEAN
  /\ up \in Seq(Statuses \cup {Hello}) /\ Len(up) <= MaxWire
  /\ down \in Seq(Orders) /\ Len(down) <= MaxSend
  /\ handing \in 0 .. MaxJobs
  /\ applying \in Statuses \cup {NoStatus}
  /\ dispatching \subseteq Jobs /\ finishing \subseteq Jobs
  /\ asked \subseteq Jobs /\ planned \subseteq Jobs
  /\ told \subseteq closed /\ closed \subseteq Jobs
  /\ joining \in BOOLEAN /\ firing \in BOOLEAN /\ session \in BOOLEAN
  /\ out \in Seq(Statuses \cup {Hello}) /\ Len(out) <= MaxQueue
  /\ current \in 0 .. MaxJobs /\ finished \subseteq Jobs
  /\ trouble \in 0 .. MaxTrouble

Init ==
  /\ row = [j \in Jobs |-> "none"] /\ closed = {} /\ told = {}
  /\ joining = FALSE /\ firing = FALSE
  /\ finishing = {} /\ asked = {} /\ planned = {}
  /\ dispatching = {} /\ handing = 0
  /\ applying = NoStatus
  /\ hub = "none" /\ greeted = FALSE /\ up = <<>> /\ down = <<>>
  /\ session = FALSE /\ out = <<>> /\ current = 0 /\ finished = {}
  /\ trouble = 0

-----------------------------------------------------------------------------
(* The store and the hub.                                                  *)

Active(j) == row[j] \in {"pending", "working"}

ActiveJobs == {j \in Jobs : Active(j)}

\* ActiveJobForDevice: the newest one.
Newest(j) == Active(j) /\ \A k \in ActiveJobs : k <= j
ActiveJob == CHOOSE j \in Jobs : Newest(j)

\* FinishJob touches a row that is still active and no other.
FinishJob(j) ==
  /\ row' = [row EXCEPT ![j] = IF Active(j) THEN "ended" ELSE @]
  /\ closed' = closed \cup {j}
  /\ UNCHANGED told

\* ApplyStatus's UPDATE names the row and asks nothing of it.
Update(st) ==
  /\ row' = [row EXCEPT ![st.job] = IF st.ended THEN "ended" ELSE "working"]
  /\ closed' = IF st.ended THEN closed \cup {st.job} ELSE closed
  /\ told' = IF st.ended THEN told \cup {st.job} ELSE told

\* What an abandoned reader was handing over still goes to the hub.
Abandons == dispatching' = (dispatching \cup {handing}) \ {0} /\ handing' = 0

\* The relay lets go of the connection, and the agent sees it close.
HangsUp ==
  hub' = "none" /\ greeted' = FALSE /\ up' = <<>> /\ down' = <<>> /\ session' = FALSE

Full == hub = "live" /\ Len(down) = MaxSend

Reached == hub # "none" /\ ~Full

\* Send never waits: a connection that is too far behind is dropped, and one
\* that is dead and not known to be swallows the message.
SendTo(order) ==
  IF Full THEN HangsUp
  ELSE /\ down' = IF hub = "live" THEN Append(down, order) ELSE down
       /\ UNCHANGED <<hub, greeted, session>>

CreateJob ==
  \E j \in Jobs :
    /\ row[j] = "none" /\ \A k \in 1 .. j - 1 : row[k] # "none"
    /\ row' = [row EXCEPT ![j] = "pending"]
    /\ dispatching' = dispatching \cup {j}
    /\ UNCHANGED <<closed, told, handing>>

-----------------------------------------------------------------------------
(* The web app, the scheduler and the sweep.                               *)

\* One PC, one job: the check and the INSERT are two statements.
JoinChecks ==
  /\ ~joining /\ ActiveJobs = {} /\ joining' = TRUE
  /\ UNCHANGED <<relay, firing, finishing, asked, planned, handover, applying,
                 wire, agent, trouble>>

JoinCreates ==
  /\ joining /\ joining' = FALSE /\ CreateJob
  /\ UNCHANGED <<firing, finishing, asked, planned, applying, wire, agent, trouble>>

\* A send from beside the reader: what has arrived from the agent stays.
SendsBeside(order) == SendTo(order) /\ (~Full => up' = up)

Dispatch(j) ==
  /\ j \in dispatching /\ SendsBeside(Order("assign", j))
  /\ dispatching' = (dispatching \ {j}) \cup (IF Full THEN {handing} \ {0} ELSE {})
  /\ handing' = IF Full THEN 0 ELSE handing
  /\ UNCHANGED <<relay, requests, applying, agent, trouble>>

\* Sent to the agent if it can be, else ended in the row.  (Bound: a player
\* cancels a job once.)
CancelSends(j) ==
  /\ Active(j) /\ j \notin asked \cup finishing
  /\ SendsBeside(Order("cancel", j))
  /\ IF Reached THEN asked' = asked \cup {j} /\ UNCHANGED finishing
     ELSE finishing' = finishing \cup {j} /\ UNCHANGED asked
  /\ IF Full THEN Abandons ELSE UNCHANGED handover
  /\ UNCHANGED <<relay, joining, firing, planned, applying, agent, trouble>>

CancelFinishes(j) ==
  /\ j \in finishing /\ finishing' = finishing \ {j} /\ asked' = asked \cup {j}
  /\ FinishJob(j)
  /\ UNCHANGED <<joining, firing, planned, handover, applying, wire, agent, trouble>>

\* A schedule that is due stands the running job down and takes its place.
FireTakesOver ==
  /\ ~firing /\ \E j \in Jobs : row[j] = "none"
  /\ firing' = TRUE
  /\ IF ActiveJobs = {} THEN UNCHANGED <<relay, handover, wire>>
     ELSE /\ FinishJob(ActiveJob) /\ SendsBeside(Order("cancel", ActiveJob))
          /\ IF Full THEN Abandons ELSE UNCHANGED handover
  /\ UNCHANGED <<joining, finishing, asked, planned, applying, agent, trouble>>

FireCreates ==
  /\ firing /\ firing' = FALSE /\ CreateJob
  /\ planned' = planned \cup (dispatching' \ dispatching)
  /\ UNCHANGED <<joining, finishing, asked, applying, wire, agent, trouble>>

\* Six hours without a word from a PC that is not connected.
Expire(j) ==
  /\ Active(j) /\ hub = "none" /\ j \notin dispatching /\ FinishJob(j)
  /\ UNCHANGED <<requests, handover, applying, wire, agent, trouble>>

-----------------------------------------------------------------------------
(* The relay's reader of the socket: one message at a time.                *)

Takes ==
  /\ hub # "none" /\ applying = NoStatus /\ handing = 0
  /\ up # <<>> /\ up' = Tail(up)

\* Mutation: only a job that had been started is handed back.
RelayGreetsForgettingPending ==
  /\ Takes /\ ~greeted /\ Head(up) = Hello
  /\ greeted' = TRUE
  /\ handing' = IF \E j \in Jobs : Newest(j) /\ row[j] = "working"
                THEN ActiveJob ELSE 0
  /\ UNCHANGED <<relay, requests, dispatching, applying, hub, down, session, agent,
                 trouble>>

\* Hello: the outstanding job is to be handed over, again or for the first time.
RelayGreets ==
  /\ Takes /\ ~greeted /\ Head(up) = Hello
  /\ greeted' = TRUE
  /\ handing' = IF ActiveJobs = {} THEN 0 ELSE ActiveJob
  /\ UNCHANGED <<relay, requests, dispatching, applying, hub, down, session, agent,
                 trouble>>

\* The address has been looked up once more, which may take ten seconds.
HandsOver ==
  /\ handing # 0 /\ handing' = 0 /\ SendsBeside(Order("assign", handing))
  /\ UNCHANGED <<relay, requests, dispatching, applying, agent, trouble>>

\* Anything else first: the connection is refused.
RelayRefuses ==
  /\ hub # "none" /\ up # <<>> /\ ~greeted /\ Head(up) # Hello
  /\ hub' = "none" /\ up' = <<>> /\ down' = <<>> /\ greeted' = FALSE
  /\ session' = (session /\ hub # "live")
  /\ UNCHANGED <<relay, requests, handover, applying, agent, trouble>>

RelaySkips ==
  /\ Takes /\ greeted
  /\ \/ Head(up) = Hello
     \/ Head(up).ended /\ ~Active(Head(up).job)
  /\ UNCHANGED <<relay, requests, handover, applying, hub, greeted, down, session,
                 agent, trouble>>

\* Mutation: late word of a job that ended here is dropped in silence.
RelayCorrectsNobody ==
  /\ Takes /\ greeted /\ Head(up) # Hello
  /\ ~Head(up).ended /\ ~Active(Head(up).job)
  /\ UNCHANGED <<relay, requests, handover, applying, hub, greeted, down, session,
                 agent, trouble>>

\* The agent still works on a job that ended here: it is told to stop.
RelayCorrects ==
  /\ hub # "none" /\ applying = NoStatus /\ handing = 0 /\ up # <<>> /\ greeted
  /\ Head(up) # Hello /\ ~Head(up).ended /\ ~Active(Head(up).job)
  /\ SendTo(Order("cancel", Head(up).job)) /\ (~Full => up' = Tail(up))
  /\ UNCHANGED <<relay, requests, handover, applying, agent, trouble>>

\* Mutation: the state of the row is not looked at.
RelayAcceptsBlindly ==
  /\ Takes /\ greeted /\ Head(up) # Hello
  /\ applying' = Head(up)
  /\ UNCHANGED <<relay, requests, handover, hub, greeted, down, session, agent,
                 trouble>>

RelayAccepts ==
  /\ Takes /\ greeted /\ Head(up) # Hello /\ Active(Head(up).job)
  /\ applying' = Head(up)
  /\ UNCHANGED <<relay, requests, handover, hub, greeted, down, session, agent,
                 trouble>>

RelayApplies ==
  /\ applying # NoStatus /\ applying' = NoStatus /\ Update(applying)
  /\ UNCHANGED <<requests, handover, wire, agent, trouble>>

\* Three heartbeats missed.
RelayNotices ==
  /\ hub = "stale" /\ handing = 0
  /\ hub' = "none" /\ up' = <<>> /\ greeted' = FALSE
  /\ UNCHANGED <<relay, requests, handover, applying, down, session, agent, trouble>>

-----------------------------------------------------------------------------
(* The agent.                                                              *)

\* Mutation: a message is queued whether or not there is room.
QueuedAnyway(m) == Append(out, m)

\* Send: a message that finds the queue full is dropped.
Queued(m) == IF Len(out) < MaxQueue THEN Append(out, m) ELSE out

\* A new connection replaces whatever the hub held.
AgentConnects ==
  /\ ~session /\ session' = TRUE
  /\ out' = Queued(Hello)
  /\ hub' = "live" /\ greeted' = FALSE /\ up' = <<>> /\ down' = <<>>
  /\ Abandons
  /\ UNCHANGED <<relay, requests, applying, current, finished, trouble>>

AgentWrites ==
  /\ session /\ out # <<>> /\ Len(up) < MaxWire
  /\ up' = Append(up, Head(out)) /\ out' = Tail(out)
  /\ UNCHANGED <<relay, requests, handover, applying, hub, greeted, down, session,
                 current, finished, trouble>>

\* Mutation: the results of finished jobs are not remembered.
OnAssignForgetful(j) ==
  IF current = j THEN UNCHANGED <<out, current>>
  ELSE current' = j /\ out' = Queued(Status(j, FALSE))

\* A job that is done is answered with its result, the one at work goes on,
\* any other replaces it without a word about the old one.
OnAssign(j) ==
  IF j \in finished THEN out' = Queued(Status(j, TRUE)) /\ UNCHANGED current
  ELSE IF current = j THEN UNCHANGED <<out, current>>
  ELSE current' = j /\ out' = Queued(Status(j, FALSE))

Finish(j) ==
  current' = 0 /\ finished' = finished \cup {j} /\ out' = Queued(Status(j, TRUE))

\* A connected writer keeps up with what the agent has to say.
Room == session => Len(out) < MaxQueue

AgentReads ==
  /\ session /\ Room /\ down # <<>> /\ down' = Tail(down)
  /\ LET order == Head(down) IN
       IF order.type = "assign" THEN OnAssign(order.job) /\ UNCHANGED finished
       ELSE IF order.job = current THEN Finish(current)
       ELSE UNCHANGED agent
  /\ UNCHANGED <<relay, requests, handover, applying, hub, greeted, up, session,
                 trouble>>

\* Bound: reports never fill the queue so far that a hello is dropped, and they
\* are so far apart that the reader has caught up before the next.
JobReports ==
  /\ current # 0 /\ Len(out) < MaxQueue - 1 /\ down = <<>>
  /\ out' = Queued(Status(current, FALSE))
  /\ UNCHANGED <<relay, requests, handover, applying, wire, current, finished,
                 trouble>>

JobEnds ==
  /\ current # 0 /\ Room /\ Finish(current)
  /\ UNCHANGED <<relay, requests, handover, applying, wire, trouble>>

-----------------------------------------------------------------------------
(* Trouble.                                                                *)

Troubled == trouble < MaxTrouble /\ trouble' = trouble + 1

\* What was on the wire arrives or does not; the dying writer may swallow one
\* more message.
LinkBreaks ==
  /\ Troubled /\ session /\ session' = FALSE
  /\ hub' = "stale" /\ down' = <<>> /\ up' \in {up, <<>>}
  /\ out' = out \/ (out # <<>> /\ out' = Tail(out))
  /\ UNCHANGED <<relay, requests, handover, applying, greeted, current, finished>>

AgentRestarts ==
  /\ Troubled
  /\ session' = FALSE /\ out' = <<>> /\ current' = 0 /\ finished' = {}
  /\ hub' = IF session THEN "stale" ELSE hub
  /\ down' = <<>> /\ up' \in {up, <<>>}
  /\ UNCHANGED <<relay, requests, handover, applying, greeted>>

\* Only the rows survive.
RelayRestarts ==
  /\ Troubled /\ HangsUp
  /\ dispatching' = {} /\ handing' = 0 /\ joining' = FALSE /\ firing' = FALSE
  /\ finishing' = {} /\ applying' = NoStatus
  /\ UNCHANGED <<relay, asked, planned, agent>>

Next ==
  \/ JoinChecks \/ JoinCreates \/ FireTakesOver \/ FireCreates
  \/ \E j \in Jobs : Dispatch(j) \/ CancelSends(j) \/ CancelFinishes(j) \/ Expire(j)
  \/ RelayGreets \/ HandsOver \/ RelayRefuses \/ RelaySkips \/ RelayCorrects
  \/ RelayAccepts \/ RelayApplies \/ RelayNotices
  \/ AgentConnects \/ AgentWrites \/ AgentReads \/ JobReports \/ JobEnds
  \/ LinkBreaks \/ AgentRestarts \/ RelayRestarts

Spec == Init /\ [][Next]_vars

(* Both ends read and write while they are up, a request once begun is     *)
(* carried out, and the agent keeps dialling.  The relay does not fill its *)
(* queue for the PC and drop the connection again and again before the     *)
(* agent has read anything: that is the strong fairness.                   *)
Fairness ==
  /\ \A j \in Jobs : WF_vars(Dispatch(j)) /\ WF_vars(CancelFinishes(j))
  /\ WF_vars(RelayGreets) /\ WF_vars(HandsOver) /\ WF_vars(RelayRefuses)
  /\ WF_vars(RelaySkips) /\ WF_vars(RelayCorrects) /\ WF_vars(RelayAccepts)
  /\ WF_vars(RelayApplies)
  /\ WF_vars(AgentConnects) /\ WF_vars(AgentWrites) /\ SF_vars(AgentReads)

FairSpec == Spec /\ Fairness

\* The state machine moves on and so has something to report.
ReportingSpec == FairSpec /\ WF_vars(JobReports)

-----------------------------------------------------------------------------
(* Correctness.                                                            *)

\* The end of a job that the agent itself reported is final, though statuses
\* may be late, the job may be handed over again, and the agent forgets what
\* it finished when it restarts.
AgentsWordIsFinal == \A j \in told : row[j] = "ended"

\* The PC was given no later job.  (A job that was created at the same time
\* as a later one is hidden by it until the agent connects again.)
Latest(j) == \A k \in Jobs : k > j => row[k] = "none"

\* The end of a job reaches the relay, though every message may be lost: the
\* job is handed over again and answered with its result.
Unheard(j) == Latest(j) /\ Active(j) /\ j \in finished
ResultArrives == \A j \in Jobs : Unheard(j) ~> ~Unheard(j)

\* The agent does not work on for ever on a job that ended at the relay: the
\* next thing it reports is answered with a cancel.
Astray(j) == current = j /\ row[j] = "ended"
StopReachesTheAgent == \A j \in Jobs : Astray(j) ~> ~Astray(j)

\* A job that waits for its PC is picked up once the PC is there, though the
\* assignment may have been sent into a dead connection.
Waits(j) == Latest(j) /\ row[j] = "pending"
JobIsPickedUp == \A j \in Jobs : Waits(j) ~> ~Waits(j)

\* Everything that was begun is done and everything said has been heard.
Quiet ==
  /\ session /\ hub = "live" /\ greeted
  /\ up = <<>> /\ down = <<>> /\ out = <<>>
  /\ applying = NoStatus /\ handing = 0 /\ dispatching = {} /\ finishing = {}
  /\ ~joining /\ ~firing

\* Documented: a cancel stops the agent.  If it has not, the relay at least
\* knows that the job is over, and stops the agent at its next report.
CancelStopsTheJob == Quiet /\ current \in asked => ~Active(current)

\* Documented: a late status cannot bring a finished job back.
FinishedStaysFinished == \A j \in closed : row[j] = "ended"

\* Documented: a planned join wins over the one that runs when it is due.  Once
\* that one is stood down, the agent works on the planned one.
PlannedJoinWins ==
  \A j \in planned : Quiet /\ Latest(j) /\ ActiveJobs = {j} => current = j
=============================================================================
