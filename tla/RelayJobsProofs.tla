---------------------------- MODULE RelayJobsProofs ----------------------------
(***************************************************************************)
(* Theorems about RelayJobs, for every number of jobs, every length of the *)
(* queues and of the socket, and every number of broken links.             *)
(***************************************************************************)
EXTENDS RelayJobs, SequenceTheorems, WellFoundedInduction, TLAPS

(* The types, one group of variables at a time.                            *)

Word == Statuses \cup {Hello}

RowsOK ==
  /\ row \in [Jobs -> {"none", "pending", "working", "ended"}]
  /\ told \subseteq closed /\ closed \subseteq Jobs

RequestsOK == finishing \subseteq Jobs /\ asked \subseteq Jobs /\ planned \subseteq Jobs

HandoverOK == dispatching \subseteq Jobs /\ handing \in 0 .. MaxJobs

ApplyingOK == applying \in Word

UpOK == up \in Seq(Word) /\ Len(up) <= MaxWire

DownOK == down \in Seq(Orders) /\ Len(down) <= MaxSend

OutOK == out \in Seq(Word) /\ Len(out) <= MaxQueue

WorkOK == current \in 0 .. MaxJobs /\ finished \subseteq Jobs

HubOK == hub \in {"none", "live", "stale"}

FlagsOK ==
  /\ greeted \in BOOLEAN /\ joining \in BOOLEAN
  /\ firing \in BOOLEAN /\ session \in BOOLEAN

TroubleOK == trouble \in 0 .. MaxTrouble

LEMMA Groups ==
  ASSUME RelayTypeOK
  PROVE  /\ RowsOK /\ RequestsOK /\ HandoverOK /\ ApplyingOK /\ UpOK /\ DownOK
         /\ OutOK /\ WorkOK /\ HubOK /\ FlagsOK /\ TroubleOK
  BY Zenon DEF RelayTypeOK, RowsOK, RequestsOK, HandoverOK, ApplyingOK, UpOK, DownOK, OutOK,
     WorkOK, HubOK, FlagsOK, TroubleOK, Word, NoStatus

LEMMA GroupsNext ==
  ASSUME RowsOK', RequestsOK', HandoverOK', ApplyingOK', UpOK', DownOK',
         OutOK', WorkOK', HubOK', FlagsOK', TroubleOK'
  PROVE  RelayTypeOK'
  BY Zenon DEF RelayTypeOK, RowsOK, RequestsOK, HandoverOK, ApplyingOK, UpOK, DownOK, OutOK,
     WorkOK, HubOK, FlagsOK, TroubleOK, Word, NoStatus

\* What is left alone keeps its type.
LEMMA Frames ==
  ASSUME RelayTypeOK
  PROVE  /\ UNCHANGED <<finishing, asked, planned>> => RequestsOK'
         /\ UNCHANGED handover => HandoverOK'
         /\ UNCHANGED applying => ApplyingOK'
         /\ UNCHANGED up => UpOK'
         /\ UNCHANGED down => DownOK'
         /\ UNCHANGED out => OutOK'
         /\ UNCHANGED <<current, finished>> => WorkOK'
         /\ UNCHANGED hub => HubOK'
         /\ UNCHANGED trouble => TroubleOK'
  BY Zenon DEF RelayTypeOK, RequestsOK, HandoverOK, ApplyingOK, UpOK, DownOK, OutOK,
     WorkOK, HubOK, TroubleOK, Word, NoStatus, handover

\* A status that is about to be written is not of a job the agent has already
\* said is over: there is one reader, and it lets a status pass only for a row
\* that is still open.
StillOpen == applying # NoStatus => applying.job \notin told

\* The inductive invariant.  What makes the agent's word final is not the
\* UPDATE, which asks nothing, but that nothing is between a check and its
\* UPDATE when the agent's word is written.
RInv == RelayTypeOK /\ AgentsWordIsFinal /\ StillOpen

-----------------------------------------------------------------------------
(* What the operators keep.                                                *)

\* While any row is open one of them is the newest.
LEMMA ActiveJobIsNewest == ASSUME ActiveJobs # {} PROVE ActiveJob \in Jobs /\ Newest(ActiveJob)
<1> USE RelayAssumption
<1> DEFINE Ages == {MaxJobs - j : j \in ActiveJobs}
<1>1. Ages \subseteq Nat /\ Ages # {}
  BY DEF ActiveJobs, Jobs
<1>2. PICK a \in Ages : \A b \in Ages : ~(<<b, a>> \in OpToRel(<, Nat))
  BY <1>1, NatLessThanWellFounded, WFMin
<1>3. PICK j \in ActiveJobs : a = MaxJobs - j
  BY <1>2
<1>4. ASSUME NEW k \in ActiveJobs PROVE k <= j
  <2>1. MaxJobs - k \in Ages
    OBVIOUS
  <2>2. ~(MaxJobs - k < MaxJobs - j)
    BY <1>1, <1>2, <1>3, <2>1 DEF OpToRel
  <2> QED BY <2>2, <1>3 DEF ActiveJobs, Jobs
<1>5. Newest(j) /\ j \in Jobs
  BY <1>3, <1>4 DEF Newest, ActiveJobs
<1> QED BY <1>5 DEF ActiveJob

LEMMA OrderIsOrder ==
  ASSUME NEW j \in Jobs, NEW t \in {"assign", "cancel"}
  PROVE  Order(t, j) \in Orders
  BY DEF Orders

LEMMA StatusIsWord ==
  ASSUME NEW j \in Jobs, NEW isOver \in BOOLEAN
  PROVE  Status(j, isOver) \in Word
  BY DEF Word, Statuses

LEMMA WordIsStatus ==
  ASSUME NEW m \in Word, m # Hello
  PROVE  m.job \in Jobs /\ m.ended \in BOOLEAN
  BY DEF Word, Statuses, Status

LEMMA OrderIsForJob ==
  ASSUME NEW order \in Orders
  PROVE  order.job \in Jobs
  BY DEF Orders, Order

\* The agent's queue never holds more than it has room for.
LEMMA QueuedType ==
  ASSUME OutOK, NEW m \in Word
  PROVE  Queued(m) \in Seq(Word) /\ Len(Queued(m)) <= MaxQueue
<1> USE RelayAssumption DEF OutOK, Queued
<1>1. CASE Len(out) < MaxQueue
  BY <1>1, AppendProperties, LenProperties
<1>2. CASE ~(Len(out) < MaxQueue)
  BY <1>2
<1> QED BY <1>1, <1>2

\* Neither does the relay's queue for a PC.
LEMMA SendToType ==
  ASSUME HubOK, DownOK, NEW order \in Orders, SendTo(order)
  PROVE  HubOK' /\ DownOK' /\ (Full => up' = <<>>)
<1>1. CASE Full
  BY <1>1, RelayAssumption, EmptySeq DEF SendTo, HangsUp, HubOK, DownOK
<1>2. CASE ~Full /\ hub = "live"
  <2>1. Len(down) < MaxSend
    BY <1>2, RelayAssumption, LenProperties DEF DownOK, Full
  <2>2. down' = Append(down, order) /\ hub' = hub
    BY <1>2 DEF SendTo
  <2>3. down' \in Seq(Orders) /\ Len(down') = Len(down) + 1
    BY <2>2, AppendProperties DEF DownOK
  <2> QED BY <1>2, <2>1, <2>2, <2>3, RelayAssumption, LenProperties DEF HubOK, DownOK
<1>3. CASE ~Full /\ hub # "live"
  BY <1>3 DEF SendTo, HubOK, DownOK
<1> QED BY <1>1, <1>2, <1>3

LEMMA UpEmpty == ASSUME up' = <<>> PROVE UpOK'
  BY RelayAssumption, EmptySeq DEF UpOK

LEMMA DownEmpty == ASSUME down' = <<>> PROVE DownOK'
  BY RelayAssumption, EmptySeq DEF DownOK

LEMMA OutEmpty == ASSUME out' = <<>> PROVE OutOK'
  BY RelayAssumption, EmptySeq DEF OutOK

LEMMA UpTail == ASSUME UpOK, up # <<>> PROVE Head(up) \in Word /\ (up' = Tail(up) => UpOK')
  BY RelayAssumption, HeadTailProperties, LenProperties DEF UpOK

LEMMA DownTail ==
  ASSUME DownOK, down # <<>>
  PROVE  Head(down) \in Orders /\ (down' = Tail(down) => DownOK')
  BY RelayAssumption, HeadTailProperties, LenProperties DEF DownOK

LEMMA OutTail ==
  ASSUME OutOK, out # <<>>
  PROVE  Head(out) \in Word /\ (out' = Tail(out) => OutOK')
  BY RelayAssumption, HeadTailProperties, LenProperties DEF OutOK

LEMMA QueuedOK == ASSUME OutOK, NEW m \in Word, out' = Queued(m) PROVE OutOK'
  BY QueuedType DEF OutOK

-----------------------------------------------------------------------------
(* What a step does to the rows.                                           *)

\* Nothing is taken back: what the agent has ended stays ended.
Keeps ==
  /\ RowsOK' /\ told' = told
  /\ \A j \in Jobs : row[j] = "ended" => row'[j] = "ended"

\* Only the UPDATE adds to what the agent has said, so a step that keeps the
\* rows and begins no UPDATE keeps the invariant.
LEMMA KeepsInv ==
  ASSUME RInv, RelayTypeOK', Keeps, applying' = applying \/ applying' = NoStatus
  PROVE  RInv'
<1> USE DEF RInv, Keeps
<1>1. told \subseteq Jobs
  BY DEF RelayTypeOK
<1>2. AgentsWordIsFinal'
  BY <1>1 DEF AgentsWordIsFinal
<1>3. StillOpen'
  BY DEF StillOpen, NoStatus, Hello
<1> QED BY <1>2, <1>3

LEMMA SameRows == ASSUME RowsOK, UNCHANGED relay PROVE Keeps
  BY DEF RowsOK, Keeps, relay

LEMMA FinishKeeps == ASSUME RowsOK, NEW j \in Jobs, FinishJob(j) PROVE Keeps
<1> USE DEF RowsOK, FinishJob
<1>1. RowsOK' /\ told' = told
  OBVIOUS
<1>2. \A k \in Jobs : row[k] = "ended" => row'[k] = "ended"
  BY DEF Active
<1> QED BY <1>1, <1>2 DEF Keeps

LEMMA CreateKeeps ==
  ASSUME RowsOK, HandoverOK, CreateJob
  PROVE  Keeps /\ HandoverOK' /\ dispatching' \subseteq Jobs
<1> USE DEF RowsOK, HandoverOK, CreateJob
<1>1. PICK j \in Jobs :
        /\ row[j] = "none" /\ row' = [row EXCEPT ![j] = "pending"]
        /\ dispatching' = dispatching \cup {j} /\ UNCHANGED <<closed, told, handing>>
  OBVIOUS
<1>2. RowsOK' /\ told' = told
  BY <1>1
<1>3. \A k \in Jobs : row[k] = "ended" => row'[k] = "ended"
  BY <1>1
<1> QED BY <1>1, <1>2, <1>3 DEF Keeps

LEMMA AbandonsOK == ASSUME HandoverOK, Abandons PROVE HandoverOK'
  BY RelayAssumption DEF HandoverOK, Abandons, Jobs

\* A message for the agent: what becomes of the connection.
LEMMA SendToOK ==
  ASSUME RelayTypeOK, NEW order \in Orders, SendTo(order), ~Full => (up' = up \/ UpOK')
  PROVE  HubOK' /\ DownOK' /\ UpOK' /\ greeted' \in BOOLEAN /\ session' \in BOOLEAN
<1> USE Groups
<1>1. HubOK' /\ DownOK' /\ (Full => up' = <<>>)
  BY SendToType
<1>2. UpOK'
  BY <1>1, UpEmpty DEF UpOK
<1>3. greeted' \in BOOLEAN /\ session' \in BOOLEAN
  BY Zenon DEF SendTo, HangsUp, FlagsOK
<1> QED BY <1>1, <1>2, <1>3

-----------------------------------------------------------------------------
(* The requests of the web app, the scheduler and the sweep.               *)

LEMMA JoinChecksInv == ASSUME RInv, JoinChecks PROVE RInv'
<1> USE Groups, Frames DEF RInv, JoinChecks, wire, agent
<1>1. FlagsOK'
  BY Zenon DEF FlagsOK
<1>2. Keeps
  BY SameRows
<1>3. RelayTypeOK'
  BY Zenon, <1>1, <1>2, GroupsNext DEF Keeps
<1> QED BY <1>2, <1>3, KeepsInv

LEMMA JoinCreatesInv == ASSUME RInv, JoinCreates PROVE RInv'
<1> USE Groups, Frames DEF RInv, JoinCreates, wire, agent
<1>1. FlagsOK'
  BY Zenon DEF FlagsOK
<1>2. Keeps /\ HandoverOK'
  BY CreateKeeps
<1>3. RelayTypeOK'
  BY Zenon, <1>1, <1>2, GroupsNext DEF Keeps
<1> QED BY <1>2, <1>3, KeepsInv

LEMMA DispatchInv == ASSUME RInv, NEW j \in Jobs, Dispatch(j) PROVE RInv'
<1> USE Groups, Frames DEF RInv, Dispatch, requests, agent
<1>1. HubOK' /\ DownOK' /\ UpOK' /\ greeted' \in BOOLEAN /\ session' \in BOOLEAN
  BY OrderIsOrder, SendToOK DEF SendsBeside
<1>2. FlagsOK'
  BY Zenon, <1>1 DEF FlagsOK
<1>3. Keeps
  BY SameRows
<1>4. HandoverOK'
  <2>1. MaxJobs \in Nat /\ handing \in 0 .. MaxJobs /\ dispatching \subseteq 1 .. MaxJobs
    BY RelayAssumption DEF HandoverOK, Jobs
  <2>2. /\ dispatching' \subseteq dispatching \cup ({handing} \ {0})
        /\ handing' = 0 \/ handing' = handing
    OBVIOUS
  <2> QED BY <2>1, <2>2 DEF HandoverOK, Jobs
<1>5. RelayTypeOK'
  BY Zenon, <1>1, <1>2, <1>3, <1>4, GroupsNext DEF Keeps
<1> QED BY <1>3, <1>5, KeepsInv

LEMMA CancelSendsInv == ASSUME RInv, NEW j \in Jobs, CancelSends(j) PROVE RInv'
<1> USE Groups, Frames DEF RInv, CancelSends, agent
<1>1. HubOK' /\ DownOK' /\ UpOK' /\ greeted' \in BOOLEAN /\ session' \in BOOLEAN
  BY OrderIsOrder, SendToOK DEF SendsBeside
<1>2. FlagsOK'
  BY Zenon, <1>1 DEF FlagsOK
<1>3. Keeps
  BY SameRows
<1>4. HandoverOK'
  BY AbandonsOK
<1>5. RequestsOK'
  BY DEF RequestsOK
<1>6. RelayTypeOK'
  BY Zenon, <1>1, <1>2, <1>3, <1>4, <1>5, GroupsNext DEF Keeps
<1> QED BY <1>3, <1>6, KeepsInv

LEMMA CancelFinishesInv == ASSUME RInv, NEW j \in Jobs, CancelFinishes(j) PROVE RInv'
<1> USE Groups, Frames DEF RInv, CancelFinishes, wire, agent
<1>1. FlagsOK'
  BY Zenon DEF FlagsOK
<1>2. Keeps
  BY FinishKeeps
<1>3. RequestsOK'
  BY DEF RequestsOK
<1>4. RelayTypeOK'
  BY Zenon, <1>1, <1>2, <1>3, GroupsNext DEF Keeps
<1> QED BY <1>2, <1>4, KeepsInv

\* The schedule stands down the newest open row, or finds none.
LEMMA FireTakesOverInv == ASSUME RInv, FireTakesOver PROVE RInv'
<1> USE Groups, Frames DEF RInv, FireTakesOver, agent
<1>1. CASE ActiveJobs = {}
  <2>1. FlagsOK'
    BY Zenon, <1>1 DEF FlagsOK, wire
  <2>2. Keeps
    BY <1>1, SameRows
  <2>3. RelayTypeOK'
    BY Zenon, <1>1, <2>1, <2>2, GroupsNext DEF Keeps, wire
  <2> QED BY <2>2, <2>3, KeepsInv
<1>2. CASE ActiveJobs # {}
  <2>1. ActiveJob \in Jobs
    BY <1>2, ActiveJobIsNewest
  <2>2. FinishJob(ActiveJob) /\ SendsBeside(Order("cancel", ActiveJob))
    BY <1>2
  <2>3. HubOK' /\ DownOK' /\ UpOK' /\ greeted' \in BOOLEAN /\ session' \in BOOLEAN
    BY <2>1, <2>2, OrderIsOrder, SendToOK DEF SendsBeside
  <2>4. FlagsOK'
    BY Zenon, <2>3 DEF FlagsOK
  <2>5. Keeps
    BY <2>1, <2>2, FinishKeeps
  <2>6. HandoverOK'
    BY <1>2, AbandonsOK
  <2>7. RelayTypeOK'
    BY Zenon, <2>3, <2>4, <2>5, <2>6, GroupsNext DEF Keeps
  <2> QED BY <2>5, <2>7, KeepsInv
<1> QED BY <1>1, <1>2

LEMMA FireCreatesInv == ASSUME RInv, FireCreates PROVE RInv'
<1> USE Groups, Frames DEF RInv, FireCreates, wire, agent
<1>1. FlagsOK'
  BY Zenon DEF FlagsOK
<1>2. Keeps /\ HandoverOK' /\ dispatching' \subseteq Jobs
  BY CreateKeeps
<1>3. RequestsOK'
  BY <1>2 DEF RequestsOK
<1>4. RelayTypeOK'
  BY Zenon, <1>1, <1>2, <1>3, GroupsNext DEF Keeps
<1> QED BY <1>2, <1>4, KeepsInv

LEMMA ExpireInv == ASSUME RInv, NEW j \in Jobs, Expire(j) PROVE RInv'
<1> USE Groups, Frames DEF RInv, Expire, requests, wire, agent
<1>1. FlagsOK'
  BY Zenon DEF FlagsOK
<1>2. Keeps
  BY FinishKeeps
<1>3. RelayTypeOK'
  BY Zenon, <1>1, <1>2, GroupsNext DEF Keeps
<1> QED BY <1>2, <1>3, KeepsInv

-----------------------------------------------------------------------------
(* The relay's reader.                                                     *)

LEMMA TakesOK == ASSUME RelayTypeOK, Takes PROVE UpOK' /\ Head(up) \in Word
  BY Groups, UpTail DEF Takes

LEMMA RelayGreetsInv == ASSUME RInv, RelayGreets PROVE RInv'
<1> USE Groups, Frames DEF RInv, RelayGreets, requests, agent
<1>1. FlagsOK'
  BY Zenon DEF FlagsOK
<1>2. Keeps /\ UpOK'
  BY SameRows, TakesOK
<1>3. HandoverOK'
  <2>1. handing' \in 0 .. MaxJobs
    BY ActiveJobIsNewest, RelayAssumption DEF Jobs
  <2> QED BY <2>1 DEF HandoverOK
<1>4. RelayTypeOK'
  BY Zenon, <1>1, <1>2, <1>3, GroupsNext DEF Keeps
<1> QED BY <1>2, <1>4, KeepsInv

LEMMA HandsOverInv == ASSUME RInv, HandsOver PROVE RInv'
<1> USE Groups, Frames DEF RInv, HandsOver, requests, agent
<1>1. handing \in Jobs
  BY RelayAssumption DEF HandoverOK, Jobs
<1>2. HubOK' /\ DownOK' /\ UpOK' /\ greeted' \in BOOLEAN /\ session' \in BOOLEAN
  BY <1>1, OrderIsOrder, SendToOK DEF SendsBeside
<1>3. FlagsOK'
  BY Zenon, <1>2 DEF FlagsOK
<1>4. Keeps
  BY SameRows
<1>5. HandoverOK'
  BY RelayAssumption DEF HandoverOK
<1>6. RelayTypeOK'
  BY Zenon, <1>2, <1>3, <1>4, <1>5, GroupsNext DEF Keeps
<1> QED BY <1>4, <1>6, KeepsInv

LEMMA RelayRefusesInv == ASSUME RInv, RelayRefuses PROVE RInv'
<1> USE Groups, Frames DEF RInv, RelayRefuses, requests, agent
<1>1. FlagsOK'
  BY Zenon DEF FlagsOK
<1>2. Keeps
  BY SameRows
<1>3. HubOK' /\ UpOK' /\ DownOK'
  BY UpEmpty, DownEmpty DEF HubOK
<1>4. RelayTypeOK'
  BY Zenon, <1>1, <1>2, <1>3, GroupsNext DEF Keeps
<1> QED BY <1>2, <1>4, KeepsInv

LEMMA RelaySkipsInv == ASSUME RInv, RelaySkips PROVE RInv'
<1> USE Groups, Frames DEF RInv, RelaySkips, requests, agent
<1>1. FlagsOK'
  BY Zenon DEF FlagsOK
<1>2. Keeps /\ UpOK'
  BY SameRows, TakesOK
<1>3. RelayTypeOK'
  BY Zenon, <1>1, <1>2, GroupsNext DEF Keeps
<1> QED BY <1>2, <1>3, KeepsInv

LEMMA RelayCorrectsInv == ASSUME RInv, RelayCorrects PROVE RInv'
<1> USE Groups, Frames DEF RInv, RelayCorrects, requests, agent
<1>1. Order("cancel", Head(up).job) \in Orders
  BY UpTail, WordIsStatus, OrderIsOrder
<1>2. HubOK' /\ DownOK' /\ UpOK' /\ greeted' \in BOOLEAN /\ session' \in BOOLEAN
  <2>1. ~Full => UpOK'
    BY UpTail
  <2> QED BY <1>1, <2>1, SendToOK
<1>3. FlagsOK'
  BY Zenon, <1>2 DEF FlagsOK
<1>4. Keeps
  BY SameRows
<1>5. RelayTypeOK'
  BY Zenon, <1>2, <1>3, <1>4, GroupsNext DEF Keeps
<1> QED BY <1>4, <1>5, KeepsInv

\* The check: the row is open, so the agent has not ended the job.
LEMMA RelayAcceptsInv == ASSUME RInv, RelayAccepts PROVE RInv'
<1> USE Groups, Frames DEF RInv, RelayAccepts, requests, agent
<1>1. FlagsOK'
  BY Zenon DEF FlagsOK
<1>2. Keeps /\ UpOK' /\ Head(up) \in Word
  BY SameRows, TakesOK
<1>3. ApplyingOK'
  BY <1>2 DEF ApplyingOK, Word, Statuses
<1>4. RelayTypeOK'
  BY Zenon, <1>1, <1>2, <1>3, GroupsNext DEF Keeps
<1>5. AgentsWordIsFinal'
  BY DEF AgentsWordIsFinal, relay
<1>6. StillOpen'
  BY DEF StillOpen, AgentsWordIsFinal, Active, relay
<1> QED BY <1>4, <1>5, <1>6

\* The UPDATE: nothing the agent has ended is written, and what the status
\* ends is ended in its row.
LEMMA RelayAppliesInv == ASSUME RInv, RelayApplies PROVE RInv'
<1> USE Groups, Frames DEF RInv, RelayApplies, wire, agent
<1>1. FlagsOK'
  BY Zenon DEF FlagsOK, requests
<1>2. applying.job \in Jobs /\ applying.ended \in BOOLEAN /\ applying.job \notin told
  BY WordIsStatus DEF ApplyingOK, NoStatus, StillOpen
<1>3. /\ row' = [row EXCEPT ![applying.job] = IF applying.ended THEN "ended" ELSE "working"]
      /\ closed' = IF applying.ended THEN closed \cup {applying.job} ELSE closed
      /\ told' = IF applying.ended THEN told \cup {applying.job} ELSE told
  BY DEF Update
<1>4. RowsOK'
  BY <1>2, <1>3 DEF RowsOK
<1>5. ApplyingOK' /\ StillOpen'
  BY DEF ApplyingOK, Word, NoStatus, StillOpen, Hello
<1>6. RelayTypeOK'
  BY Zenon, <1>1, <1>4, <1>5, GroupsNext DEF requests
<1>7. AgentsWordIsFinal'
  BY <1>2, <1>3 DEF AgentsWordIsFinal, RowsOK
<1> QED BY <1>5, <1>6, <1>7

LEMMA RelayNoticesInv == ASSUME RInv, RelayNotices PROVE RInv'
<1> USE Groups, Frames DEF RInv, RelayNotices, requests, agent
<1>1. FlagsOK'
  BY Zenon DEF FlagsOK
<1>2. Keeps /\ HubOK' /\ UpOK'
  BY SameRows, UpEmpty DEF HubOK
<1>3. RelayTypeOK'
  BY Zenon, <1>1, <1>2, GroupsNext DEF Keeps
<1> QED BY <1>2, <1>3, KeepsInv

-----------------------------------------------------------------------------
(* The agent.  It never touches a row.                                     *)

LEMMA AgentConnectsInv == ASSUME RInv, AgentConnects PROVE RInv'
<1> USE Groups, Frames DEF RInv, AgentConnects, requests
<1>1. FlagsOK'
  BY Zenon DEF FlagsOK
<1>2. Keeps
  BY SameRows
<1>3. HubOK' /\ UpOK' /\ DownOK' /\ OutOK'
  BY UpEmpty, DownEmpty, QueuedOK DEF HubOK, Word
<1>4. HandoverOK'
  BY AbandonsOK
<1>5. RelayTypeOK'
  BY Zenon, <1>1, <1>2, <1>3, <1>4, GroupsNext DEF Keeps
<1> QED BY <1>2, <1>5, KeepsInv

LEMMA AgentWritesInv == ASSUME RInv, AgentWrites PROVE RInv'
<1> USE Groups, Frames DEF RInv, AgentWrites, requests
<1>1. FlagsOK'
  BY Zenon DEF FlagsOK
<1>2. Keeps
  BY SameRows
<1>3. Head(out) \in Word /\ OutOK'
  BY OutTail
<1>4. UpOK'
  <2>1. up' \in Seq(Word) /\ Len(up') = Len(up) + 1
    BY <1>3, AppendProperties DEF UpOK
  <2>2. Len(up) \in Nat /\ Len(up) < MaxWire
    BY LenProperties DEF UpOK
  <2> QED BY <2>1, <2>2, RelayAssumption DEF UpOK
<1>5. RelayTypeOK'
  BY Zenon, <1>1, <1>2, <1>3, <1>4, GroupsNext DEF Keeps
<1> QED BY <1>2, <1>5, KeepsInv

LEMMA FinishOK ==
  ASSUME OutOK, WorkOK, current \in Jobs, Finish(current)
  PROVE  OutOK' /\ WorkOK'
<1>1. OutOK'
  BY StatusIsWord, QueuedOK DEF Finish
<1>2. WorkOK'
  BY RelayAssumption DEF Finish, WorkOK
<1> QED BY <1>1, <1>2

LEMMA OnAssignOK ==
  ASSUME OutOK, WorkOK, NEW j \in Jobs, OnAssign(j), UNCHANGED finished
  PROVE  OutOK' /\ WorkOK'
<1> USE DEF OnAssign
<1>1. OutOK'
  <2>1. out' = out \/ out' = Queued(Status(j, TRUE)) \/ out' = Queued(Status(j, FALSE))
    OBVIOUS
  <2>2. CASE out' = out
    BY <2>2 DEF OutOK
  <2>3. CASE out' # out
    BY <2>1, <2>3, StatusIsWord, QueuedOK
  <2> QED BY <2>2, <2>3
<1>2. WorkOK'
  <2>1. current' = current \/ current' = j
    OBVIOUS
  <2>2. j \in 0 .. MaxJobs
    BY RelayAssumption DEF Jobs
  <2> QED BY <2>1, <2>2 DEF WorkOK
<1> QED BY <1>1, <1>2

LEMMA AgentReadsInv == ASSUME RInv, AgentReads PROVE RInv'
<1> USE Groups, Frames DEF RInv, requests
<1>1. FlagsOK'
  BY Zenon DEF FlagsOK, AgentReads
<1>2. Keeps
  BY SameRows DEF AgentReads
<1>3. Head(down) \in Orders /\ DownOK'
  BY DownTail DEF AgentReads
<1>4. OutOK' /\ WorkOK'
  <2>1. Head(down).job \in Jobs
    BY <1>3, OrderIsForJob
  <2>2. CASE Head(down).type = "assign"
    BY <2>1, <2>2, OnAssignOK DEF AgentReads
  <2>3. CASE Head(down).type # "assign" /\ Head(down).job = current
    BY <2>1, <2>3, FinishOK DEF AgentReads
  <2>4. CASE Head(down).type # "assign" /\ Head(down).job # current
    BY <2>4 DEF AgentReads, agent
  <2> QED BY <2>2, <2>3, <2>4
<1>5. RelayTypeOK'
  BY Zenon, <1>1, <1>2, <1>3, <1>4, GroupsNext DEF Keeps, AgentReads
<1> QED BY <1>2, <1>5, KeepsInv DEF AgentReads

LEMMA JobReportsInv == ASSUME RInv, JobReports PROVE RInv'
<1> USE Groups, Frames DEF RInv, JobReports, requests, wire
<1>1. FlagsOK'
  BY Zenon DEF FlagsOK
<1>2. Keeps
  BY SameRows
<1>3. OutOK'
  <2>1. current \in Jobs
    BY RelayAssumption DEF WorkOK, Jobs
  <2>2. Status(current, FALSE) \in Word
    BY <2>1, StatusIsWord
  <2> QED BY <2>2, QueuedOK
<1>4. RelayTypeOK'
  BY Zenon, <1>1, <1>2, <1>3, GroupsNext DEF Keeps
<1> QED BY <1>2, <1>4, KeepsInv

LEMMA JobEndsInv == ASSUME RInv, JobEnds PROVE RInv'
<1> USE Groups, Frames DEF RInv, JobEnds, requests, wire
<1>1. FlagsOK'
  BY Zenon DEF FlagsOK
<1>2. Keeps
  BY SameRows
<1>3. OutOK' /\ WorkOK'
  BY FinishOK, RelayAssumption DEF WorkOK, Jobs
<1>4. RelayTypeOK'
  BY Zenon, <1>1, <1>2, <1>3, GroupsNext DEF Keeps
<1> QED BY <1>2, <1>4, KeepsInv

-----------------------------------------------------------------------------
(* Trouble.                                                                *)

LEMMA TroubledOK == ASSUME RelayTypeOK, Troubled PROVE TroubleOK'
  BY RelayAssumption DEF RelayTypeOK, Troubled, TroubleOK

LEMMA LinkBreaksInv == ASSUME RInv, LinkBreaks PROVE RInv'
<1> USE Groups, Frames DEF RInv, LinkBreaks, requests
<1>1. FlagsOK'
  BY Zenon DEF FlagsOK
<1>2. Keeps
  BY SameRows
<1>3. HubOK' /\ DownOK' /\ TroubleOK'
  BY DownEmpty, TroubledOK DEF HubOK
<1>4. UpOK' /\ OutOK'
  BY UpEmpty, OutTail
<1>5. RelayTypeOK'
  BY Zenon, <1>1, <1>2, <1>3, <1>4, GroupsNext DEF Keeps
<1> QED BY <1>2, <1>5, KeepsInv

LEMMA AgentRestartsInv == ASSUME RInv, AgentRestarts PROVE RInv'
<1> USE Groups, Frames DEF RInv, AgentRestarts, requests
<1>1. FlagsOK'
  BY Zenon DEF FlagsOK
<1>2. Keeps
  BY SameRows
<1>3. HubOK' /\ DownOK' /\ OutOK' /\ TroubleOK'
  BY DownEmpty, OutEmpty, TroubledOK DEF HubOK
<1>4. UpOK'
  BY UpEmpty
<1>5. WorkOK'
  BY RelayAssumption DEF WorkOK
<1>6. RelayTypeOK'
  BY Zenon, <1>1, <1>2, <1>3, <1>4, <1>5, GroupsNext DEF Keeps
<1> QED BY <1>2, <1>6, KeepsInv

\* The row is all that survives, and it is what says the job is over.
LEMMA RelayRestartsInv == ASSUME RInv, RelayRestarts PROVE RInv'
<1> USE Groups, Frames DEF RInv, RelayRestarts, agent
<1>1. FlagsOK'
  BY Zenon DEF FlagsOK, HangsUp
<1>2. Keeps
  BY SameRows
<1>3. HubOK' /\ UpOK' /\ DownOK' /\ TroubleOK'
  BY UpEmpty, DownEmpty, TroubledOK DEF HubOK, HangsUp
<1>4. HandoverOK' /\ RequestsOK' /\ ApplyingOK'
  BY RelayAssumption DEF HandoverOK, RequestsOK, ApplyingOK, Word, NoStatus
<1>5. RelayTypeOK'
  BY Zenon, <1>1, <1>2, <1>3, <1>4, GroupsNext DEF Keeps
<1> QED BY <1>2, <1>5, KeepsInv

-----------------------------------------------------------------------------
(* The theorems.                                                           *)

LEMMA InitInv == Init => RInv
<1> SUFFICES ASSUME Init PROVE RInv
  OBVIOUS
<1>1. FlagsOK
  BY Zenon DEF Init, FlagsOK
<1>2. RowsOK /\ RequestsOK /\ HubOK
  BY DEF Init, RowsOK, RequestsOK, HubOK
<1>3. HandoverOK /\ WorkOK /\ TroubleOK /\ ApplyingOK
  BY RelayAssumption DEF Init, HandoverOK, WorkOK, TroubleOK, ApplyingOK, Word, NoStatus
<1>4. UpOK /\ DownOK /\ OutOK
  BY RelayAssumption, EmptySeq DEF Init, UpOK, DownOK, OutOK
<1>5. RelayTypeOK
  BY Zenon, <1>1, <1>2, <1>3, <1>4 DEF RelayTypeOK, RowsOK, RequestsOK, HandoverOK,
     ApplyingOK, UpOK, DownOK, OutOK, WorkOK, HubOK, FlagsOK, TroubleOK, Word, NoStatus
<1>6. AgentsWordIsFinal /\ StillOpen
  BY Zenon DEF Init, AgentsWordIsFinal, StillOpen
<1> QED BY <1>5, <1>6 DEF RInv

LEMMA StutterInv == ASSUME RInv, UNCHANGED vars PROVE RInv'
<1> USE Groups, Frames DEF RInv, vars, requests, wire, agent
<1>1. FlagsOK'
  BY Zenon DEF FlagsOK
<1>2. Keeps
  BY SameRows
<1>3. RelayTypeOK'
  BY Zenon, <1>1, <1>2, GroupsNext DEF Keeps
<1> QED BY <1>2, <1>3, KeepsInv

LEMMA NextInv == RInv /\ [Next]_vars => RInv'
<1> SUFFICES ASSUME RInv, [Next]_vars PROVE RInv'
  OBVIOUS
<1>1. CASE JoinChecks \/ JoinCreates \/ FireTakesOver \/ FireCreates
  BY Zenon, <1>1, JoinChecksInv, JoinCreatesInv, FireTakesOverInv, FireCreatesInv
<1>2. ASSUME NEW j \in Jobs, Dispatch(j) \/ CancelSends(j) \/ CancelFinishes(j) \/ Expire(j)
      PROVE  RInv'
  BY Zenon, <1>2, DispatchInv, CancelSendsInv, CancelFinishesInv, ExpireInv
<1>3. CASE RelayGreets \/ HandsOver \/ RelayRefuses \/ RelaySkips \/ RelayCorrects
  BY Zenon, <1>3, RelayGreetsInv, HandsOverInv, RelayRefusesInv, RelaySkipsInv, RelayCorrectsInv
<1>4. CASE RelayAccepts \/ RelayApplies \/ RelayNotices
  BY Zenon, <1>4, RelayAcceptsInv, RelayAppliesInv, RelayNoticesInv
<1>5. CASE AgentConnects \/ AgentWrites \/ AgentReads \/ JobReports \/ JobEnds
  BY Zenon, <1>5, AgentConnectsInv, AgentWritesInv, AgentReadsInv, JobReportsInv, JobEndsInv
<1>6. CASE LinkBreaks \/ AgentRestarts \/ RelayRestarts
  BY Zenon, <1>6, LinkBreaksInv, AgentRestartsInv, RelayRestartsInv
<1>7. CASE UNCHANGED vars
  BY <1>7, StutterInv
<1> QED BY Zenon, <1>1, <1>2, <1>3, <1>4, <1>5, <1>6, <1>7 DEF Next

\* The inductive invariant holds: the relay's check and its UPDATE are two
\* steps, and still no status of a job the agent has ended gets in between.
THEOREM RelayInvariance == Spec => []RInv
<1>1. RInv /\ [Next]_vars => RInv'
  BY NextInv
<1> QED BY <1>1, InitInv, PTL DEF Spec

\* Every queue and every slot holds what it is for and no more than it has
\* room for, for every number of jobs and every length of the queues.
THEOREM RelayTypeCorrect == Spec => []RelayTypeOK
<1>1. RInv => RelayTypeOK
  BY DEF RInv
<1> QED BY <1>1, RelayInvariance, PTL

\* The end of a job that the agent itself reported is final: late statuses,
\* handing the job over again, cancels, planned joins, broken links and
\* restarts of either program never open its row again.
THEOREM AgentsEndIsFinal == Spec => []AgentsWordIsFinal
<1>1. RInv => AgentsWordIsFinal
  BY DEF RInv
<1> QED BY <1>1, RelayInvariance, PTL

=============================================================================
