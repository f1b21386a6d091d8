------------------------- MODULE MachineRefinement -------------------------
(***************************************************************************)
(* Every step of the job is a step of its promise, or none: the safety     *)
(* half of KeepsPromise, for every choice of the bounds and delays.        *)
(***************************************************************************)
EXTENDS MachineProofs

-----------------------------------------------------------------------------
(* The refinement mapping.                                                 *)

\* A transition carries a reason only when it ends the job.  A win is told
\* from the other ends by having none.
OpenHasNoReason == state \notin Ended => reason = "none"

RInv == IInv /\ OpenHasNoReason

\* The stage of a job in each of its states.
LEMMA StageIs ==
  ASSUME state \in States
  PROVE  /\ state \in {"idle", "waiting_for_server_up"} => Stage = "pending"
         /\ state \in {"launching", "connecting", "queued"} => Stage = "playing"
         /\ state = "in_server" => Stage = "holding"
         /\ state = "retrying" => Stage = "backing_off"
         /\ state \in Ended => Stage = "ended"
BY DEF Stage, States, Ended

-----------------------------------------------------------------------------
(* What a step of the job looks like, and which step of the promise it is. *)

\* Nothing the promise speaks of has changed.
LEMMA Settles ==
  ASSUME state \in States, state \notin Ended, action' = "none", attempt' = attempt,
         \/ state' = state
         \/ /\ state \in {"launching", "connecting", "queued"}
            /\ state' \in {"launching", "connecting", "queued"},
         state = "in_server" => held' = held
  PROVE  Promise!Next
<1>1. Stage' = Stage
  BY DEF Stage, Ended
<1>2. Outcome' = Outcome
  BY DEF Outcome, Ended
<1>3. (IF state' = "in_server" THEN held' ELSE 0) = (IF state = "in_server" THEN held ELSE 0)
  OBVIOUS
<1> QED BY <1>1, <1>2, <1>3 DEF Promise!Next, Promise!Settle

\* A launch.
LEMMA Launches ==
  ASSUME state \in {"idle", "waiting_for_server_up", "retrying"}, attempt < MaxAttempts,
         BeginLaunch
  PROVE  Promise!Next
<1>1. Stage \in {"pending", "backing_off"} /\ Stage' = "playing"
  BY DEF Stage, Ended, BeginLaunch
<1>2. Outcome' = Outcome
  BY DEF Outcome, Ended, BeginLaunch
<1>3. (IF state' = "in_server" THEN held' ELSE 0) = (IF state = "in_server" THEN held ELSE 0)
  BY DEF BeginLaunch
<1> QED BY <1>1, <1>2, <1>3 DEF Promise!Next, Promise!Launch, BeginLaunch

\* An end that closes the game.
LEMMA EndsClosing ==
  ASSUME state \in Playing, state' \in Ended, reason' # "none", action' = "close_game",
         attempt' = attempt
  PROVE  Promise!Next
<1>1. Stage \in {"playing", "holding"} /\ Stage' = "ended"
  BY DEF Stage, Playing, Ended
<1>2. Outcome' = "lost"
  BY DEF Outcome, Ended
<1>3. (IF state' = "in_server" THEN held' ELSE 0) = 0
  BY DEF Ended
<1> QED BY <1>1, <1>2, <1>3 DEF Promise!Next, Promise!EndClosing, Promise!End

\* An end that leaves the game alone.
LEMMA EndsLeaving ==
  ASSUME state \in States, state \notin Ended, state' \in Ended, reason' # "none",
         action' = "none", attempt' = attempt
  PROVE  Promise!Next
<1>1. Stage # "ended" /\ Stage' = "ended"
  BY DEF Stage, States, Ended
<1>2. Outcome' = "lost"
  BY DEF Outcome, Ended
<1>3. (IF state' = "in_server" THEN held' ELSE 0) = 0
  BY DEF Ended
<1> QED BY <1>1, <1>2, <1>3 DEF Promise!Next, Promise!EndLeaving, Promise!End

\* A lost attempt: another try, or the end.
LEMMA Retries ==
  ASSUME RInv, state \in Playing, RetryOrFail
  PROVE  Promise!Next
<1>1. CASE Fail("gave_up")
  <2>1. state' = "failed" /\ reason' = "gave_up" /\ action' = "close_game" /\ attempt' = attempt
    BY <1>1 DEF Fail
  <2> QED BY <2>1, EndsClosing DEF Ended
<1>2. CASE ~Fail("gave_up")
  <2>1. /\ attempt < MaxAttempts /\ state' = "retrying" /\ action' = "close_game"
        /\ attempt' = attempt
    BY <1>2 DEF RetryOrFail
  <2>2. Stage \in {"playing", "holding"} /\ Stage' = "backing_off"
    BY <2>1 DEF Stage, Playing, Ended
  <2>3. Outcome' = Outcome
    BY <2>1 DEF Outcome, Ended, Playing
  <2>4. (IF state' = "in_server" THEN held' ELSE 0) = 0
    BY <2>1
  <2> QED BY <2>1, <2>2, <2>3, <2>4 DEF Promise!Next, Promise!Retry, Promise!Move
<1> QED BY <1>1, <1>2

\* A slot in the server.
LEMMA Enters ==
  ASSUME state \in {"launching", "connecting", "queued"}, MoveTo("in_server"), held' = 0
  PROVE  Promise!Next
<1>1. state' = "in_server" /\ action' = "none" /\ attempt' = attempt
  BY DEF MoveTo
<1>2. Stage = "playing" /\ Stage' = "holding"
  BY <1>1 DEF Stage, Ended
<1>3. Outcome' = Outcome
  BY <1>1 DEF Outcome, Ended
<1>4. (IF state' = "in_server" THEN held' ELSE 0) = 0
  BY <1>1
<1> QED BY <1>1, <1>2, <1>3, <1>4 DEF Promise!Next, Promise!Enter, Promise!Move

\* The slot has been held.
LEMMA Wins ==
  ASSUME RInv, state = "in_server", held = InServerConfirm, MoveTo("done")
  PROVE  Promise!Next
<1>1. state' = "done" /\ action' = "none" /\ attempt' = attempt /\ reason' = "none"
  BY DEF MoveTo, RInv, OpenHasNoReason, Ended
<1>2. Stage = "holding" /\ Stage' = "ended"
  BY <1>1 DEF Stage, Ended
<1>3. Outcome' = "won"
  BY <1>1 DEF Outcome, Ended
<1>4. /\ (IF state' = "in_server" THEN held' ELSE 0) = 0
      /\ (IF state = "in_server" THEN held ELSE 0) = InServerConfirm
  BY <1>1
<1> QED BY <1>1, <1>2, <1>3, <1>4 DEF Promise!Next, Promise!Win, Promise!End

\* The slot is held a little longer.
LEMMA Holds ==
  ASSUME state = "in_server", state' = state, held < InServerConfirm, held' = held + 1,
         action' = "none", attempt' = attempt
  PROVE  Promise!Next
<1>1. Stage = "holding" /\ Stage' = Stage
  BY DEF Stage, Ended
<1>2. Outcome' = Outcome
  BY DEF Outcome, Ended
<1>3. /\ (IF state' = "in_server" THEN held' ELSE 0) = held + 1
      /\ (IF state = "in_server" THEN held ELSE 0) = held
  OBVIOUS
<1> QED BY <1>1, <1>2, <1>3 DEF Promise!Next, Promise!Hold

\* The server is watched again.
LEMMA WatchesAgain ==
  ASSUME state = "retrying", MoveTo("waiting_for_server_up")
  PROVE  Promise!Next
<1>1. state' = "waiting_for_server_up" /\ action' = "none" /\ attempt' = attempt
  BY DEF MoveTo
<1>2. Stage = "backing_off" /\ Stage' = "pending"
  BY <1>1 DEF Stage, Ended
<1>3. Outcome' = Outcome
  BY <1>1 DEF Outcome, Ended
<1>4. (IF state' = "in_server" THEN held' ELSE 0) = 0
  BY <1>1
<1> QED BY <1>1, <1>2, <1>3, <1>4 DEF Promise!Next, Promise!WatchAgain, Promise!Move

-----------------------------------------------------------------------------
(* One lemma per input.                                                    *)

\* Doing nothing.
LEMMA Ignores ==
  ASSUME state \in States, state \notin Ended, Ignore, held' = held
  PROVE  Promise!Next
<1>1. state' = state /\ action' = "none" /\ attempt' = attempt
  BY DEF Ignore, Quiet, standing
<1> QED BY <1>1, Settles

\* The player presses join.
LEMMA StartRefines == ASSUME RInv, Start PROVE Promise!Next
<1>1. /\ state \in States /\ state \notin Ended /\ held' = held
      /\ state = "idle" => attempt < MaxAttempts
  BY DEF RInv, IInv, TypeOK, Budget, Start
<1>2. CASE Ignore
  BY <1>1, <1>2, Ignores
<1>3. CASE state = "idle" /\ BeginLaunch
  BY <1>1, <1>3, Launches
<1>4. CASE state = "idle" /\ MoveTo("waiting_for_server_up")
  <2>1. /\ state' = "waiting_for_server_up" /\ action' = "none" /\ attempt' = attempt
    BY <1>4 DEF MoveTo
  <2>2. Stage = "pending" /\ Stage' = Stage
    BY <1>4, <2>1 DEF Stage, Ended
  <2>3. Outcome' = Outcome
    BY <1>4, <2>1 DEF Outcome, Ended
  <2>4. (IF state' = "in_server" THEN held' ELSE 0) = (IF state = "in_server" THEN held ELSE 0)
    BY <1>4, <2>1
  <2> QED BY <2>1, <2>2, <2>3, <2>4 DEF Promise!Next, Promise!Settle
<1> QED BY <1>1, <1>2, <1>3, <1>4 DEF Start

\* The player presses cancel.
LEMMA CancelRefines == ASSUME RInv, Cancel PROVE Promise!Next
<1>1. /\ state \in States /\ state \notin Ended /\ state' \in Ended
      /\ reason' # "none" /\ attempt' = attempt
  BY DEF RInv, IInv, TypeOK, Cancel, Ended
<1>2. CASE state \in Playing
  BY <1>1, <1>2, EndsClosing DEF Cancel
<1>3. CASE state \notin Playing
  BY <1>1, <1>3, EndsLeaving DEF Cancel
<1> QED BY <1>2, <1>3

\* The launcher answers.
LEMMA LaunchAnswerRefines == ASSUME RInv, LaunchOK \/ LaunchFailed PROVE Promise!Next
<1>1. state \in States /\ state \notin Ended /\ held' = held
  BY DEF RInv, IInv, TypeOK, LaunchOK, LaunchFailed, OnlyFate
<1>2. CASE Ignore
  BY <1>1, <1>2, Ignores
<1>3. CASE state = "launching" /\ RetryOrFail
  BY <1>3, Retries DEF Playing
<1>4. CASE state = "launching" /\ MoveTo("connecting")
  <2>1. state' = "connecting" /\ action' = "none" /\ attempt' = attempt
    BY <1>4 DEF MoveTo
  <2> QED BY <1>1, <1>4, <2>1, Settles
<1> QED BY <1>2, <1>3, <1>4 DEF LaunchOK, LaunchFailed

\* The server goes down.
LEMMA ServerDownRefines == ASSUME RInv, ServerDown PROVE Promise!Next
BY Ignores DEF RInv, IInv, TypeOK, ServerDown

\* The server answers.
LEMMA ServerUpRefines ==
  ASSUME RInv, NEW age \in Ages, NEW queue \in BOOLEAN, ServerUp(age, queue)
  PROVE  Promise!Next
<1>1. state \in States /\ state \notin Ended /\ held' = held
  BY DEF RInv, IInv, TypeOK, ServerUp
<1>2. CASE Ignore
  BY <1>1, <1>2, Ignores
<1>3. CASE state = "connecting" /\ MoveTo("queued")
  <2>1. state' = "queued" /\ action' = "none" /\ attempt' = attempt
    BY <1>3 DEF MoveTo
  <2> QED BY <1>1, <1>3, <2>1, Settles
<1>4. CASE Quiet
  <2>1. state' = state /\ action' = "none" /\ attempt' = attempt
    BY <1>4 DEF Quiet, standing
  <2> QED BY <1>1, <2>1, Settles
<1> QED BY <1>2, <1>3, <1>4 DEF ServerUp, WaitingServerUp

\* The game is gone.
LEMMA GameExitedRefines ==
  ASSUME RInv, NEW silent \in BOOLEAN, GameExited(silent)
  PROVE  Promise!Next
<1>1. state \in States /\ state \notin Ended /\ held' = held
  BY DEF RInv, IInv, TypeOK, GameExited, OnlyFate
<1>2. CASE Ignore
  BY <1>1, <1>2, Ignores
<1>3. CASE state \in Playing /\ RetryOrFail
  BY <1>3, Retries
<1>4. CASE EndQuietly("done", "player_closed") \/ EndQuietly("failed", "lost_track")
  <2>1. state' \in Ended /\ reason' # "none" /\ action' = "none" /\ attempt' = attempt
    BY <1>4 DEF EndQuietly, Ended
  <2> QED BY <1>1, <2>1, EndsLeaving
<1> QED BY <1>2, <1>3, <1>4 DEF GameExited, Playing

\* A line read on the way in.
LEMMA JoiningRefines ==
  ASSUME RInv, NEW kind \in LogKinds, JoiningLog(kind),
         state \in {"launching", "connecting", "queued"},
         held' = IF kind = "joined" THEN 0 ELSE held
  PROVE  Promise!Next
<1>1. state \in States /\ state \notin Ended /\ state \in Playing
  BY DEF States, Ended, Playing
<1>2. CASE RetryOrFail
  BY <1>1, <1>2, Retries
<1>3. CASE Fail("rejected") \/ Fail("steam_problem")
  <2>1. state' \in Ended /\ reason' # "none" /\ action' = "close_game" /\ attempt' = attempt
    BY <1>3 DEF Fail, Ended
  <2> QED BY <1>1, <2>1, EndsClosing
<1>4. CASE kind = "joined" /\ MoveTo("in_server")
  BY <1>4, Enters
<1>5. CASE MoveTo("connecting") \/ MoveTo("queued")
  <2>1. state' \in {"connecting", "queued"} /\ action' = "none" /\ attempt' = attempt
    BY <1>5 DEF MoveTo
  <2> QED BY <1>1, <2>1, Settles
<1>6. CASE Loading
  <2>1. /\ state' \in {"launching", "connecting", "queued"}
        /\ action' = "none" /\ attempt' = attempt
    BY <1>6 DEF Loading
  <2> QED BY <1>1, <2>1, Settles
<1>7. CASE Ignore
  <2>1. state' = state /\ action' = "none" /\ attempt' = attempt
    BY <1>7 DEF Ignore, Quiet, standing
  <2> QED BY <1>1, <2>1, Settles
<1> QED BY <1>2, <1>3, <1>4, <1>5, <1>6, <1>7 DEF JoiningLog

\* A line of the game's log.
LEMMA LogEventRefines ==
  ASSUME RInv, NEW kind \in LogKinds, LogEvent(kind)
  PROVE  Promise!Next
<1> DEFINE joining == state \in {"launching", "connecting", "queued"}
<1>1. /\ state \in States /\ state \notin Ended
      /\ held' = IF joining /\ kind = "joined" THEN 0 ELSE held
  BY DEF RInv, IInv, TypeOK, LogEvent
<1>2. CASE EndQuietly("done", "player_left")
  <2>1. state' \in Ended /\ reason' # "none" /\ action' = "none" /\ attempt' = attempt
    BY <1>2 DEF EndQuietly, Ended
  <2> QED BY <1>1, <2>1, EndsLeaving
<1>3. CASE UserQuit /\ kind = "user_quit"
  <2>1. state' = state /\ action' = "none" /\ attempt' = attempt /\ held' = held
    BY <1>1, <1>3 DEF UserQuit
  <2> QED BY <1>1, <2>1, Settles
<1>4. CASE RetryOrFail /\ state = "in_server"
  BY <1>4, Retries DEF Playing
<1>5. CASE JoiningLog(kind) /\ joining
  BY <1>1, <1>5, JoiningRefines
<1>6. CASE Ignore /\ ~joining
  BY <1>1, <1>6, Ignores
<1> QED BY <1>2, <1>3, <1>4, <1>5, <1>6 DEF LogEvent

\* Any tick.
LEMMA TickRefines == ASSUME RInv, Tick PROVE Promise!Next
<1>1. /\ state \in States /\ state \notin Ended /\ held' = held
      /\ state \in {"waiting_for_server_up", "retrying"} => attempt < MaxAttempts
  BY DEF RInv, IInv, TypeOK, Budget, Tick
<1>2. CASE Quiet
  <2>1. state' = state /\ action' = "none" /\ attempt' = attempt
    BY <1>2 DEF Quiet, standing
  <2> QED BY <1>1, <2>1, Settles
<1>3. CASE state \in {"waiting_for_server_up", "retrying"} /\ BeginLaunch
  BY <1>1, <1>3, Launches
<1>4. CASE state = "retrying" /\ MoveTo("waiting_for_server_up")
  BY <1>4, WatchesAgain
<1>5. CASE state = "in_server" /\ held = InServerConfirm /\ MoveTo("done")
  BY <1>5, Wins
<1>6. CASE TickWaiting
  <2>1. state = "waiting_for_server_up" /\ (BeginLaunch \/ Quiet)
    BY <1>6 DEF TickWaiting
  <2> QED BY <1>2, <1>3, <2>1
<1>7. CASE TickRetrying
  BY <1>2, <1>3, <1>4, <1>7 DEF TickRetrying, Ignore
<1>8. CASE TickInServer
  BY <1>2, <1>5, <1>8 DEF TickInServer, Ignore
<1>9. CASE Ignore
  BY <1>2, <1>9 DEF Ignore
<1> QED BY <1>6, <1>7, <1>8, <1>9 DEF Tick

\* Time passes.
LEMMA ElapseRefines == ASSUME RInv, Elapse PROVE Promise!Next
<1>1. /\ state \in States /\ state \notin Ended
      /\ held \in 0 .. InServerConfirm
      /\ state' = state /\ action' = "none" /\ attempt' = attempt
      /\ held' = IF state = "in_server" /\ held < InServerConfirm THEN held + 1 ELSE held
  BY DEF RInv, IInv, TypeOK, Elapse
<1>2. CASE state = "in_server" /\ held < InServerConfirm
  BY <1>1, <1>2, Holds
<1>3. CASE ~(state = "in_server" /\ held < InServerConfirm)
  BY <1>1, <1>3, Settles
<1> QED BY <1>2, <1>3

-----------------------------------------------------------------------------
(* The theorem.                                                            *)

\* Only an end gives a reason.
LEMMA ReasonStep == ASSUME RInv, [Next]_vars PROVE OpenHasNoReason'
<1>1. CASE Start \/ Tick
  <2>1. Ignore \/ BeginLaunch \/ Quiet \/ (\E s \in States : MoveTo(s))
    <3>1. CASE Start
      BY <3>1 DEF Start, States
    <3>2. CASE TickWaiting
      BY <3>2 DEF TickWaiting
    <3>3. CASE TickRetrying
      BY <3>3 DEF TickRetrying, States
    <3>4. CASE TickInServer
      BY <3>4 DEF TickInServer, States
    <3> QED BY <1>1, <3>1, <3>2, <3>3, <3>4 DEF Tick
  <2>2. state \notin Ended /\ reason' = reason
    BY <1>1, <2>1 DEF Start, Tick, Ignore, BeginLaunch, Quiet, MoveTo, standing
  <2> QED BY <2>2 DEF RInv, OpenHasNoReason
<1>2. CASE Cancel
  BY <1>2 DEF Cancel, OpenHasNoReason, Ended
<1>3. CASE Elapse \/ ServerDown
  BY <1>3 DEF Elapse, ServerDown, Ignore, Quiet, standing, RInv, OpenHasNoReason
<1>4. CASE LaunchOK \/ LaunchFailed
  BY <1>4
  DEF LaunchOK, LaunchFailed, MoveTo, Ignore, Quiet, standing, RetryOrFail, Fail,
      RInv, OpenHasNoReason, Ended
<1>5. CASE \E age \in Ages, queue \in BOOLEAN : ServerUp(age, queue)
  <2>1. state \notin Ended /\ reason' = reason
    BY <1>5 DEF ServerUp, WaitingServerUp, MoveTo, Ignore, Quiet, standing
  <2> QED BY <2>1 DEF RInv, OpenHasNoReason
<1>6. CASE \E silent \in BOOLEAN : GameExited(silent)
  BY <1>6
  DEF GameExited, EndQuietly, Ignore, Quiet, standing, RetryOrFail, Fail,
      RInv, OpenHasNoReason, Ended
<1>7. CASE \E kind \in LogKinds : LogEvent(kind)
  <2>1. PICK kind \in LogKinds : LogEvent(kind)
    BY <1>7
  <2>2. state \notin Ended
    BY <2>1 DEF LogEvent
  <2>3. \/ EndQuietly("done", "player_left") \/ UserQuit \/ RetryOrFail
        \/ JoiningLog(kind) \/ Ignore
    BY <2>1 DEF LogEvent
  <2>4. CASE EndQuietly("done", "player_left") \/ UserQuit \/ RetryOrFail \/ Ignore
    BY <2>2, <2>4
    DEF EndQuietly, UserQuit, Ignore, Quiet, standing, RetryOrFail, Fail,
        RInv, OpenHasNoReason, Ended
  <2>5. CASE JoiningLog(kind)
    <3>1. \/ \E s \in States : MoveTo(s)
          \/ Loading \/ RetryOrFail \/ Fail("rejected") \/ Fail("steam_problem") \/ Ignore
      BY <2>5 DEF JoiningLog, States
    <3> QED
      BY <2>2, <3>1
      DEF MoveTo, Loading, Ignore, Quiet, standing, RetryOrFail, Fail,
          RInv, OpenHasNoReason, Ended
  <2> QED BY <2>3, <2>4, <2>5
<1>8. CASE Finished \/ UNCHANGED vars
  BY <1>8 DEF Finished, vars, fate, standing, RInv, OpenHasNoReason
<1> QED BY <1>1, <1>2, <1>3, <1>4, <1>5, <1>6, <1>7, <1>8 DEF Next

\* A job that has not been started promises nothing yet.
LEMMA InitRefines == Init => Promise!Init
<1> SUFFICES ASSUME Init PROVE Promise!Init
  OBVIOUS
<1>1. state = "idle" /\ attempt = 0 /\ action = "none"
  BY DEF Init
<1>2. Stage = "pending" /\ Outcome = "open"
  BY <1>1 DEF Stage, Outcome, Ended
<1> QED BY <1>1, <1>2 DEF Promise!Init

\* A finished job, and a step of somebody else.
LEMMA StutterRefines ==
  ASSUME UNCHANGED vars
  PROVE  UNCHANGED Promise!vars
<1>1. UNCHANGED <<state, attempt, action, held, reason>>
  BY DEF vars, fate, standing
<1>2. Stage' = Stage /\ Outcome' = Outcome
  BY <1>1 DEF Stage, Outcome, Ended
<1> QED BY <1>1, <1>2 DEF Promise!vars

\* For every choice of bounds and delays a job keeps the safety half of its
\* promise: one game at a time, a bounded number of launches, one end, and a
\* win only for a slot that was held without a break (Handle, state.go).
THEOREM KeepsSafePromise == Spec => Promise!Init /\ [][Promise!Next]_(Promise!vars)
<1>1. Init => RInv /\ Promise!Init
  BY InitIInv, InitRefines DEF RInv, OpenHasNoReason, Init
<1>2. RInv /\ IInv' /\ [Next]_vars => RInv' /\ [Promise!Next]_(Promise!vars)
  <2> SUFFICES ASSUME RInv, IInv', [Next]_vars PROVE RInv' /\ [Promise!Next]_(Promise!vars)
    OBVIOUS
  <2>1. RInv'
    BY ReasonStep DEF RInv
  <2>2. CASE Start \/ Cancel \/ Tick \/ Elapse \/ ServerDown
    BY <2>1, <2>2, StartRefines, CancelRefines, TickRefines, ElapseRefines, ServerDownRefines
  <2>3. CASE LaunchOK \/ LaunchFailed
    BY <2>1, <2>3, LaunchAnswerRefines
  <2>4. CASE \E age \in Ages, queue \in BOOLEAN : ServerUp(age, queue)
    BY <2>1, <2>4, ServerUpRefines
  <2>5. CASE \E silent \in BOOLEAN : GameExited(silent)
    BY <2>1, <2>5, GameExitedRefines
  <2>6. CASE \E kind \in LogKinds : LogEvent(kind)
    BY <2>1, <2>6, LogEventRefines
  <2>7. CASE Finished \/ UNCHANGED vars
    BY <2>1, <2>7, StutterRefines DEF Finished
  <2> QED BY <2>2, <2>3, <2>4, <2>5, <2>6, <2>7 DEF Next
<1> QED BY <1>1, <1>2, Invariance, PTL DEF Spec
=============================================================================
