---------------------------- MODULE RunnerProofs ----------------------------
(***************************************************************************)
(* The job at work, for every number of launches and unread lines: the     *)
(* runner drives the machine only by its inputs, keeps a game that was     *)
(* won, closes the game of a cancelled job, and respects a player who      *)
(* closes the game.                                                        *)
(***************************************************************************)
EXTENDS Runner, MachineRefinement

-----------------------------------------------------------------------------
(* The inductive invariant.                                                *)

\* The order to close belongs to an attempt that is over.
Fresh == state \in Playing => ~closeRequested

\* A slot that has been held for longer than a close can take, or for long
\* enough.
Holding == Outcome = "won" \/ (state = "in_server" /\ held > CloseTime)

Kept == Holding /\ ~crossed => LeftAlone

\* What is left of a cancelled job: a close that is to come, a close that was
\* over too early, or nothing.
Closed == closeAsked \/ killing \/ missed \/ (rust = "off" /\ NothingComing)

Obeyed == reason = "cancelled" => state \in Ended /\ Closed

\* The loop has the goodbye in front of it or has read it, and no game can
\* say anything else.
Goodbye ==
  /\ InAGame /\ rust = "off" /\ NothingComing
  /\ tail = <<"user_quit">> \/ (tail = <<>> /\ sawUserQuit)

Remembered == playerQuit => state \in Ended \/ Goodbye

RunInv == IInv /\ RunnerTypeOK /\ Fresh /\ Kept /\ Obeyed /\ Remembered

-----------------------------------------------------------------------------
(* What an input may do to the machine.                                    *)

Begins == state \in {"idle", "waiting_for_server_up", "retrying"} /\ BeginLaunch

\* Only the cancel gives the reason of a cancel.
Verdicts == Reasons \ {"none", "cancelled"}

Loses == RetryOrFail \/ \E r \in Verdicts : Fail(r)

EndsAlone == \E s \in Ended, r \in Verdicts : EndQuietly(s, r)

Stays == state' = state /\ held' = held

WalksOn ==
  /\ state' \in {"waiting_for_server_up", "connecting", "queued"}
  /\ state' \in Playing => state \in Playing

ComesIn == state \in Playing /\ state' = "in_server" /\ held' = 0

WinsHere == state = "in_server" /\ held = InServerConfirm /\ state' = "done"

Moves ==
  /\ action' = "none" /\ UNCHANGED <<attempt, reason, closeRequested>>
  /\ Stays \/ WalksOn \/ ComesIn \/ WinsHere

Shape == state \notin Ended /\ (Begins \/ Loses \/ EndsAlone \/ Moves)

\* What the loop does with a line that the parser does not know is what the
\* machine does with an input that means nothing to it.
Shrug == state \notin Ended /\ Ignore /\ OnlyFate

LEMMA ShrugIsAStep ==
  ASSUME Shrug
  PROVE  LaunchOK \/ GameExited(TRUE)
BY DEF Shrug, LaunchOK, GameExited

LEMMA IgnoreMoves == ASSUME Ignore, held' = held PROVE Moves
BY DEF Ignore, Quiet, standing, Moves, Stays

LEMMA StartShape == ASSUME Start PROVE Shape
<1>1. state \notin Ended /\ held' = held
  BY DEF Start
<1>2. CASE state = "idle" /\ waitForServerUp
  BY <1>1, <1>2 DEF Start, MoveTo, Shape, Moves, WalksOn, Playing
<1>3. CASE state = "idle" /\ ~waitForServerUp
  BY <1>1, <1>3 DEF Start, Shape, Begins
<1>4. CASE state # "idle"
  BY <1>1, <1>4, IgnoreMoves DEF Start, Shape
<1> QED BY <1>2, <1>3, <1>4

LEMMA TickShape == ASSUME Tick PROVE Shape
<1>1. state \notin Ended /\ held' = held
  BY DEF Tick
<1>2. CASE TickWaiting
  <2>1. Begins \/ (action' = "none" /\ UNCHANGED standing)
    BY <1>2 DEF TickWaiting, Begins, Quiet
  <2> QED BY <1>1, <2>1 DEF Shape, Moves, Stays, standing
<1>3. CASE TickRetrying
  <2>1. Begins \/ Ignore \/ MoveTo("waiting_for_server_up")
    BY <1>3 DEF TickRetrying, Begins
  <2>2. CASE MoveTo("waiting_for_server_up")
    BY <1>1, <2>2 DEF MoveTo, Shape, Moves, WalksOn, Playing
  <2> QED BY <1>1, <2>1, <2>2, IgnoreMoves DEF Shape
<1>4. CASE TickInServer
  <2>1. Ignore \/ (held = InServerConfirm /\ MoveTo("done"))
    BY <1>4 DEF TickInServer
  <2>2. CASE held = InServerConfirm /\ MoveTo("done")
    BY <1>1, <1>4, <2>2 DEF TickInServer, MoveTo, Shape, Moves, WinsHere
  <2> QED BY <1>1, <2>1, <2>2, IgnoreMoves DEF Shape
<1>5. CASE Ignore
  BY <1>1, <1>5, IgnoreMoves DEF Shape
<1> QED BY <1>2, <1>3, <1>4, <1>5 DEF Tick

LEMMA ServerShape ==
  ASSUME ServerDown \/ \E age \in Ages, queue \in BOOLEAN : ServerUp(age, queue)
  PROVE  Shape
<1>1. state \notin Ended /\ held' = held
  BY DEF ServerDown, ServerUp
<1>2. Ignore \/ (action' = "none" /\ UNCHANGED standing)
      \/ (state = "connecting" /\ MoveTo("queued"))
  BY DEF ServerDown, ServerUp, WaitingServerUp, Quiet
<1>3. CASE state = "connecting" /\ MoveTo("queued")
  BY <1>1, <1>3 DEF MoveTo, Shape, Moves, WalksOn, Playing
<1>4. CASE action' = "none" /\ UNCHANGED standing
  BY <1>1, <1>4 DEF Shape, Moves, Stays, standing
<1> QED BY <1>1, <1>2, <1>3, <1>4, IgnoreMoves DEF Shape

LEMMA AnswerShape ==
  ASSUME LaunchOK \/ LaunchFailed \/ \E silent \in BOOLEAN : GameExited(silent)
  PROVE  Shape
<1>1. state \notin Ended /\ held' = held
  BY DEF LaunchOK, LaunchFailed, GameExited, OnlyFate
<1>2. \/ Ignore \/ RetryOrFail
      \/ state = "launching" /\ MoveTo("connecting")
      \/ EndQuietly("done", "player_closed") \/ EndQuietly("failed", "lost_track")
  BY DEF LaunchOK, LaunchFailed, GameExited
<1>3. CASE state = "launching" /\ MoveTo("connecting")
  BY <1>1, <1>3 DEF MoveTo, Shape, Moves, WalksOn, Playing
<1>4. CASE EndQuietly("done", "player_closed") \/ EndQuietly("failed", "lost_track")
  BY <1>1, <1>4 DEF Shape, EndsAlone, Ended, Reasons, Verdicts
<1> QED BY <1>1, <1>2, <1>3, <1>4, IgnoreMoves DEF Shape, Loses

LEMMA LogShape == ASSUME NEW kind \in LogKinds, LogEvent(kind) PROVE Shape
<1> DEFINE joining == state \in {"launching", "connecting", "queued"}
<1>1. state \notin Ended
  BY DEF LogEvent
<1>2. CASE joining /\ kind = "joined"
  <2>1. MoveTo("in_server") /\ held' = 0
    BY <1>2 DEF LogEvent, JoiningLog
  <2> QED BY <1>1, <1>2, <2>1 DEF MoveTo, Shape, Moves, ComesIn, Playing
<1>3. CASE ~(joining /\ kind = "joined")
  <2>1. held' = held
    BY <1>3 DEF LogEvent
  <2>2. \/ EndQuietly("done", "player_left") \/ UserQuit \/ Ignore
        \/ RetryOrFail \/ (joining /\ JoiningLog(kind))
    BY DEF LogEvent
  <2>3. CASE EndQuietly("done", "player_left")
    BY <1>1, <2>3 DEF Shape, EndsAlone, Ended, Reasons, Verdicts
  <2>4. CASE UserQuit
    BY <1>1, <2>1, <2>4 DEF Shape, UserQuit, Moves, Stays
  <2>5. CASE joining /\ JoiningLog(kind)
    <3>1. \/ Ignore \/ RetryOrFail
          \/ MoveTo("connecting") \/ MoveTo("queued") \/ Loading
          \/ Fail("rejected") \/ Fail("steam_problem")
      BY <1>3, <2>5 DEF JoiningLog
    <3>2. CASE MoveTo("connecting") \/ MoveTo("queued")
      BY <1>1, <2>5, <3>2 DEF MoveTo, Shape, Moves, WalksOn, Playing
    <3>3. CASE Loading
      <4>1. state' = state \/ (state \in Playing /\ state' = "connecting")
        BY <2>5, <3>3 DEF Loading, Playing
      <4> QED BY <1>1, <2>1, <3>3, <4>1 DEF Loading, Shape, Moves, Stays, WalksOn
    <3>4. CASE Fail("rejected") \/ Fail("steam_problem")
      BY <1>1, <3>4 DEF Shape, Loses, Reasons, Verdicts
    <3> QED BY <1>1, <2>1, <3>1, <3>2, <3>3, <3>4, IgnoreMoves DEF Shape, Loses
  <2> QED BY <1>1, <2>1, <2>2, <2>3, <2>4, <2>5, IgnoreMoves DEF Shape, Loses
<1> QED BY <1>2, <1>3

-----------------------------------------------------------------------------
(* What follows from the shape of an input.                                *)

\* A launch clears the order to close, and only an end gives one.
LEMMA FreshStep == ASSUME Fresh, Shape PROVE Fresh'
<1>1. CASE Begins
  BY <1>1 DEF Begins, BeginLaunch, Fresh
<1>2. CASE Loses
  <2>1. state' \in {"failed", "retrying"}
    BY <1>2 DEF Loses, RetryOrFail, Fail
  <2> QED BY <2>1 DEF Fresh, Playing
<1>3. CASE EndsAlone
  <2>1. state' \in Ended
    BY <1>3 DEF EndsAlone, EndQuietly
  <2> QED BY <2>1 DEF Fresh, Playing, Ended
<1>4. CASE Moves
  <2>1. closeRequested' = closeRequested /\ (state' \in Playing => state \in Playing)
    BY <1>4 DEF Moves, Stays, WalksOn, ComesIn, WinsHere, Playing
  <2> QED BY <2>1 DEF Fresh
<1> QED BY <1>1, <1>2, <1>3, <1>4 DEF Shape

\* A slot that is held, or was held for long enough, was held before, and
\* nothing was asked of the runner.
LEMMA HoldingStep ==
  ASSUME TypeOK, Shape, Holding'
  PROVE  Holding /\ action' = "none"
<1>1. /\ (state' = "in_server" /\ held' > CloseTime) \/ Outcome' = "won"
      /\ Outcome' = "won" => state' = "done" /\ reason' = "none"
  BY DEF Holding, Outcome
<1>2. ~Begins
  <2>1. ASSUME Begins PROVE FALSE
    <3>1. state' = "launching"
      BY <2>1 DEF Begins, BeginLaunch
    <3> QED BY <1>1, <3>1
  <2> QED BY <2>1
<1>3. ~Loses
  <2>1. ASSUME Loses PROVE FALSE
    <3>1. state' \in {"failed", "retrying"}
      BY <2>1 DEF Loses, RetryOrFail, Fail
    <3> QED BY <1>1, <3>1
  <2> QED BY <2>1
<1>4. ~EndsAlone
  <2>1. ASSUME EndsAlone PROVE FALSE
    <3>1. state' \in Ended /\ reason' # "none"
      BY <2>1 DEF EndsAlone, EndQuietly, Verdicts
    <3> QED BY <1>1, <3>1 DEF Ended
  <2> QED BY <2>1
<1>5. Moves /\ state \notin Ended
  BY <1>2, <1>3, <1>4 DEF Shape
<1>6. Holding
  <2>1. CASE Stays
    BY <1>1, <1>5, <2>1 DEF Stays, Holding, Ended
  <2>2. CASE WalksOn
    BY <1>1, <2>2 DEF WalksOn
  <2>3. CASE ComesIn
    BY <1>1, <2>3, RunnerAssumption DEF ComesIn
  <2>4. CASE WinsHere
    BY <2>4, RunnerAssumption DEF WinsHere, Holding
  <2> QED BY <1>5, <2>1, <2>2, <2>3, <2>4 DEF Moves
<1> QED BY <1>5, <1>6 DEF Moves

\* An input leaves no job cancelled.
LEMMA VerdictStep == ASSUME Obeyed, Shape PROVE reason' # "cancelled"
<1>1. reason # "cancelled"
  BY DEF Obeyed, Shape
<1>2. CASE Begins
  BY <1>1, <1>2 DEF Begins, BeginLaunch
<1>3. CASE Loses
  BY <1>1, <1>3 DEF Loses, RetryOrFail, Fail, Verdicts
<1>4. CASE EndsAlone
  BY <1>4 DEF EndsAlone, EndQuietly, Verdicts
<1>5. CASE Moves
  BY <1>1, <1>5 DEF Moves
<1> QED BY <1>2, <1>3, <1>4, <1>5 DEF Shape

-----------------------------------------------------------------------------
(* The loop.                                                               *)

LogLines == LogKinds \cup {"noise"}

\* What an input does to the invariant when the runner obeys the machine.
LEMMA ObeyStep ==
  ASSUME RunInv, IInv', Shape, NEW hearing \in BOOLEAN, Obey(hearing),
         pendingExit' \in {"none", "crash", "never"},
         tail' \in Seq(LogLines), Len(tail') <= MaxUnread,
         Goodbye => state' \in Ended \/ Goodbye'
  PROVE  RunInv'
<1>1. /\ UNCHANGED <<rust, owed, watcher, straggler, exits, closing, killing, audible,
                     feed, server0, playerQuit, missed, current, crossed>>
      /\ launch' = IF action' = "launch_game"
                   THEN [launch EXCEPT ![attempt'] = "begun"] ELSE launch
      /\ closeAsked' = (closeAsked \/ action' = "close_game")
      /\ heard' \in BOOLEAN
  BY DEF Obey, process, watching, world, app
<1>2. TypeOK /\ RunnerTypeOK /\ TypeOK'
  BY DEF RunInv, RunnerTypeOK, IInv
<1>3. launch' \in [Attempts -> Phases]
  BY <1>1, <1>2 DEF RunnerTypeOK, Phases
<1>4. closeAsked' \in BOOLEAN
  BY <1>1
<1>5. RunnerTypeOK'
  BY <1>1, <1>2, <1>3, <1>4 DEF RunnerTypeOK, LogLines
<1>6. Fresh'
  BY FreshStep DEF RunInv
<1>7. Kept'
  <2> SUFFICES ASSUME Holding', ~crossed' PROVE LeftAlone'
    BY DEF Kept
  <2>1. Holding /\ action' = "none"
    BY <1>2, HoldingStep
  <2>2. LeftAlone
    BY <1>1, <2>1 DEF RunInv, Kept
  <2>3. launch' = launch /\ (closeAsked' <=> closeAsked) /\ killing' = killing
    BY <1>1, <2>1
  <2> QED BY <2>2, <2>3 DEF LeftAlone
<1>8. Remembered'
  <2>1. playerQuit' => state \in Ended \/ Goodbye
    BY <1>1 DEF RunInv, Remembered
  <2>2. state \notin Ended
    BY DEF Shape
  <2> QED BY <2>1, <2>2 DEF Remembered
<1>9. Obeyed'
  BY VerdictStep DEF RunInv, Obeyed
<1> QED BY <1>5, <1>6, <1>7, <1>8, <1>9 DEF RunInv

\* What keeps the goodbye where it is when the runner obeys the machine.
LEMMA GoodbyeStays ==
  ASSUME Goodbye, NEW hearing, Obey(hearing), action' # "launch_game", InAGame',
         sawUserQuit' = sawUserQuit, tail' = tail
  PROVE  Goodbye'
<1>1. UNCHANGED <<rust, owed, launch, tail, sawUserQuit>>
  BY DEF Obey, process
<1> QED BY <1>1 DEF Goodbye, NothingComing

LEMMA LogTypes ==
  ASSUME RunInv
  PROVE  /\ pendingExit \in {"none", "crash", "never"} /\ heard \in BOOLEAN
         /\ tail \in Seq(LogLines) /\ Len(tail) <= MaxUnread /\ Len(tail) \in Nat
         /\ MaxUnread \in Nat
BY RunnerAssumption DEF RunInv, RunnerTypeOK, LogLines

LEMMA RunnerStartStep == ASSUME RunInv, IInv', RunnerStart PROVE RunInv'
<1>1. state = "idle" /\ Start /\ Obey(heard) /\ pendingExit' = pendingExit /\ tail' = tail
  BY DEF RunnerStart
<1>2. ~Goodbye
  BY <1>1 DEF Goodbye, InAGame
<1> QED BY <1>1, <1>2, StartShape, LogTypes, ObeyStep

LEMMA RunnerTickStep == ASSUME RunInv, IInv', RunnerTick PROVE RunInv'
<1>1. Tick /\ Obey(heard) /\ pendingExit' = pendingExit /\ tail' = tail
  BY DEF RunnerTick
<1>2. ASSUME Goodbye PROVE state' \in Ended \/ Goodbye'
  <2>1. \/ Ignore
        \/ state = "in_server" /\ MoveTo("done")
    BY <1>1, <1>2 DEF Goodbye, InAGame, Tick, TickWaiting, TickRetrying, TickInServer
  <2>2. CASE Ignore
    BY <1>1, <1>2, <2>2, GoodbyeStays DEF Ignore, Quiet, standing, Goodbye, InAGame
  <2>3. CASE MoveTo("done")
    BY <2>3 DEF MoveTo, Ended
  <2> QED BY <2>1, <2>2, <2>3
<1> QED BY <1>1, <1>2, TickShape, LogTypes, ObeyStep

\* Whatever the feed says, one of the two inputs is given.
LEMMA PollInputs ==
  ASSUME RunInv, Poll
  PROVE  ServerDown \/ \E age \in Ages, queue \in BOOLEAN : ServerUp(age, queue)
<1>1. feed \in {"silent", "down", "old", "fresh"}
  BY DEF RunInv, RunnerTypeOK
<1>2. {"unknown", "old", "fresh"} \subseteq Ages
  BY DEF Ages
<1> QED BY <1>1, <1>2 DEF Poll

LEMMA PollStep == ASSUME RunInv, IInv', Poll PROVE RunInv'
<1>1. Obey(heard) /\ pendingExit' = pendingExit /\ tail' = tail
  BY DEF Poll
<1>2. ServerDown \/ \E age \in Ages, queue \in BOOLEAN : ServerUp(age, queue)
  BY PollInputs
<1>3. Shape
  BY <1>2, ServerShape
<1>4. ASSUME Goodbye PROVE Goodbye'
  <2>1. Ignore \/ MoveTo("queued")
    BY <1>2, <1>4 DEF Goodbye, InAGame, ServerDown, ServerUp
  <2>2. action' = "none" /\ sawUserQuit' = sawUserQuit /\ InAGame'
    BY <1>4, <2>1 DEF Ignore, Quiet, standing, MoveTo, Goodbye, InAGame
  <2> QED BY <1>1, <1>4, <2>2, GoodbyeStays
<1> QED BY <1>1, <1>3, <1>4, LogTypes, ObeyStep

LEMMA ReadLineStep == ASSUME RunInv, IInv', ReadLine PROVE RunInv'
<1>1. /\ state \notin Ended \cup {"idle"} /\ tail # <<>> /\ tail' = Tail(tail)
      /\ Obey(TRUE) /\ pendingExit' = pendingExit
      /\ IF Head(tail) \in LogKinds THEN LogEvent(Head(tail)) ELSE Ignore /\ OnlyFate
  BY DEF ReadLine
<1>2. Shape
  <2>1. CASE Head(tail) \in LogKinds
    BY <1>1, <2>1, LogShape
  <2>2. CASE Head(tail) \notin LogKinds
    BY <1>1, <2>2, IgnoreMoves DEF Shape, OnlyFate
  <2> QED BY <2>1, <2>2
<1>3. tail' \in Seq(LogLines) /\ Len(tail') <= MaxUnread
  BY <1>1, LogTypes
<1>4. ASSUME Goodbye PROVE Goodbye'
  <2>1. tail = <<"user_quit">>
    BY <1>1, <1>4 DEF Goodbye
  <2>2. Head(tail) = "user_quit" /\ tail' = <<>>
    BY <1>1, <2>1
  <2>3. UserQuit
    BY <1>1, <2>2 DEF LogKinds, LogEvent
  <2>4. ~closeRequested
    BY <1>4 DEF RunInv, Fresh, Goodbye, InAGame, Playing
  <2>5. sawUserQuit' /\ state' = state /\ action' = "none"
    BY <2>3, <2>4 DEF UserQuit
  <2>6. UNCHANGED <<rust, owed, launch>>
    BY <1>1, <2>5 DEF Obey, process
  <2> QED BY <1>4, <2>2, <2>5, <2>6 DEF Goodbye, InAGame, NothingComing
<1> QED BY <1>1, <1>2, <1>3, <1>4, LogTypes, ObeyStep

LEMMA ExitTimerStep == ASSUME RunInv, IInv', ExitTimer PROVE RunInv'
<1>1. /\ tail = <<>> /\ GameExited(~heard) /\ pendingExit' = "none" /\ tail' = tail
      /\ Obey(heard)
  BY DEF ExitTimer
<1>2. Shape
  BY <1>1, AnswerShape
<1>3. ASSUME Goodbye PROVE state' \in Ended
  <2>1. sawUserQuit
    BY <1>1, <1>3 DEF Goodbye
  <2>2. EndQuietly("done", "player_closed")
    BY <1>1, <1>3, <2>1 DEF GameExited, Goodbye, InAGame
  <2> QED BY <2>2 DEF EndQuietly, Ended
<1> QED BY <1>1, <1>2, <1>3, LogTypes, ObeyStep

-----------------------------------------------------------------------------
(* The other steps of the loop.                                            *)

LEMMA TakeLaunchAnswerStep ==
  ASSUME RunInv, IInv', NEW n \in Attempts, TakeLaunchAnswer(n)
  PROVE  RunInv'
<1>1. /\ launch[n] \in {"ok", "failed"} /\ (LaunchOK \/ LaunchFailed)
      /\ launch' = [launch EXCEPT ![n] = "none"]
      /\ closeAsked' = (closeAsked \/ action' = "close_game")
      /\ UNCHANGED <<rust, owed, watcher, straggler, exits, pendingExit, closing, killing,
                     tail, audible, heard, feed, server0, playerQuit, missed, current, crossed>>
  BY DEF TakeLaunchAnswer, process, watching, log, world, history, app
<1>2. Shape
  BY <1>1, AnswerShape
<1>3. TypeOK /\ RunnerTypeOK /\ TypeOK'
  BY DEF RunInv, RunnerTypeOK, IInv
<1>4. launch' \in [Attempts -> Phases]
  BY <1>1, <1>3 DEF RunnerTypeOK, Phases
<1>5. closeAsked' \in BOOLEAN
  BY <1>1
<1>6. RunnerTypeOK'
  BY <1>1, <1>3, <1>4, <1>5 DEF RunnerTypeOK
<1>7. Fresh'
  BY <1>2, FreshStep DEF RunInv
<1>8. Kept'
  <2> SUFFICES ASSUME Holding', ~crossed PROVE LeftAlone'
    BY <1>1 DEF Kept
  <2>1. Holding /\ action' = "none"
    BY <1>2, <1>3, HoldingStep
  <2>2. LeftAlone
    BY <2>1 DEF RunInv, Kept
  <2>3. \A m \in Attempts : launch'[m] \notin {"begun", "closing"}
    BY <1>1, <1>3, <2>2 DEF LeftAlone, RunnerTypeOK
  <2> QED BY <1>1, <2>1, <2>2, <2>3 DEF LeftAlone
<1>9. Remembered'
  <2> SUFFICES ASSUME playerQuit PROVE Goodbye'
    BY <1>1 DEF Remembered
  <2>1. Goodbye
    BY <1>2 DEF RunInv, Remembered, Shape
  <2>2. Ignore
    BY <1>1, <2>1 DEF Goodbye, InAGame, LaunchOK, LaunchFailed
  <2>3. UNCHANGED <<state, sawUserQuit>>
    BY <2>2 DEF Ignore, Quiet, standing
  <2>4. \A m \in Attempts : launch'[m] \in {"none", "ok", "failed"}
    BY <1>1, <1>3, <2>1 DEF Goodbye, NothingComing, RunnerTypeOK
  <2> QED BY <1>1, <2>1, <2>3, <2>4 DEF Goodbye, InAGame, NothingComing
<1>10. Obeyed'
  BY <1>2, VerdictStep DEF RunInv, Obeyed
<1> QED BY <1>6, <1>7, <1>8, <1>9, <1>10 DEF RunInv

LEMMA TakeExitStep == ASSUME RunInv, IInv', TakeExit PROVE RunInv'
<1>1. /\ exits # "none" /\ exits' = "none"
      /\ pendingExit' = IF exits = "expected" THEN pendingExit ELSE exits
      /\ UNCHANGED <<rust, owed, watcher, straggler, closing, launch, closeAsked, killing,
                     tail, audible, heard, feed, server0, playerQuit, missed, current, crossed,
                     state, reason, closeRequested, sawUserQuit, held>>
  BY DEF TakeExit, process, launcher, log, world, history, app, vars, fate, standing
<1>2. RunnerTypeOK /\ TypeOK'
  BY DEF RunInv, RunnerTypeOK, IInv
<1>3. pendingExit' \in {"none", "crash", "never"}
  BY <1>1, <1>2 DEF RunnerTypeOK
<1>4. RunnerTypeOK'
  BY <1>1, <1>2, <1>3 DEF RunnerTypeOK
<1> QED
  BY <1>1, <1>4
  DEF RunInv, Fresh, Kept, Holding, Outcome, LeftAlone, Obeyed, Closed, Remembered, Goodbye,
      InAGame, NothingComing

\* A cancel ends the job and orders a close, and one that comes after the end
\* has crossed it.
LEMMA CancelPressedStep == ASSUME RunInv, IInv', CancelPressed PROVE RunInv'
<1>1. /\ closeAsked' = TRUE /\ state' \in Ended /\ crossed' \in {crossed, TRUE}
      /\ state \in Ended => crossed'
      /\ state \notin Ended => reason' = "cancelled"
      /\ UNCHANGED <<rust, owed, watcher, straggler, exits, pendingExit, closing, killing,
                     launch, tail, audible, heard, feed, server0, playerQuit, missed, current>>
  BY DEF CancelPressed, Cancel, Ended, process, watching, log, world, history,
         vars, fate, standing
<1>2. RunnerTypeOK /\ TypeOK'
  BY DEF RunInv, RunnerTypeOK, IInv
<1>3. crossed' \in BOOLEAN
  BY <1>1, <1>2 DEF RunnerTypeOK
<1>4. RunnerTypeOK'
  BY <1>1, <1>2, <1>3 DEF RunnerTypeOK
<1>5. Fresh' /\ Obeyed' /\ Remembered'
  BY <1>1 DEF Fresh, Playing, Ended, Obeyed, Closed, Remembered
<1>6. Kept'
  BY <1>1 DEF Kept, Holding, Outcome, Ended
<1> QED BY <1>4, <1>5, <1>6 DEF RunInv

-----------------------------------------------------------------------------
(* The launcher, the watcher and the world: the machine does not move.     *)

LEMMA AsideStep ==
  ASSUME RunInv, IInv', UNCHANGED <<vars, crossed>>, RunnerTypeOK',
         LeftAlone => LeftAlone', reason = "cancelled" /\ Closed => Closed',
         playerQuit' => Goodbye' \/ (playerQuit /\ (Goodbye => Goodbye'))
  PROVE  RunInv'
<1>1. UNCHANGED <<state, reason, closeRequested, held>>
  BY DEF vars, fate, standing
<1>2. Fresh' /\ Kept' /\ Obeyed'
  BY <1>1 DEF RunInv, Fresh, Kept, Holding, Outcome, Obeyed
<1>3. Remembered'
  <2> SUFFICES ASSUME playerQuit', state \notin Ended PROVE Goodbye'
    BY <1>1 DEF Remembered
  <2> QED BY DEF RunInv, Remembered
<1> QED BY <1>2, <1>3 DEF RunInv

\* A line that is written is one of the log's, and there is room for it.
LEMMA WritesTypes ==
  ASSUME RunInv, NEW kind \in LogLines, Writes(kind) \/ tail' = tail
  PROVE  tail' \in Seq(LogLines) /\ Len(tail') <= MaxUnread
<1>1. CASE tail' = tail
  BY <1>1, LogTypes
<1>2. CASE tail' = Append(tail, kind) /\ Len(tail) < MaxUnread
  BY <1>2, LogTypes
<1> QED BY <1>1, <1>2 DEF Writes

LEMMA LaunchBeginsStep ==
  ASSUME RunInv, IInv', NEW n \in Attempts, LaunchBegins(n) PROVE RunInv'
<1>1. /\ launch[n] = "begun" /\ UNCHANGED vars
      /\ launch' \in {[launch EXCEPT ![n] = "handing"], [launch EXCEPT ![n] = "closing"]}
      /\ closing' = closing \/ closing' = TRUE
      /\ UNCHANGED <<rust, owed, watcher, straggler, exits, pendingExit, closeAsked, killing,
                     tail, audible, heard, feed, server0, playerQuit, missed, current, crossed>>
  BY DEF LaunchBegins, At, loop, process, watching, log, world, history, app
<1>2. RunnerTypeOK /\ TypeOK'
  BY DEF RunInv, RunnerTypeOK, IInv
<1>3. launch' \in [Attempts -> Phases]
  BY <1>1, <1>2 DEF RunnerTypeOK, Phases
<1>4. RunnerTypeOK'
  <2>1. closing' \in BOOLEAN
    BY <1>1, <1>2 DEF RunnerTypeOK
  <2> QED BY <1>1, <1>2, <1>3, <2>1 DEF RunnerTypeOK
<1>5. ~LeftAlone /\ ~Goodbye /\ (Closed => Closed')
  BY <1>1 DEF LeftAlone, Goodbye, Closed, NothingComing
<1> QED BY <1>1, <1>4, <1>5, AsideStep

LEMMA LaunchClosesStep ==
  ASSUME RunInv, IInv', NEW n \in Attempts, LaunchCloses(n) PROVE RunInv'
<1>1. /\ launch[n] = "closing" /\ UNCHANGED vars
      /\ launch' \in {[launch EXCEPT ![n] = "waiting"], [launch EXCEPT ![n] = "failed"]}
      /\ rust' \in {rust, "off"} /\ (Writes("user_quit") \/ tail' = tail)
      /\ UNCHANGED <<owed, watcher, straggler, exits, pendingExit, closing, closeAsked,
                     killing, audible, heard, feed, server0, playerQuit, missed, current, crossed>>
  BY DEF LaunchCloses, At, Dies, loop, watching, world, history, app
<1>2. RunnerTypeOK /\ TypeOK'
  BY DEF RunInv, RunnerTypeOK, IInv
<1>3. launch' \in [Attempts -> Phases]
  BY <1>1, <1>2 DEF RunnerTypeOK, Phases
<1>4. tail' \in Seq(LogLines) /\ Len(tail') <= MaxUnread
  BY <1>1, WritesTypes DEF LogLines, LogKinds
<1>5. RunnerTypeOK'
  <2>1. rust' \in {"off", "theirs", "ours"}
    BY <1>1, <1>2 DEF RunnerTypeOK
  <2> QED BY <1>1, <1>2, <1>3, <1>4, <2>1 DEF RunnerTypeOK, LogLines
<1>6. ~LeftAlone /\ ~Goodbye /\ (Closed => Closed')
  BY <1>1 DEF LeftAlone, Goodbye, Closed, NothingComing
<1> QED BY <1>1, <1>5, <1>6, AsideStep

LEMMA LaunchWaitsStep ==
  ASSUME RunInv, IInv', NEW n \in Attempts, LaunchWaits(n) PROVE RunInv'
<1>1. /\ launch[n] = "waiting" /\ UNCHANGED vars
      /\ launch' = [launch EXCEPT ![n] = "handing"]
      /\ UNCHANGED <<rust, owed, watcher, straggler, exits, pendingExit, closing, closeAsked,
                     killing, tail, audible, heard, feed, server0, playerQuit, missed,
                     current, crossed>>
  BY DEF LaunchWaits, At, loop, process, watching, log, world, history, app
<1>2. RunnerTypeOK /\ TypeOK'
  BY DEF RunInv, RunnerTypeOK, IInv
<1>3. launch' \in [Attempts -> Phases]
  BY <1>1, <1>2 DEF RunnerTypeOK, Phases
<1>4. RunnerTypeOK'
  BY <1>1, <1>2, <1>3 DEF RunnerTypeOK
<1>5. LeftAlone => LeftAlone'
  BY <1>1, <1>2 DEF LeftAlone, RunnerTypeOK
<1>6. ~Goodbye /\ (Closed => Closed')
  BY <1>1 DEF Goodbye, Closed, NothingComing
<1> QED BY <1>1, <1>4, <1>5, <1>6, AsideStep

LEMMA LaunchHandsStep ==
  ASSUME RunInv, IInv', NEW n \in Attempts, LaunchHands(n) PROVE RunInv'
<1>1. /\ launch[n] = "handing" /\ UNCHANGED vars
      /\ launch' \in {[launch EXCEPT ![n] = "ok"], [launch EXCEPT ![n] = "failed"]}
      /\ owed' = owed \/ owed' = TRUE
      /\ closing' = closing \/ closing' = FALSE
      /\ watcher' \in {watcher, "waiting"}
      /\ straggler' \in {straggler, straggler \/ watcher = "saw_gone"}
      /\ UNCHANGED <<rust, exits, pendingExit, closeAsked, killing, tail,
                     audible, heard, feed, server0, playerQuit, missed, current, crossed>>
  BY DEF LaunchHands, At, loop, log, world, history, app
<1>2. RunnerTypeOK /\ TypeOK'
  BY DEF RunInv, RunnerTypeOK, IInv
<1>3. launch' \in [Attempts -> Phases]
  BY <1>1, <1>2 DEF RunnerTypeOK, Phases
<1>4. straggler' \in BOOLEAN
  BY <1>1, <1>2 DEF RunnerTypeOK
<1>5. RunnerTypeOK'
  <2>1. /\ owed' \in BOOLEAN /\ closing' \in BOOLEAN
        /\ watcher' \in {"none", "waiting", "appeared", "saw_gone"}
    BY <1>1, <1>2 DEF RunnerTypeOK
  <2> QED BY <1>1, <1>2, <1>3, <1>4, <2>1 DEF RunnerTypeOK
<1>6. LeftAlone => LeftAlone'
  BY <1>1, <1>2 DEF LeftAlone, RunnerTypeOK
<1>7. ~Goodbye /\ (Closed => Closed')
  BY <1>1 DEF Goodbye, Closed, NothingComing
<1> QED BY <1>1, <1>5, <1>6, <1>7, AsideStep

\* A close that finds no game is over at once.
LEMMA CloseBeginsStep == ASSUME RunInv, IInv', CloseBegins PROVE RunInv'
<1>1. /\ closeAsked /\ closeAsked' = FALSE /\ closing' = TRUE /\ UNCHANGED vars
      /\ killing' = (killing \/ rust # "off")
      /\ IF rust = "off" THEN Misses ELSE UNCHANGED missed
      /\ UNCHANGED <<rust, owed, watcher, straggler, exits, pendingExit, launch, tail,
                     audible, heard, feed, server0, playerQuit, current, crossed,
                     state, sawUserQuit>>
  BY DEF CloseBegins, process, watching, log, world, app, vars, fate, standing
<1>2. RunnerTypeOK /\ TypeOK'
  BY DEF RunInv, RunnerTypeOK, IInv
<1>3. /\ closing' \in BOOLEAN /\ closeAsked' \in BOOLEAN /\ killing' \in BOOLEAN
      /\ missed' \in BOOLEAN
  BY <1>1, <1>2 DEF Misses, RunnerTypeOK
<1>4. RunnerTypeOK'
  BY <1>1, <1>2, <1>3 DEF RunnerTypeOK
<1>5. ~LeftAlone /\ (Goodbye => Goodbye')
  BY <1>1 DEF LeftAlone, Goodbye, InAGame, NothingComing
<1>6. ASSUME reason = "cancelled" PROVE Closed'
  <2>1. CASE rust = "off"
    BY <1>1, <1>6, <2>1 DEF Misses, Closed, NothingComing
  <2>2. CASE rust # "off"
    BY <1>1, <2>2 DEF Closed
  <2> QED BY <2>1, <2>2
<1> QED BY <1>1, <1>4, <1>5, <1>6, AsideStep

LEMMA CloseEndsStep == ASSUME RunInv, IInv', CloseEnds PROVE RunInv'
<1>1. /\ killing /\ killing' = FALSE /\ UNCHANGED vars /\ Misses
      /\ rust = "off" => UNCHANGED <<rust, tail>>
      /\ rust' \in {rust, "off"} /\ (Writes("user_quit") \/ tail' = tail)
      /\ UNCHANGED <<owed, watcher, straggler, exits, pendingExit, closing, launch, closeAsked,
                     audible, heard, feed, server0, playerQuit, current, crossed,
                     state, sawUserQuit>>
  BY DEF CloseEnds, Dies, watching, world, app, vars, fate, standing
<1>2. RunnerTypeOK /\ TypeOK'
  BY DEF RunInv, RunnerTypeOK, IInv
<1>3. tail' \in Seq(LogLines) /\ Len(tail') <= MaxUnread
  BY <1>1, WritesTypes DEF LogLines, LogKinds
<1>4. RunnerTypeOK'
  <2>1. rust' \in {"off", "theirs", "ours"} /\ killing' \in BOOLEAN /\ missed' \in BOOLEAN
    BY <1>1, <1>2 DEF Misses, RunnerTypeOK
  <2> QED BY <1>1, <1>2, <1>3, <2>1 DEF RunnerTypeOK, LogLines
<1>5. ~LeftAlone /\ (Goodbye => Goodbye')
  BY <1>1 DEF LeftAlone, Goodbye, InAGame, NothingComing
<1>6. ASSUME reason = "cancelled" PROVE Closed'
  BY <1>1, <1>6 DEF Misses, Closed, NothingComing
<1> QED BY <1>1, <1>4, <1>5, <1>6, AsideStep

\* The watcher and the world, as far as the invariant sees them.
LEMMA ApartStep ==
  ASSUME RunInv, IInv', UNCHANGED vars,
         UNCHANGED <<rust, owed, pendingExit, closing, launch, closeAsked, killing,
                     tail, audible, heard, playerQuit, missed, crossed>>,
         watcher' \in {"none", "waiting", "appeared", "saw_gone"}, straggler' \in BOOLEAN,
         exits' \in {"none", "expected", "crash", "never"}, current' \in BOOLEAN,
         feed' \in {"silent", "down", "old", "fresh"},
         server0' \in {"old", "restarting", "fresh"}
  PROVE  RunInv'
<1>1. RunnerTypeOK /\ TypeOK'
  BY DEF RunInv, RunnerTypeOK, IInv
<1>2. RunnerTypeOK'
  BY <1>1 DEF RunnerTypeOK
<1>3. UNCHANGED <<state, sawUserQuit>>
  BY DEF vars, fate, standing
<1>4. (LeftAlone => LeftAlone') /\ (Closed => Closed') /\ (Goodbye => Goodbye')
  BY <1>3 DEF LeftAlone, Closed, Goodbye, InAGame, NothingComing
<1> QED BY <1>2, <1>4, AsideStep

LEMMA WatcherStep ==
  ASSUME RunInv, IInv', WatcherLooks \/ WatcherReports \/ WatcherGivesUp PROVE RunInv'
<1>1. RunnerTypeOK
  BY DEF RunInv
<1>2. CASE WatcherLooks
  BY <1>1, <1>2, ApartStep
  DEF WatcherLooks, RunnerTypeOK, process, launcher, log, world, history, app
<1>3. CASE WatcherReports
  BY <1>1, <1>3, ApartStep
  DEF WatcherReports, Sends, RunnerTypeOK, loop, process, launcher, log, world, history, app
<1>4. CASE WatcherGivesUp
  BY <1>1, <1>4, ApartStep
  DEF WatcherGivesUp, Sends, RunnerTypeOK, loop, process, launcher, log, world, history, app
<1> QED BY <1>2, <1>3, <1>4

LEMMA WorldStep ==
  ASSUME RunInv, IInv', ServerRestarts \/ ServerOpens \/ RelayReports \/ Returns
  PROVE  RunInv'
<1>1. RunnerTypeOK
  BY DEF RunInv
<1>2. CASE ServerRestarts \/ ServerOpens
  BY <1>1, <1>2, ApartStep
  DEF ServerRestarts, ServerOpens, RunnerTypeOK, process, watching, launcher, log, history, app
<1>3. CASE RelayReports
  BY <1>1, <1>3, ApartStep
  DEF RelayReports, RunnerTypeOK, process, watching, launcher, log, history, app
<1>4. CASE Returns
  BY <1>1, <1>4, ApartStep
  DEF Returns, RunnerTypeOK, process, watching, launcher, log, world, history
<1> QED BY <1>2, <1>3, <1>4

LEMMA GameStep ==
  ASSUME RunInv, IInv', GameAppears \/ GameWrites \/ GameCrashes PROVE RunInv'
<1>1. /\ UNCHANGED vars /\ (owed \/ rust = "ours")
      /\ rust' \in {rust, "off", "ours"} /\ owed' \in {owed, FALSE}
      /\ tail' = tail \/ \E kind \in GameLines : Writes(kind)
      /\ UNCHANGED <<watcher, straggler, exits, pendingExit, closing, launch, closeAsked,
                     killing, audible, heard, feed, server0, playerQuit, missed, current, crossed>>
  BY DEF GameAppears, GameWrites, GameCrashes, loop, process, watching, launcher, log, world,
         history, app
<1>2. RunnerTypeOK /\ TypeOK'
  BY DEF RunInv, RunnerTypeOK, IInv
<1>3. tail' \in Seq(LogLines) /\ Len(tail') <= MaxUnread
  BY <1>1, WritesTypes, LogTypes, RunnerAssumption DEF LogLines
<1>4. RunnerTypeOK'
  <2>1. rust' \in {"off", "theirs", "ours"} /\ owed' \in BOOLEAN
    BY <1>1, <1>2 DEF RunnerTypeOK
  <2> QED BY <1>1, <1>2, <1>3, <2>1 DEF RunnerTypeOK, LogLines
<1>5. ~Goodbye /\ (LeftAlone => LeftAlone') /\ (Closed => Closed')
  BY <1>1 DEF LeftAlone, Closed, Goodbye, NothingComing
<1> QED BY <1>1, <1>4, <1>5, AsideStep

\* The goodbye is written, and remembered if nothing else is there to read.
LEMMA PlayerQuitsStep == ASSUME RunInv, IInv', PlayerQuits PROVE RunInv'
<1>1. /\ UNCHANGED vars /\ rust = "ours" /\ rust' = "off" /\ Writes("user_quit")
      /\ UNCHANGED <<owed, watcher, straggler, exits, pendingExit, closing, launch,
                     closeAsked, killing, audible, heard, feed, server0, missed,
                     current, crossed, state, sawUserQuit>>
      /\ playerQuit' = (playerQuit \/ (audible /\ tail = <<>> /\ ~closeAsked /\ ~closing
                                       /\ watcher = "appeared" /\ NothingComing
                                       /\ state \in {"connecting", "queued", "in_server"}))
  BY DEF PlayerQuits, watching, launcher, world, app, vars, fate, standing
<1>2. RunnerTypeOK /\ TypeOK'
  BY DEF RunInv, RunnerTypeOK, IInv
<1>3. tail' \in Seq(LogLines) /\ Len(tail') <= MaxUnread
  BY <1>1, WritesTypes DEF LogLines, LogKinds
<1>4. playerQuit' \in BOOLEAN
  BY <1>1
<1>5. RunnerTypeOK'
  BY <1>1, <1>2, <1>3, <1>4 DEF RunnerTypeOK, LogLines
<1>6. (LeftAlone => LeftAlone') /\ (Closed => Closed')
  BY <1>1 DEF LeftAlone, Closed
<1>7. ~Goodbye
  BY <1>1 DEF Goodbye
<1>8. ASSUME playerQuit', ~playerQuit PROVE Goodbye'
  <2>1. audible /\ tail = <<>> /\ NothingComing
        /\ state \in {"connecting", "queued", "in_server"}
    BY <1>1, <1>8
  <2>2. tail' = <<"user_quit">>
    BY <1>1, <2>1 DEF Writes
  <2> QED BY <1>1, <2>1, <2>2 DEF Goodbye, InAGame, NothingComing
<1> QED BY <1>1, <1>5, <1>6, <1>7, <1>8, AsideStep

\* Time passes only when the loop has caught up, and past CloseTime of a held
\* slot only when every close is over.
LEMMA RunnerElapseStep == ASSUME RunInv, IInv', RunnerElapse PROVE RunInv'
<1>1. /\ Prompt /\ state \notin Ended /\ UNCHANGED runnerVars
      /\ UNCHANGED <<state, reason, closeRequested, sawUserQuit>>
      /\ held' = held \/ held' = held + 1
  BY DEF RunnerElapse, Elapse
<1>2. UNCHANGED <<rust, owed, watcher, straggler, exits, pendingExit, closing, launch,
                  closeAsked, killing, tail, audible, heard, feed, server0,
                  playerQuit, missed, current, crossed>>
  BY <1>1 DEF runnerVars, process, watching, launcher, log, world, history, app
<1>3. RunnerTypeOK /\ TypeOK'
  BY DEF RunInv, RunnerTypeOK, IInv
<1>4. RunnerTypeOK'
  BY <1>2, <1>3 DEF RunnerTypeOK
<1>5. Fresh'
  BY <1>1 DEF RunInv, Fresh
<1>6. Kept'
  <2> SUFFICES ASSUME Holding' PROVE LeftAlone
    BY <1>2 DEF Kept, LeftAlone
  <2>1. state = "in_server" /\ held' > CloseTime
    BY <1>1 DEF Holding, Outcome
  <2>2. held \in Nat /\ CloseTime \in Nat
    BY <1>3, RunnerAssumption, TimeAssumption DEF RunnerTypeOK, TypeOK
  <2>3. held >= CloseTime
    BY <1>1, <2>1, <2>2
  <2> QED BY <1>1, <2>1, <2>3 DEF Prompt, LeftAlone
<1>7. Remembered'
  BY <1>1, <1>2 DEF RunInv, Remembered, Goodbye, InAGame, NothingComing
<1>8. Obeyed'
  BY <1>1 DEF RunInv, Obeyed
<1> QED BY <1>4, <1>5, <1>6, <1>7, <1>8 DEF RunInv

-----------------------------------------------------------------------------
(* The runner and the machine.                                             *)

\* Each step of the runner gives the machine one of its inputs, or none.
LEMMA RunnerStepIsMachineStep ==
  ASSUME RunInv, [RunnerNext]_allVars
  PROVE  [Next]_vars
<1>1. CASE RunnerStart \/ RunnerTick \/ CancelPressed \/ RunnerElapse
  BY <1>1 DEF RunnerStart, RunnerTick, CancelPressed, RunnerElapse, Next
<1>2. CASE Poll
  <2>1. ServerDown \/ \E age \in Ages, queue \in BOOLEAN : ServerUp(age, queue)
    BY <1>2, PollInputs
  <2> QED BY <2>1 DEF Next
<1>3. CASE ReadLine
  <2>1. CASE Head(tail) \in LogKinds
    BY <1>3, <2>1 DEF ReadLine, Next
  <2>2. CASE Head(tail) \notin LogKinds
    <3>1. Shrug
      BY <1>3, <2>2 DEF ReadLine, Shrug
    <3> QED BY <3>1, ShrugIsAStep DEF Next
  <2> QED BY <2>1, <2>2
<1>4. CASE ExitTimer
  <2>1. (~heard) \in BOOLEAN /\ GameExited(~heard)
    BY <1>4 DEF ExitTimer
  <2> QED BY <2>1 DEF Next
<1>5. CASE \E n \in Attempts : TakeLaunchAnswer(n)
  BY <1>5 DEF TakeLaunchAnswer, Next
<1>6. CASE TakeExit \/ CloseBegins \/ CloseEnds \/ WatcherLooks \/ WatcherReports
           \/ WatcherGivesUp
  BY <1>6
  DEF TakeExit, CloseBegins, CloseEnds, WatcherLooks, WatcherReports, WatcherGivesUp, loop
<1>7. CASE \E n \in Attempts :
             LaunchBegins(n) \/ LaunchCloses(n) \/ LaunchWaits(n) \/ LaunchHands(n)
  BY <1>7 DEF LaunchBegins, LaunchCloses, LaunchWaits, LaunchHands, loop
<1>8. CASE GameAppears \/ GameWrites \/ GameCrashes \/ PlayerQuits
  BY <1>8 DEF GameAppears, GameWrites, GameCrashes, PlayerQuits, loop
<1>9. CASE ServerRestarts \/ ServerOpens \/ RelayReports \/ Returns
  BY <1>9 DEF ServerRestarts, ServerOpens, RelayReports, Returns
<1>10. CASE UNCHANGED allVars
  BY <1>10 DEF allVars
<1> QED
  BY <1>1, <1>2, <1>3, <1>4, <1>5, <1>6, <1>7, <1>8, <1>9, <1>10 DEF RunnerNext

LEMMA RunnerInitInv == ASSUME RunnerInit PROVE RunInv
<1>1. IInv
  BY InitIInv DEF RunnerInit
<1>2. launch \in [Attempts -> Phases] /\ tail \in Seq(LogLines) /\ Len(tail) <= MaxUnread
  BY RunnerAssumption DEF RunnerInit, Phases
<1>3. feed \in {"silent", "down", "old", "fresh"}
  BY DEF RunnerInit
<1>4. RunnerTypeOK
  BY <1>1, <1>2, <1>3 DEF RunnerInit, RunnerTypeOK, LogLines, IInv
<1>5. state = "idle" /\ reason = "none" /\ ~playerQuit
  BY DEF RunnerInit, Init
<1>6. Fresh /\ Kept /\ Obeyed /\ Remembered
  BY <1>5 DEF Fresh, Playing, Kept, Holding, Outcome, Ended, Obeyed, Remembered
<1> QED BY <1>1, <1>4, <1>6 DEF RunInv

LEMMA RunnerStutterStep == ASSUME RunInv, IInv', UNCHANGED allVars PROVE RunInv'
<1>1. /\ UNCHANGED vars
      /\ UNCHANGED <<rust, owed, watcher, straggler, exits, pendingExit, closing, launch,
                     closeAsked, killing, tail, audible, heard, feed, server0,
                     playerQuit, missed, current, crossed>>
  BY DEF allVars, runnerVars, process, watching, launcher, log, world, history, app
<1>2. RunnerTypeOK
  BY DEF RunInv
<1> QED BY <1>1, <1>2, ApartStep DEF RunnerTypeOK

\* No step of the runner leaves the invariant.
LEMMA RunnerNextInv == ASSUME RunInv, [RunnerNext]_allVars PROVE RunInv'
<1>1. IInv'
  BY RunnerStepIsMachineStep, NextStep DEF RunInv
<1>2. CASE RunnerStart \/ RunnerTick \/ Poll \/ ReadLine \/ ExitTimer
  BY <1>1, <1>2, RunnerStartStep, RunnerTickStep, PollStep, ReadLineStep, ExitTimerStep
<1>3. CASE TakeExit \/ CancelPressed \/ \E n \in Attempts : TakeLaunchAnswer(n)
  BY <1>1, <1>3, TakeExitStep, CancelPressedStep, TakeLaunchAnswerStep
<1>4. CASE \E n \in Attempts :
             LaunchBegins(n) \/ LaunchCloses(n) \/ LaunchWaits(n) \/ LaunchHands(n)
  BY <1>1, <1>4, LaunchBeginsStep, LaunchClosesStep, LaunchWaitsStep, LaunchHandsStep
<1>5. CASE CloseBegins \/ CloseEnds
  BY <1>1, <1>5, CloseBeginsStep, CloseEndsStep
<1>6. CASE WatcherLooks \/ WatcherReports \/ WatcherGivesUp
  BY <1>1, <1>6, WatcherStep
<1>7. CASE GameAppears \/ GameWrites \/ GameCrashes \/ PlayerQuits
  BY <1>1, <1>7, GameStep, PlayerQuitsStep
<1>8. CASE ServerRestarts \/ ServerOpens \/ RelayReports \/ Returns
  BY <1>1, <1>8, WorldStep
<1>9. CASE RunnerElapse \/ UNCHANGED allVars
  BY <1>1, <1>9, RunnerElapseStep, RunnerStutterStep
<1> QED BY <1>2, <1>3, <1>4, <1>5, <1>6, <1>7, <1>8, <1>9 DEF RunnerNext

\* Nothing launches in a game, or after the end.
LEMMA NoLaunchThere ==
  ASSUME [Next]_vars, state \in Ended \/ InAGame
  PROVE  attempt' = attempt
<1>1. CASE UNCHANGED vars \/ Finished
  BY <1>1 DEF Finished, vars, fate, standing
<1>2. CASE Cancel \/ Elapse
  BY <1>2 DEF Cancel, Elapse
<1>3. ASSUME Shape PROVE attempt' = attempt
  <2>1. InAGame /\ (Begins \/ Loses \/ EndsAlone \/ Moves)
    BY <1>3 DEF Shape
  <2>2. ~Begins
    BY <2>1 DEF Begins, InAGame
  <2>3. CASE Loses
    BY <2>3 DEF Loses, RetryOrFail, Fail
  <2>4. CASE EndsAlone
    BY <2>4 DEF EndsAlone, EndQuietly
  <2>5. CASE Moves
    BY <2>5 DEF Moves
  <2> QED BY <2>1, <2>2, <2>3, <2>4, <2>5
<1> QED
  BY <1>1, <1>2, <1>3, StartShape, TickShape, ServerShape, AnswerShape, LogShape DEF Next

-----------------------------------------------------------------------------
(* The theorems.                                                           *)

\* The invariant is inductive.
THEOREM RunnerInvariance == RunnerSpec => []RunInv
<1>1. RunnerInit => RunInv
  BY RunnerInitInv
<1>2. RunInv /\ [RunnerNext]_allVars => RunInv'
  BY RunnerNextInv
<1> QED BY <1>1, <1>2, PTL DEF RunnerSpec

\* The variables of the loop, the launcher and the watcher keep their types.
THEOREM RunnerTypeCorrect == RunnerSpec => []RunnerTypeOK
<1>1. RunInv => RunnerTypeOK
  BY DEF RunInv
<1> QED BY <1>1, RunnerInvariance, PTL

\* Of all the goroutines that feed() started (runner.go), none is left to
\* close the game of a job that was won, or to look for one to close: a close
\* under way when the slot was found is over before it has been held for long
\* enough.  Only a cancel that comes in after the win closes it.
THEOREM WonGamesAreKept == RunnerSpec => []WonGameIsKept
<1>1. RunInv => WonGameIsKept
  BY DEF RunInv, Kept, Holding, WonGameIsKept
<1> QED BY <1>1, RunnerInvariance, PTL

\* A cancelled job leaves none of its games running once its closes are over
\* (Runner.Cancel in runner.go, Close in windows.go), unless one of them was
\* over before the game had come, or the game would not be killed.
THEOREM CancelsAreObeyed == RunnerSpec => []CancelIsObeyed
<1>1. RunInv => CancelIsObeyed
  BY DEF RunInv, Obeyed, Closed, CancelIsObeyed
<1> QED BY <1>1, RunnerInvariance, PTL

\* A player who closes the job's game at the PC is not answered with a
\* launch, whether the loop of runner.go hears of the exit or of the goodbye
\* first (GameExited and UserQuit, state.go).
THEOREM QuitsAreRespected == RunnerSpec => QuitIsRespected
<1>1. RunInv /\ [RunnerNext]_allVars => [playerQuit => attempt' = attempt]_allVars
  <2> SUFFICES ASSUME RunInv, [RunnerNext]_allVars, playerQuit PROVE attempt' = attempt
    OBVIOUS
  <2>1. state \in Ended \/ InAGame
    BY DEF RunInv, Remembered, Goodbye
  <2> QED BY <2>1, RunnerStepIsMachineStep, NoLaunchThere
<1> QED BY <1>1, RunnerInvariance, PTL DEF RunnerSpec, QuitIsRespected

\* Runner.Run (runner.go) drives the machine by its inputs and by nothing
\* else, so that what is proved of the machine holds of the job at work.
THEOREM RunnerDrivesTheMachine == RunnerSpec => Spec
<1>1. RunnerInit => Init
  BY DEF RunnerInit
<1>2. RunInv /\ [RunnerNext]_allVars => [Next]_vars
  BY RunnerStepIsMachineStep
<1> QED BY <1>1, <1>2, RunnerInvariance, PTL DEF RunnerSpec, Spec

\* The job at work, with its goroutines, its game and its player, keeps the
\* promise of a join job.
THEOREM RunnerKeepsSafePromise ==
  RunnerSpec => Promise!Init /\ [][Promise!Next]_(Promise!vars)
BY RunnerDrivesTheMachine, KeepsSafePromise, PTL

\* No more than MaxConnectsPerMinute launches in a minute, and none of a wipe
\* job without a reason, when the loop of runner.go gives the inputs.
THEOREM RunnerLaunchesAreCapped == RunnerSpec => [](RateCap /\ WipeLaunchExplained)
BY RunnerDrivesTheMachine, LaunchesAreCapped, WipeLaunchesAreExplained, PTL
=============================================================================
