------------------------------- MODULE Runner -------------------------------
(***************************************************************************)
(* A join job at work on the PC: the loop of internal/runner/runner.go     *)
(* that drives the state machine, the goroutines it starts, the Windows    *)
(* launcher of internal/game/windows.go with its process watcher, the log  *)
(* of the game and the feed of server reports.                             *)
(*                                                                         *)
(* The loop takes one event at a time; launching, closing, watching and    *)
(* cancelling run beside it and interleave with it.  `rust' is the process *)
(* on the PC, `owed' a link that Steam was handed and has not yet turned   *)
(* into a process, `tail' the lines of the log that nobody has read.       *)
(***************************************************************************)
EXTENDS Machine, Sequences

CONSTANTS
  GameLines,   \* what a running game may write: LogKinds, and "noise"
  MaxUnread,   \* bound: lines written and not read
  CloseTime    \* how long a Close can take, the forced kill included

\* A Close is over in fifteen seconds, a slot is held for thirty.
ASSUME RunnerAssumption ==
  /\ GameLines \subseteq LogKinds \cup {"noise"} /\ MaxUnread \in Nat \ {0}
  /\ CloseTime \in Nat /\ CloseTime < InServerConfirm

VARIABLES
  rust,          \* the game: "off", "theirs" (running before the job), "ours"
  owed,
  closing,       \* WindowsLauncher.closing
  watcher,       \* the watchProcess of the last launch
  straggler,     \* an earlier watchProcess between its look and its report
  exits,         \* the Exit channel, of one slot
  pendingExit,   \* an exit in its grace period
  launch,        \* per attempt, the goroutine that feed started
  closeAsked,    \* a Launcher.Close was called and has not begun
  killing,       \* a Launcher.Close waits for the process to go
  tail, audible, \* audible: the tailed file is the one the game writes
  heard,
  feed,          \* serverstat.Feed: the last word of the relay
  server0,       \* the game server itself
  current,       \* App.current, or a handler that read it, still has the job
  playerQuit,    \* history: the player closed the job's game, and it said so
  crossed,       \* history: a cancel came in after the job had ended
  missed         \* history: a close of the cancelled job was over too early

process == <<rust, owed>>
watching == <<watcher, straggler, exits>>
launcher == <<closing, launch, closeAsked, killing>>
log == <<tail, audible>>
world == <<feed, server0>>
history == <<playerQuit, missed>>
app == <<current, crossed>>
runnerVars == <<process, watching, pendingExit, launcher, log, heard, world,
                history, app>>
allVars == <<vars, runnerVars>>

Attempts == 1 .. MaxAttempts
Phases == {"none", "begun", "closing", "waiting", "handing", "ok", "failed"}

RunnerTypeOK ==
  /\ TypeOK
  /\ rust \in {"off", "theirs", "ours"} /\ owed \in BOOLEAN
  /\ closing \in BOOLEAN /\ closeAsked \in BOOLEAN /\ killing \in BOOLEAN
  /\ watcher \in {"none", "waiting", "appeared", "saw_gone"}
  /\ straggler \in BOOLEAN
  /\ exits \in {"none", "expected", "crash", "never"}
  /\ pendingExit \in {"none", "crash", "never"}
  /\ launch \in [Attempts -> Phases]
  /\ tail \in Seq(LogKinds \cup {"noise"}) /\ Len(tail) <= MaxUnread
  /\ audible \in BOOLEAN /\ heard \in BOOLEAN
  /\ feed \in {"silent", "down", "old", "fresh"}
  /\ server0 \in {"old", "restarting", "fresh"}
  /\ current \in BOOLEAN
  /\ playerQuit \in BOOLEAN /\ crossed \in BOOLEAN /\ missed \in BOOLEAN

\* The feed of a job that waits for nothing starts out online.
RunnerInit ==
  /\ Init
  /\ rust \in {"off", "theirs"} /\ owed = FALSE
  /\ closing = FALSE /\ closeAsked = FALSE /\ killing = FALSE
  /\ watcher = "none" /\ straggler = FALSE /\ exits = "none"
  /\ pendingExit = "none"
  /\ launch = [n \in Attempts |-> "none"]
  /\ tail = <<>> /\ audible \in BOOLEAN /\ heard = FALSE
  /\ feed = IF waitForServerUp THEN "silent" ELSE "old"
  /\ server0 = "old"
  /\ current = TRUE
  /\ playerQuit = FALSE /\ crossed = FALSE /\ missed = FALSE

-----------------------------------------------------------------------------
(* The loop: one input to the machine, and what the machine asks for.      *)

\* Mutation: whatever ends the job closes the game.
ObeyClosingAtTheEnd(hearing) ==
  /\ launch' = IF action' = "launch_game"
               THEN [launch EXCEPT ![attempt'] = "begun"] ELSE launch
  /\ closeAsked' = (closeAsked \/ action' = "close_game" \/ state' \in Ended)
  /\ heard' = (hearing /\ action' # "launch_game")
  /\ UNCHANGED <<process, watching, closing, killing, audible, world,
                 playerQuit, missed, app>>

\* feed(): a launch or a close starts a goroutine and the loop goes on.  A
\* launch makes the loop deaf to what it heard before.
Obey(hearing) ==
  /\ launch' = IF action' = "launch_game"
               THEN [launch EXCEPT ![attempt'] = "begun"] ELSE launch
  /\ closeAsked' = (closeAsked \/ action' = "close_game")
  /\ heard' = (hearing /\ action' # "launch_game")
  /\ UNCHANGED <<process, watching, closing, killing, audible, world,
                 playerQuit, missed, app>>

RunnerStart == state = "idle" /\ Start /\ Obey(heard) /\ UNCHANGED <<pendingExit, tail>>

RunnerTick == state # "idle" /\ Tick /\ Obey(heard) /\ UNCHANGED <<pendingExit, tail>>

\* The queue the server tells of comes with each report.
Poll ==
  /\ state # "idle"
  /\ CASE feed \in {"silent", "down"} -> ServerDown
       [] feed = "old" ->
            \E age \in {"unknown", "old"}, queue \in BOOLEAN : ServerUp(age, queue)
       [] feed = "fresh" -> \E queue \in BOOLEAN : ServerUp("fresh", queue)
  /\ Obey(heard) /\ UNCHANGED <<pendingExit, tail>>

\* A line the parser does not know still shows that the log is alive.
ReadLine ==
  /\ state \notin Ended \cup {"idle"} /\ tail # <<>>
  /\ IF Head(tail) \in LogKinds THEN LogEvent(Head(tail)) ELSE Ignore /\ OnlyFate
  /\ tail' = Tail(tail)
  /\ Obey(TRUE) /\ UNCHANGED pendingExit

TakeLaunchAnswer(n) ==
  /\ launch[n] \in {"ok", "failed"}
  /\ IF launch[n] = "ok" THEN LaunchOK ELSE LaunchFailed
  /\ launch' = [launch EXCEPT ![n] = "none"]
  /\ closeAsked' = (closeAsked \/ action' = "close_game")
  /\ UNCHANGED <<process, watching, pendingExit, closing, killing, log, heard,
                 world, history, app>>

\* Mutation: an exit is believed only if the log has spoken.
TakeExitIfHeard ==
  /\ state \notin Ended /\ exits # "none"
  /\ exits' = "none"
  /\ pendingExit' = IF exits = "expected" \/ ~heard THEN pendingExit ELSE exits
  /\ UNCHANGED <<vars, process, watcher, straggler, launcher, log, heard,
                 world, history, app>>

TakeExit ==
  /\ state \notin Ended /\ exits # "none"
  /\ exits' = "none"
  /\ pendingExit' = IF exits = "expected" THEN pendingExit ELSE exits
  /\ UNCHANGED <<vars, process, watcher, straggler, launcher, log, heard,
                 world, history, app>>

\* Mutation: the exit is reported the moment it is seen.
ExitTimerAtOnce ==
  /\ pendingExit # "none"
  /\ GameExited(~heard)
  /\ pendingExit' = "none"
  /\ Obey(heard) /\ UNCHANGED tail

\* The grace is four polls of the log: every line that was written is read.
ExitTimer ==
  /\ pendingExit # "none" /\ tail = <<>>
  /\ GameExited(~heard)
  /\ pendingExit' = "none"
  /\ Obey(heard) /\ UNCHANGED tail

\* Mutation: the cancel leaves the game to the machine.
CancelPressedQuietly ==
  /\ current /\ Cancel
  /\ UNCHANGED <<process, watching, pendingExit, launcher, log, heard, world,
                 history, app>>

\* The user's cancel comes from another goroutine and closes the game itself,
\* whatever state the machine is in: nothing happens to a machine that has
\* ended, but the game is closed all the same.
CancelPressed ==
  /\ current
  /\ \/ Cancel /\ UNCHANGED crossed
     \/ state \in Ended /\ UNCHANGED vars /\ crossed' = TRUE
  /\ closeAsked' = TRUE
  /\ UNCHANGED <<process, watching, pendingExit, closing, killing, launch, log,
                 heard, world, history, current>>

\* Run has returned, the app lets go of the job, and every OnCancel that
\* still had it is through.
Returns ==
  /\ state \in Ended /\ current /\ current' = FALSE
  /\ UNCHANGED <<vars, process, watching, pendingExit, launcher, log, heard,
                 world, history, crossed>>

-----------------------------------------------------------------------------
(* The launcher: Launch and Close, each in a goroutine of its own.         *)

loop == <<vars, pendingExit, heard, world, history, app>>

\* A line of the game that reaches the tailed file.
Writes(kind) ==
  IF audible THEN Len(tail) < MaxUnread /\ tail' = Append(tail, kind)
  ELSE tail' = tail

\* A close request lets the game say goodbye; a forced one does not.
Dies ==
  /\ rust' = "off"
  /\ Writes("user_quit") \/ tail' = tail

At(n, phase) == launch' = [launch EXCEPT ![n] = phase]

\* A copy that already runs is closed first, whoever started it.
LaunchBegins(n) ==
  /\ launch[n] = "begun"
  /\ IF rust = "off" THEN At(n, "handing") /\ UNCHANGED closing
     ELSE At(n, "closing") /\ closing' = TRUE
  /\ UNCHANGED <<loop, process, watching, closeAsked, killing, log>>

LaunchCloses(n) ==
  /\ launch[n] = "closing"
  /\ \/ rust # "off" /\ Dies /\ At(n, "waiting")
     \/ rust = "off" /\ UNCHANGED <<rust, tail>> /\ At(n, "waiting")
     \/ rust # "off" /\ UNCHANGED <<rust, tail>> /\ At(n, "failed")
  /\ UNCHANGED <<loop, owed, watching, closing, closeAsked, killing, audible>>

\* The launch waits for the process to go, and goes on if it does not.
LaunchWaits(n) ==
  /\ launch[n] = "waiting" /\ At(n, "handing")
  /\ UNCHANGED <<loop, process, watching, closing, closeAsked, killing, log>>

\* Steam gets the link; the launcher forgets the old watcher and its close.
LaunchHands(n) ==
  /\ launch[n] = "handing"
  /\ \/ At(n, "failed") /\ UNCHANGED <<owed, closing, watcher, straggler>>
     \/ /\ At(n, "ok") /\ owed' = TRUE /\ closing' = FALSE
        /\ watcher' = "waiting"
        /\ straggler' = (straggler \/ watcher = "saw_gone")
  /\ UNCHANGED <<loop, rust, exits, closeAsked, killing, log>>

\* No launch is under way and Steam owes no link: no other game will come.
NothingComing == ~owed /\ \A n \in Attempts : launch[n] \in {"none", "ok", "failed"}

\* A close of the cancelled job is over while a game is left or still to come.
Misses ==
  missed' = (missed \/ (reason = "cancelled" /\ (rust' # "off" \/ ~NothingComing)))

CloseBegins ==
  /\ closeAsked /\ closeAsked' = FALSE /\ closing' = TRUE
  /\ killing' = (killing \/ rust # "off")
  /\ UNCHANGED <<vars, pendingExit, heard, world, playerQuit, app, process,
                 watching, launch, log>>
  /\ IF rust = "off" THEN Misses ELSE UNCHANGED missed

\* Windows may refuse even the forced kill, and nobody looks at its answer.
CloseEnds ==
  /\ killing /\ killing' = FALSE
  /\ (rust # "off" /\ Dies) \/ UNCHANGED <<rust, tail>>
  /\ Misses
  /\ UNCHANGED <<vars, pendingExit, heard, world, playerQuit, app, owed,
                 watching, closing, launch, closeAsked, audible>>

-----------------------------------------------------------------------------
(* watchProcess: a look at the process list every two seconds.             *)

\* Two seconds are enough for a running loop to read what it was sent.
Idle ==
  state \in Ended \/ (exits = "none" /\ \A n \in Attempts : launch[n] \notin {"ok", "failed"})

WatcherLooks ==
  /\ Idle
  /\ \/ watcher = "waiting" /\ rust # "off" /\ watcher' = "appeared"
     \/ watcher = "appeared" /\ rust = "off" /\ watcher' = "saw_gone"
  /\ UNCHANGED <<vars, process, straggler, exits, pendingExit, launcher, log,
                 heard, world, history, app>>

\* The slot is filled without waiting: a second exit is dropped.
Sends(exit) == exits' = IF exits = "none" THEN exit ELSE exits

\* Whether we closed the game is read after the look, under the mutex.
WatcherReports ==
  /\ \/ watcher = "saw_gone" /\ watcher' = "none" /\ straggler' = straggler
     \/ straggler /\ straggler' = FALSE /\ watcher' = watcher
  /\ Sends(IF closing THEN "expected" ELSE "crash")
  /\ UNCHANGED <<loop, process, launcher, log>>

\* Nothing appeared in the startup grace and no update explains it.
WatcherGivesUp ==
  /\ Idle /\ watcher = "waiting" /\ rust = "off"
  /\ watcher' = "none" /\ Sends("never")
  /\ UNCHANGED <<loop, process, straggler, launcher, log>>

-----------------------------------------------------------------------------
(* Steam, the game, the player, the server and the relay.                  *)

GameAppears ==
  /\ owed /\ rust = "off"
  /\ rust' = "ours" /\ owed' = FALSE
  /\ UNCHANGED <<loop, watching, launcher, log>>

GameWrites ==
  /\ rust = "ours"
  /\ \E kind \in GameLines : Writes(kind)
  /\ UNCHANGED <<loop, process, watching, launcher, audible>>

GameCrashes ==
  /\ rust = "ours" /\ rust' = "off"
  /\ UNCHANGED <<loop, owed, watching, launcher, log>>

\* Remembered when the goodbye is all the loop has yet to read of a game
\* that nobody told to close and that no other is about to follow.
PlayerQuits ==
  /\ rust = "ours" /\ rust' = "off"
  /\ Writes("user_quit")
  /\ playerQuit' = (playerQuit \/ (audible /\ tail = <<>> /\ ~closeAsked /\ ~closing
                                   /\ watcher = "appeared" /\ NothingComing
                                   /\ state \in {"connecting", "queued", "in_server"}))
  /\ UNCHANGED <<vars, owed, watching, pendingExit, launcher, audible, heard,
                 world, app, missed>>

ServerRestarts ==
  /\ server0 # "restarting" /\ server0' = "restarting"
  /\ UNCHANGED <<vars, process, watching, pendingExit, launcher, log, heard,
                 feed, history, app>>

ServerOpens ==
  /\ server0 = "restarting" /\ server0' = "fresh"
  /\ UNCHANGED <<vars, process, watching, pendingExit, launcher, log, heard,
                 feed, history, app>>

\* The sweep asks the server of every active job; after the end nothing
\* polls the feed.
RelayReports ==
  /\ state \notin Ended
  /\ feed' = IF server0 = "restarting" THEN "down" ELSE server0
  /\ UNCHANGED <<vars, process, watching, pendingExit, launcher, log, heard,
                 server0, history, app>>

\* A unit of time is longer than a goroutine's start, a poll of the log, a
\* look of the watcher and the exit's grace together.  A close goes on for at
\* most CloseTime, so that one under way when a slot was found is over then; a
\* launch that waits for a process sees it gone at its next look.
Prompt ==
  /\ ~closeAsked /\ tail = <<>> /\ exits = "none" /\ pendingExit = "none"
  /\ \A n \in Attempts : launch[n] \in {"none", "closing", "waiting"}
  /\ watcher \in {"none", "waiting", "appeared"} /\ ~straggler
  /\ (watcher = "waiting") => rust = "off"
  /\ (watcher = "appeared") => rust # "off"
  /\ (rust = "off") => \A n \in Attempts : launch[n] # "waiting"
  /\ (state = "in_server" /\ held >= CloseTime) =>
       ~killing /\ \A n \in Attempts : launch[n] # "closing"

RunnerElapse ==
  /\ Prompt /\ Elapse /\ UNCHANGED runnerVars

\* The loop has returned; what it started goes on.
RunnerNext ==
  \/ RunnerStart \/ RunnerTick \/ Poll \/ ReadLine \/ TakeExit \/ ExitTimer
  \/ \E n \in Attempts : TakeLaunchAnswer(n)
  \/ CancelPressed \/ Returns
  \/ \E n \in Attempts : LaunchBegins(n) \/ LaunchCloses(n) \/ LaunchWaits(n) \/ LaunchHands(n)
  \/ CloseBegins \/ CloseEnds
  \/ WatcherLooks \/ WatcherReports \/ WatcherGivesUp
  \/ GameAppears \/ GameWrites \/ GameCrashes \/ PlayerQuits
  \/ ServerRestarts \/ ServerOpens \/ RelayReports
  \/ RunnerElapse

RunnerSpec == RunnerInit /\ [][RunnerNext]_allVars

(* Goroutines run, the log and the process list are polled, and Go's select *)
(* takes every channel that stays ready.                                    *)
RunnerFairness ==
  /\ WF_allVars(ReadLine) /\ WF_allVars(TakeExit) /\ WF_allVars(ExitTimer)
  /\ \A n \in Attempts : WF_allVars(TakeLaunchAnswer(n))
  /\ WF_allVars(WatcherLooks) /\ WF_allVars(WatcherReports)

-----------------------------------------------------------------------------
(* Correctness.                                                            *)

\* A player who closes the game at the PC is never answered with another
\* launch, although the exit can overtake the goodbye in the log.
QuitIsRespected == [][playerQuit => attempt' = attempt]_allVars

\* Nothing the job ever started closes the game of a job that was won, or is
\* about to look for one to close, unless a cancel came in after the win.
LeftAlone ==
  ~closeAsked /\ ~killing /\ \A n \in Attempts : launch[n] \notin {"begun", "closing"}

WonGameIsKept == Outcome = "won" /\ ~crossed => LeftAlone

\* Documented without the exception: the game of a job that was won is left
\* running.
WonGameIsNeverClosed == Outcome = "won" => LeftAlone

\* Once the closes of a cancelled job are over no game of the job runs, unless
\* one of them was over too early: while a launch or Steam had a game to bring,
\* or with a game that would not be killed.
CancelIsObeyed ==
  reason = "cancelled" /\ ~closeAsked /\ ~killing /\ rust = "ours" => missed

\* A job never stays in a game that died by itself: through the one-slot
\* channel, the grace period and the close flag, the exit ends what it was in.
InAGame == state \in {"connecting", "queued", "in_server"}
DiedAlone ==
  watcher = "appeared" /\ rust = "off" /\ NothingComing /\ ~closing /\ ~closeAsked

ExitIsNoticed == (InAGame /\ DiedAlone) ~> (~InAGame \/ rust # "off")

\* Documented: with "Wait for the wipe" the PC does not touch the server until
\* it has wiped.
WaitsForTheWipe ==
  waitForServerUp /\ attempt > 0 => server0 # "old" \/ gaveUpWaiting

\* Documented: a cancelled job closes the game.
CancelledLeavesNoGame ==
  reason = "cancelled" /\ ~closeAsked /\ ~killing => rust # "ours"
=============================================================================
