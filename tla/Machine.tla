------------------------------ MODULE Machine ------------------------------
(***************************************************************************)
(* One join job: the pure state machine of internal/job/state.go.          *)
(*                                                                         *)
(* Machine.Handle holds a mutex for its whole body, so one input is one    *)
(* step.  An input is an action here; what it asks of the runner is the    *)
(* value it leaves in `action'.  Absolute times are kept as the distance   *)
(* to now: `connectIn' counts down to connectAt, `held' and `waited' count *)
(* up from inServerAt and waitingSince to the length they are compared     *)
(* with, `launchAges' holds the age of each launch that is still inside    *)
(* the last minute.  Elapse lets one unit of time pass.                    *)
(***************************************************************************)
EXTENDS Integers, FiniteSets

CONSTANTS
  MaxAttempts,          \* launches before the job gives up
  MaxConnectsPerMinute, \* launches allowed in any Minute
  Minute,
  RetryBase, RetryMax,  \* first and largest backoff
  ConnectJitterMax,     \* exclusive bound of the random delay before a connect
  InServerConfirm,      \* how long a slot is held before the job is done
  WipeWaitFallback      \* how long a wipe job waits for a restart

ASSUME CountAssumption ==
  /\ MaxAttempts \in Nat \ {0}
  /\ MaxConnectsPerMinute \in Nat \ {0}

ASSUME TimeAssumption ==
  /\ Minute \in Nat \ {0}
  /\ RetryBase \in Nat \ {0}
  /\ RetryMax \in Nat \ {0}
  /\ ConnectJitterMax \in Nat \ {0}
  /\ InServerConfirm \in Nat \ {0}
  /\ WipeWaitFallback \in Nat \ {0}

SteamProblemRetries == 2

States == {"idle", "waiting_for_server_up", "launching", "connecting",
           "queued", "in_server", "retrying", "done", "failed"}

Ended == {"done", "failed"}

\* Some launched copy of the game belongs to the job.
Playing == {"launching", "connecting", "queued", "in_server"}

Actions == {"none", "launch_game", "close_game"}

\* How long the server says it has been up: nothing, at most FreshServerAge,
\* more.  Only the report that carries an age is judged by it.
Ages == {"unknown", "fresh", "old"}

LogKinds == {"connecting", "queued", "loading", "joined", "disconnected",
             "rejected", "server_full", "steam_problem", "user_quit",
             "user_left"}

Reasons == {"none", "cancelled", "gave_up", "rejected", "steam_problem",
            "player_closed", "player_left", "lost_track"}

VARIABLES
  waitForServerUp,              \* cfg.WaitForServerUp, fixed at the start
  state, attempt, reason,       \* reason: the one the last transition carried
  action,                       \* what the last input asked the runner to do
  closeRequested, sawUserQuit, loadingSeen,
  connectIn, haveTimer, held, waited, launchAges,
  serverUp, serverKnown,
  sawServerDown, gaveUpWaiting, notedFresh,
  steamProblems

\* What the end, the retry or the start of an attempt decides.
standing == <<state, attempt, reason, closeRequested, sawUserQuit,
              loadingSeen, launchAges>>
fate == <<standing, action, connectIn>>
server == <<serverUp, serverKnown>>
wipe == <<sawServerDown, gaveUpWaiting, notedFresh, waited, haveTimer>>

vars == <<waitForServerUp, fate, held, server, wipe, steamProblems>>

TypeOK ==
  /\ waitForServerUp \in BOOLEAN
  /\ state \in States
  /\ attempt \in 0 .. MaxAttempts
  /\ reason \in Reasons
  /\ action \in Actions
  /\ closeRequested \in BOOLEAN
  /\ sawUserQuit \in BOOLEAN
  /\ loadingSeen \in BOOLEAN
  /\ connectIn \in Nat
  /\ haveTimer \in BOOLEAN
  /\ held \in 0 .. InServerConfirm
  /\ waited \in 0 .. WipeWaitFallback
  /\ launchAges \in SUBSET (0 .. Minute - 1)
  /\ serverUp \in BOOLEAN
  /\ serverKnown \in BOOLEAN
  /\ sawServerDown \in BOOLEAN
  /\ gaveUpWaiting \in BOOLEAN
  /\ notedFresh \in BOOLEAN
  /\ steamProblems \in 0 .. SteamProblemRetries + 1

Init ==
  /\ waitForServerUp \in BOOLEAN
  /\ state = "idle" /\ attempt = 0 /\ reason = "none" /\ action = "none"
  /\ closeRequested = FALSE /\ sawUserQuit = FALSE /\ loadingSeen = FALSE
  /\ connectIn = 0 /\ haveTimer = FALSE /\ held = 0 /\ waited = 0
  /\ launchAges = {}
  /\ serverUp = FALSE /\ serverKnown = FALSE
  /\ sawServerDown = FALSE /\ gaveUpWaiting = FALSE /\ notedFresh = FALSE
  /\ steamProblems = 0

-----------------------------------------------------------------------------
(* What happens to an attempt: the helpers every handler ends in.          *)

\* Doubles from RetryBase with each attempt; only a doubled delay is capped.
Backoff ==
  LET doubled == RetryBase * 2 ^ (attempt - 1)
  IN  IF attempt <= 1 THEN RetryBase
      ELSE IF doubled \in RetryBase .. RetryMax - 1 THEN doubled
      ELSE RetryMax

\* Mutation: the cap is one launch late.
RateLimitedLate == Cardinality(launchAges) > MaxConnectsPerMinute

RateLimited == Cardinality(launchAges) >= MaxConnectsPerMinute

Jitter == 0 .. ConnectJitterMax - 1

Quiet == action' = "none" /\ UNCHANGED standing

MoveTo(s) ==
  /\ state' = s /\ action' = "none"
  /\ UNCHANGED <<attempt, reason, closeRequested, sawUserQuit, loadingSeen,
                 launchAges, connectIn>>

Ignore == Quiet /\ UNCHANGED connectIn

BeginLaunch ==
  /\ state' = "launching" /\ action' = "launch_game"
  /\ attempt' = attempt + 1
  /\ launchAges' = launchAges \cup {0}
  /\ closeRequested' = FALSE /\ sawUserQuit' = FALSE /\ loadingSeen' = FALSE
  /\ connectIn' = 0     \* it was due, or never set
  /\ UNCHANGED reason

\* The player's own answer, or nobody's: the game is left alone.
EndQuietly(s, r) ==
  /\ state' = s /\ reason' = r /\ action' = "none"
  /\ UNCHANGED <<attempt, closeRequested, sawUserQuit, loadingSeen,
                 launchAges, connectIn>>

Fail(r) ==
  /\ state' = "failed" /\ reason' = r /\ action' = "close_game"
  /\ closeRequested' = TRUE
  /\ UNCHANGED <<attempt, sawUserQuit, loadingSeen, launchAges, connectIn>>

\* Mutation: one launch more than the bound.
RetryOrFailOnceMore ==
  \/ attempt > MaxAttempts /\ Fail("gave_up")
  \/ /\ attempt <= MaxAttempts
     /\ state' = "retrying" /\ action' = "close_game"
     /\ connectIn' = Backoff
     /\ closeRequested' = TRUE
     /\ UNCHANGED <<attempt, reason, sawUserQuit, loadingSeen, launchAges>>

\* Mutation: the lost game is not told to close.
RetryOrFailLeavingGame ==
  \/ attempt >= MaxAttempts /\ Fail("gave_up")
  \/ /\ attempt < MaxAttempts
     /\ state' = "retrying" /\ action' = "none"
     /\ connectIn' = Backoff
     /\ UNCHANGED <<attempt, reason, closeRequested, sawUserQuit, loadingSeen,
                    launchAges>>

RetryOrFail ==
  \/ attempt >= MaxAttempts /\ Fail("gave_up")
  \/ /\ attempt < MaxAttempts
     /\ state' = "retrying" /\ action' = "close_game"
     /\ connectIn' = Backoff
     /\ closeRequested' = TRUE
     /\ UNCHANGED <<attempt, reason, sawUserQuit, loadingSeen, launchAges>>

-----------------------------------------------------------------------------
(* The wipe wait.                                                          *)

\* The steps below that leave everything but the fate of the job alone.
OnlyFate == UNCHANGED <<waitForServerUp, held, server, wipe, steamProblems>>

\* Mutation: the comparison with the end of the wait is strict.
PastWipeWaitStrict == waited > WipeWaitFallback

PastWipeWait == waited = WipeWaitFallback

\* The restart that never came: join what is there, once.
GivesUpWaiting == ~sawServerDown /\ ~gaveUpWaiting /\ PastWipeWait /\ serverUp

Start ==
  /\ state \notin Ended
  /\ CASE state = "idle" /\ waitForServerUp ->
            /\ MoveTo("waiting_for_server_up")
            /\ waited' = 0
            /\ sawServerDown' = (serverKnown /\ ~serverUp)
            /\ UNCHANGED <<haveTimer, gaveUpWaiting, notedFresh>>
       [] state = "idle" /\ ~waitForServerUp -> BeginLaunch /\ UNCHANGED wipe
       [] OTHER -> Ignore /\ UNCHANGED wipe
  /\ UNCHANGED <<waitForServerUp, held, server, steamProblems>>

\* Mutation: any server that answers arms the connect.
WaitingServerUpEager(age) ==
  /\ Quiet
  /\ notedFresh' = (notedFresh \/ (~sawServerDown /\ age = "fresh"))
  /\ IF haveTimer THEN UNCHANGED <<connectIn, haveTimer>>
     ELSE connectIn' \in Jitter /\ haveTimer' = TRUE
  /\ UNCHANGED <<sawServerDown, gaveUpWaiting, waited>>

WaitingServerUp(age) ==
  /\ Quiet
  /\ notedFresh' = (notedFresh \/ (~sawServerDown /\ age = "fresh"))
  /\ IF haveTimer \/ ~(sawServerDown \/ age = "fresh" \/ PastWipeWait)
     THEN UNCHANGED <<connectIn, haveTimer>>
     ELSE connectIn' \in Jitter /\ haveTimer' = TRUE
  /\ UNCHANGED <<sawServerDown, gaveUpWaiting, waited>>

ServerDown ==
  /\ state \notin Ended
  /\ serverUp' = FALSE /\ serverKnown' = TRUE
  /\ IF state = "waiting_for_server_up"
     THEN sawServerDown' = TRUE /\ haveTimer' = FALSE
     ELSE UNCHANGED <<sawServerDown, haveTimer>>
  /\ Ignore
  /\ UNCHANGED <<waitForServerUp, held, gaveUpWaiting, notedFresh,
                 waited, steamProblems>>

\* A rate-limited launch drops the timer; only a server report sets it again.
TickWaiting ==
  LET armed == haveTimer \/ GivesUpWaiting
  IN  /\ state = "waiting_for_server_up"
      /\ \E left \in IF GivesUpWaiting THEN Jitter ELSE {connectIn} :
           LET due == armed /\ left = 0 /\ serverUp
           IN  /\ haveTimer' = (armed /\ ~due)
               /\ IF due /\ ~RateLimited
                  THEN BeginLaunch
                  ELSE Quiet /\ connectIn' = left
      /\ gaveUpWaiting' = (gaveUpWaiting \/ GivesUpWaiting)
      /\ UNCHANGED <<sawServerDown, notedFresh, waited>>

TickRetrying ==
  LET due == connectIn = 0
      restarting == waitForServerUp /\ serverKnown /\ ~serverUp
  IN  /\ state = "retrying"
      /\ CASE due /\ restarting ->
                 /\ MoveTo("waiting_for_server_up")
                 /\ sawServerDown' = TRUE /\ waited' = 0
                 /\ UNCHANGED <<gaveUpWaiting, notedFresh, haveTimer>>
            [] due /\ ~restarting /\ ~RateLimited -> BeginLaunch /\ UNCHANGED wipe
            [] OTHER -> Ignore /\ UNCHANGED wipe

\* The slot has been held long enough to call it a win.
TickInServer ==
  /\ state = "in_server"
  /\ IF held = InServerConfirm THEN MoveTo("done") ELSE Ignore
  /\ UNCHANGED wipe

Tick ==
  /\ state \notin Ended
  /\ \/ TickWaiting
     \/ TickRetrying
     \/ TickInServer
     \/ state \in {"idle", "launching", "connecting", "queued"} /\ Ignore /\ UNCHANGED wipe
  /\ UNCHANGED <<waitForServerUp, held, server, steamProblems>>

-----------------------------------------------------------------------------
(* The server, the launcher, the log and the player.                       *)

ServerUp(age, queue) ==
  /\ state \notin Ended
  /\ serverUp' = TRUE /\ serverKnown' = TRUE
  /\ IF state = "waiting_for_server_up" THEN WaitingServerUp(age)
     ELSE /\ IF state = "connecting" /\ queue /\ ~loadingSeen
             THEN MoveTo("queued") ELSE Ignore
          /\ UNCHANGED wipe
  /\ UNCHANGED <<waitForServerUp, held, steamProblems>>

LaunchOK ==
  /\ state \notin Ended
  /\ IF state = "launching" THEN MoveTo("connecting") ELSE Ignore
  /\ OnlyFate

LaunchFailed ==
  /\ state \notin Ended
  /\ IF state = "launching" THEN RetryOrFail ELSE Ignore
  /\ OnlyFate

\* silent: not a line of the log has been read since the launch.
GameExited(silent) ==
  /\ state \notin Ended
  /\ CASE state \notin {"connecting", "queued", "in_server"} -> Ignore
       [] OTHER -> IF sawUserQuit THEN EndQuietly("done", "player_closed")
                   ELSE IF silent THEN EndQuietly("failed", "lost_track")
                   ELSE RetryOrFail
  /\ OnlyFate

Cancel ==
  /\ state \notin Ended
  /\ state' = "done" /\ reason' = "cancelled"
  /\ IF state \in Playing
     THEN action' = "close_game" /\ closeRequested' = TRUE
     ELSE action' = "none" /\ UNCHANGED closeRequested
  /\ UNCHANGED <<attempt, sawUserQuit, loadingSeen, launchAges, connectIn>>
  /\ OnlyFate

\* The game said goodbye; ours to remember only if we did not send it away.
UserQuit ==
  /\ sawUserQuit' = (sawUserQuit \/ ~closeRequested)
  /\ action' = "none"
  /\ UNCHANGED <<state, attempt, reason, closeRequested, loadingSeen,
                 launchAges, connectIn>>

Loading ==
  /\ loadingSeen' = TRUE
  /\ state' = IF state = "queued" /\ ~loadingSeen THEN "connecting" ELSE state
  /\ action' = "none"
  /\ UNCHANGED <<attempt, reason, closeRequested, sawUserQuit, launchAges,
                 connectIn>>

\* A line read while the game is on its way in.
JoiningLog(kind) ==
  CASE kind = "connecting" /\ state = "launching" -> MoveTo("connecting")
    [] kind = "queued" /\ state # "queued" -> MoveTo("queued")
    [] kind = "joined" -> MoveTo("in_server")
    [] kind = "loading" -> Loading
    [] kind \in {"server_full", "disconnected"} -> RetryOrFail
    [] kind = "rejected" -> Fail("rejected")
    [] kind = "steam_problem" /\ steamProblems < SteamProblemRetries -> RetryOrFail
    [] kind = "steam_problem" /\ steamProblems >= SteamProblemRetries ->
         Fail("steam_problem")
    [] OTHER -> Ignore

LogEvent(kind) ==
  LET joining == state \in {"launching", "connecting", "queued"}
      dropped == state = "in_server" /\ kind \in {"disconnected", "rejected"}
  IN  /\ state \notin Ended
      /\ IF kind = "user_left" /\ ~closeRequested THEN EndQuietly("done", "player_left")
         ELSE IF kind = "user_quit" THEN UserQuit
         ELSE IF dropped THEN RetryOrFail
         ELSE IF joining THEN JoiningLog(kind)
         ELSE Ignore
      /\ held' = IF joining /\ kind = "joined" THEN 0 ELSE held
      /\ steamProblems' = IF joining /\ kind = "steam_problem"
                          THEN steamProblems + 1 ELSE steamProblems
      /\ UNCHANGED <<waitForServerUp, server, wipe>>

\* One unit of time passes, for a job that can still use it.
Elapse ==
  /\ state \notin Ended
  /\ action' = "none"
  /\ connectIn' = IF connectIn = 0 THEN 0 ELSE connectIn - 1
  /\ held' = IF state = "in_server" /\ held < InServerConfirm THEN held + 1 ELSE held
  /\ waited' = IF state = "waiting_for_server_up" /\ waited < WipeWaitFallback
               THEN waited + 1 ELSE waited
  /\ launchAges' = {age + 1 : age \in launchAges} \ {Minute}
  /\ UNCHANGED <<waitForServerUp, state, attempt, reason, closeRequested,
                 sawUserQuit, loadingSeen, haveTimer, server, sawServerDown,
                 gaveUpWaiting, notedFresh, steamProblems>>

\* Nothing moves a finished job.
Finished == state \in Ended /\ UNCHANGED vars

Next ==
  \/ Start \/ Cancel \/ Tick \/ Elapse \/ Finished
  \/ ServerDown
  \/ \E age \in Ages, queue \in BOOLEAN : ServerUp(age, queue)
  \/ LaunchOK \/ LaunchFailed
  \/ \E silent \in BOOLEAN : GameExited(silent)
  \/ \E kind \in LogKinds : LogEvent(kind)

Spec == Init /\ [][Next]_vars

(* The runner's ticker and the clock never stop.  It also repeats the last *)
(* word on the server for as long as the job runs; the report that helps   *)
(* the job least is one that says the server is old.                       *)
FairSpec == Spec /\ WF_vars(Tick) /\ WF_vars(Elapse)
PolledSpec == FairSpec /\ WF_vars(serverUp /\ ServerUp("old", FALSE))

-----------------------------------------------------------------------------
(* Correctness.                                                            *)

\* A flapping server never makes the job launch more than the cap allows
\* in any Minute, whichever of the three ways a launch comes about.
RateCap == Cardinality(launchAges) <= MaxConnectsPerMinute

\* A wipe job launches only into a server that has restarted: it was seen
\* down, it said it is fresh, or the wait for a restart ran out.
WipeLaunchExplained ==
  waitForServerUp /\ attempt > 0 => sawServerDown \/ notedFresh \/ gaveUpWaiting

\* A wipe wait does not outlast a server that stays up: the restart was
\* seen, the server is fresh or the fallback fires, and a rate-limited
\* launch is armed again.
WipeWaitEnds == []<>~(state = "waiting_for_server_up" /\ serverUp)

\* The nine states implement the promise of the job: one game at a time, a
\* bounded number of launches, one end, a win only for a slot that was held
\* without a break, and no backoff that lasts for ever.
Stage ==
  CASE state \in {"idle", "waiting_for_server_up"} -> "pending"
    [] state \in {"launching", "connecting", "queued"} -> "playing"
    [] state = "in_server" -> "holding"
    [] state = "retrying" -> "backing_off"
    [] state \in Ended -> "ended"

Outcome ==
  IF state \notin Ended THEN "open"
  ELSE IF state = "done" /\ reason = "none" THEN "won" ELSE "lost"

Promise == INSTANCE JobPromise
  WITH HoldTime <- InServerConfirm, stage <- Stage, launches <- attempt,
       order <- action, hold <- IF state = "in_server" THEN held ELSE 0,
       outcome <- Outcome

KeepsPromise == Promise!Spec
=============================================================================
