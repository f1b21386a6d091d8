--------------------------- MODULE MachineProofs ---------------------------
(***************************************************************************)
(* Safety of the join job for every choice of its bounds and delays.       *)
(***************************************************************************)
EXTENDS Machine, FiniteSetTheorems, TLAPS

-----------------------------------------------------------------------------
(* The inductive invariant.                                                *)

\* A job that may still launch has a launch left.
Budget ==
  /\ state \in {"idle", "waiting_for_server_up", "retrying"} => attempt < MaxAttempts
  /\ state \in Playing \cup {"retrying"} => attempt > 0
  /\ state \notin Ended => steamProblems <= SteamProblemRetries

\* Nothing has happened to a job that has not been started.
Untouched == state = "idle" => attempt = 0 /\ launchAges = {} /\ ~haveTimer

\* A wait is a wipe wait, and an armed one has its explanation.
Armed ==
  /\ state = "waiting_for_server_up" => waitForServerUp
  /\ state = "waiting_for_server_up" /\ haveTimer =>
       sawServerDown \/ notedFresh \/ PastWipeWait

IInv ==
  TypeOK /\ Budget /\ Untouched /\ Armed /\ RateCap /\ WipeLaunchExplained

-----------------------------------------------------------------------------
(* The set of recent launches.                                             *)

\* A launch adds at most one to the recent launches.
LEMMA AddLaunch ==
  ASSUME NEW S \in SUBSET (0 .. Minute - 1)
  PROVE  /\ Cardinality(S \cup {0}) <= Cardinality(S) + 1
         /\ Cardinality(S) \in Nat
         /\ Cardinality(S \cup {0}) \in Nat
<1>1. IsFiniteSet(S)
  <2>1. 0 \in Int /\ Minute - 1 \in Int
    BY TimeAssumption
  <2>2. IsFiniteSet(0 .. Minute - 1)
    BY <2>1, FS_Interval
  <2> QED BY <2>2, FS_Subset
<1>2. Cardinality(S \cup {0}) = IF 0 \in S THEN Cardinality(S) ELSE Cardinality(S) + 1
  BY <1>1, FS_AddElement
<1>3. Cardinality(S) \in Nat /\ Cardinality(S \cup {0}) \in Nat
  BY <1>1, FS_AddElement, FS_CardinalityType
<1> QED BY <1>2, <1>3

\* Ageing by one unit adds no launch.
LEMMA AgeLaunches ==
  ASSUME NEW S \in SUBSET (0 .. Minute - 1)
  PROVE  LET T == {age + 1 : age \in S} \ {Minute}
         IN  /\ T \in SUBSET (0 .. Minute - 1)
             /\ Cardinality(T) <= Cardinality(S)
<1> DEFINE f == [age \in S |-> age + 1]
           U == {age + 1 : age \in S}
           T == U \ {Minute}
<1>1. IsFiniteSet(S)
  <2>1. 0 \in Int /\ Minute - 1 \in Int
    BY TimeAssumption
  <2>2. IsFiniteSet(0 .. Minute - 1)
    BY <2>1, FS_Interval
  <2> QED BY <2>2, FS_Subset
<1>2. f \in Surjection(S, U)
  BY DEF Surjection
<1>3. IsFiniteSet(U) /\ Cardinality(U) <= Cardinality(S)
  BY <1>1, <1>2, FS_Surjection
<1>4. IsFiniteSet(T) /\ Cardinality(T) <= Cardinality(U)
  BY <1>3, FS_Subset
<1>5. T \in SUBSET (0 .. Minute - 1)
  BY TimeAssumption
<1>6. Cardinality(S) \in Nat /\ Cardinality(U) \in Nat /\ Cardinality(T) \in Nat
  BY <1>1, <1>3, <1>4, FS_CardinalityType
<1> QED BY <1>3, <1>4, <1>5, <1>6

\* A backoff is a length of time.
LEMMA BackoffType == Backoff \in Nat
BY TimeAssumption DEF Backoff

-----------------------------------------------------------------------------
(* The helpers.                                                            *)

\* A launch keeps the invariant if one is left and the cap is not reached.
LEMMA LaunchStep ==
  ASSUME IInv, BeginLaunch, attempt < MaxAttempts, ~RateLimited,
         waitForServerUp => sawServerDown' \/ notedFresh' \/ gaveUpWaiting',
         UNCHANGED <<waitForServerUp, held, server, steamProblems, waited>>,
         haveTimer' \in BOOLEAN, sawServerDown' \in BOOLEAN,
         gaveUpWaiting' \in BOOLEAN, notedFresh' \in BOOLEAN,
         state \notin Ended
  PROVE  IInv'
<1> USE DEF BeginLaunch, IInv
<1>1. launchAges \in SUBSET (0 .. Minute - 1) /\ launchAges' = launchAges \cup {0}
  BY DEF TypeOK
<1>2. RateCap'
  <2>1. Cardinality(launchAges) < MaxConnectsPerMinute
    BY <1>1, AddLaunch, CountAssumption DEF RateLimited
  <2>2. Cardinality(launchAges \cup {0}) <= Cardinality(launchAges) + 1
        /\ Cardinality(launchAges) \in Nat
    BY <1>1, AddLaunch
  <2>3. Cardinality(launchAges \cup {0}) \in Nat
    BY <1>1, AddLaunch
  <2> QED BY <1>1, <2>1, <2>2, <2>3, CountAssumption DEF RateCap
<1>3. launchAges' \in SUBSET (0 .. Minute - 1)
  BY <1>1, TimeAssumption
<1>4. TypeOK'
  <2>1. attempt' \in 0 .. MaxAttempts
    BY CountAssumption DEF TypeOK
  <2>2. UNCHANGED <<waitForServerUp, reason, held, waited, serverUp, serverKnown,
                    steamProblems>>
    BY DEF server
  <2>3. state' \in States /\ action' \in Actions /\ connectIn' \in Nat
    BY DEF States, Actions
  <2>4. closeRequested' \in BOOLEAN /\ sawUserQuit' \in BOOLEAN /\ loadingSeen' \in BOOLEAN
    OBVIOUS
  <2> QED BY <1>3, <2>1, <2>2, <2>3, <2>4 DEF TypeOK
<1>5. Budget'
  BY CountAssumption DEF TypeOK, Budget, Playing, Ended
<1>6. Untouched' /\ Armed' /\ WipeLaunchExplained'
  BY DEF Untouched, Armed, WipeLaunchExplained, TypeOK
<1> QED BY <1>2, <1>4, <1>5, <1>6

\* A step that launches nothing keeps the cap and the explanation.
LEMMA QuietStep ==
  ASSUME IInv, TypeOK', Budget', Armed',
         UNCHANGED <<attempt, launchAges, waitForServerUp>>,
         state' = "idle" => state = "idle" /\ haveTimer' = haveTimer,
         sawServerDown => sawServerDown', notedFresh => notedFresh',
         gaveUpWaiting => gaveUpWaiting'
  PROVE  IInv'
BY DEF IInv, Untouched, RateCap, WipeLaunchExplained

\* A lost attempt, in one of the states that have one.
LEMMA RetryStep ==
  ASSUME IInv, RetryOrFail, state \in Playing, steamProblems' \in {steamProblems, steamProblems + 1},
         steamProblems' <= SteamProblemRetries,
         UNCHANGED <<waitForServerUp, held, server, wipe>>
  PROVE  IInv'
<1> USE DEF IInv
<1>1. /\ state' \in {"failed", "retrying"} /\ action' = "close_game"
      /\ closeRequested' = TRUE /\ reason' \in {reason, "gave_up"}
      /\ connectIn' \in {connectIn, Backoff}
      /\ state' = "retrying" => attempt < MaxAttempts
      /\ UNCHANGED <<attempt, sawUserQuit, loadingSeen, launchAges>>
  BY CountAssumption DEF RetryOrFail, Fail, TypeOK
<1>2. UNCHANGED <<waitForServerUp, held, waited, haveTimer, serverUp, serverKnown,
                  sawServerDown, gaveUpWaiting, notedFresh>>
  BY DEF server, wipe
<1>3. TypeOK'
  <2>1. state' \in States /\ action' \in Actions /\ reason' \in Reasons
    BY <1>1 DEF TypeOK, States, Actions, Reasons
  <2>2. connectIn' \in Nat
    BY <1>1, BackoffType DEF TypeOK
  <2>3. steamProblems' \in 0 .. SteamProblemRetries + 1
    BY DEF TypeOK, SteamProblemRetries
  <2> QED BY <1>1, <1>2, <2>1, <2>2, <2>3 DEF TypeOK
<1>4. Budget'
  BY <1>1 DEF Budget, Playing, Ended
<1>5. Armed'
  BY <1>1 DEF Armed
<1> QED BY <1>1, <1>2, <1>3, <1>4, <1>5, QuietStep

\* An end or a move of the job that launches nothing and touches no timer.
LEMMA MoveStep ==
  ASSUME IInv, state \notin Ended, state' \in States,
         reason' \in Reasons, action' \in Actions,
         closeRequested' \in BOOLEAN, sawUserQuit' \in BOOLEAN, loadingSeen' \in BOOLEAN,
         held' \in 0 .. InServerConfirm,
         steamProblems' \in 0 .. SteamProblemRetries + 1,
         state' \in Ended \/ steamProblems' = steamProblems,
         state' \in Ended \/ state' = state \/ (state \in Playing /\ state' \in Playing),
         serverUp' \in BOOLEAN, serverKnown' \in BOOLEAN,
         UNCHANGED <<attempt, launchAges, connectIn, waitForServerUp, wipe>>
  PROVE  IInv'
<1> USE DEF IInv
<1>1. UNCHANGED <<waited, haveTimer, sawServerDown, gaveUpWaiting, notedFresh>>
  BY DEF wipe
<1>2. TypeOK'
  BY <1>1 DEF TypeOK
<1>3. Budget'
  BY DEF Budget, Playing, Ended
<1>4. Armed'
  BY <1>1 DEF Armed, Ended, Playing, PastWipeWait
<1>5. state' = "idle" => state = "idle"
  BY DEF Playing, Ended
<1> QED BY <1>1, <1>2, <1>3, <1>4, <1>5, QuietStep

\* A transition that carries no reason, or none at all.
LEMMA MoveToStep ==
  ASSUME IInv, state \notin Ended, NEW s \in States, MoveTo(s),
         s = state \/ s \in Ended \/ (state \in Playing /\ s \in Playing),
         held' \in 0 .. InServerConfirm,
         serverUp' \in BOOLEAN, serverKnown' \in BOOLEAN,
         UNCHANGED <<steamProblems, waitForServerUp, wipe>>
  PROVE  IInv'
<1>1. TypeOK
  BY DEF IInv
<1>2. /\ state' = s /\ action' = "none"
      /\ UNCHANGED <<attempt, reason, closeRequested, sawUserQuit, loadingSeen,
                     launchAges, connectIn>>
  BY DEF MoveTo
<1>3. action' \in Actions
  BY <1>2 DEF Actions
<1>4. /\ reason' \in Reasons
      /\ closeRequested' \in BOOLEAN /\ sawUserQuit' \in BOOLEAN
      /\ loadingSeen' \in BOOLEAN
      /\ steamProblems' \in 0 .. SteamProblemRetries + 1
  BY <1>1, <1>2 DEF TypeOK
<1> QED BY <1>2, <1>3, <1>4, MoveStep

\* Doing nothing is moving to where the job is.
LEMMA IgnoreIsMove == ASSUME Ignore PROVE MoveTo(state)
BY DEF Ignore, Quiet, MoveTo, standing

-----------------------------------------------------------------------------
(* One lemma per input.                                                    *)

\* Every job begins in the invariant.
LEMMA InitIInv == Init => IInv
<1> SUFFICES ASSUME Init PROVE IInv
  OBVIOUS
<1>1. TypeOK
  <2>1. state \in States /\ reason \in Reasons /\ action \in Actions
    BY DEF Init, States, Reasons, Actions
  <2>2. /\ attempt \in 0 .. MaxAttempts /\ connectIn \in Nat
        /\ held \in 0 .. InServerConfirm /\ waited \in 0 .. WipeWaitFallback
        /\ steamProblems \in 0 .. SteamProblemRetries + 1
    BY CountAssumption, TimeAssumption DEF Init, SteamProblemRetries
  <2>3. launchAges \in SUBSET (0 .. Minute - 1)
    BY DEF Init
  <2> QED BY <2>1, <2>2, <2>3 DEF Init, TypeOK
<1>2. Cardinality(launchAges) = 0
  BY FS_EmptySet DEF Init
<1> QED
  BY <1>1, <1>2, CountAssumption
  DEF Init, IInv, Budget, Untouched, Armed, RateCap, WipeLaunchExplained, Playing,
      SteamProblemRetries

\* Cancel.
LEMMA CancelStep == ASSUME IInv, Cancel PROVE IInv'
<1>1. TypeOK
  BY DEF IInv
<1>2. state \notin Ended /\ state' = "done" /\ reason' = "cancelled"
  BY DEF Cancel
<1>3. action' \in Actions /\ closeRequested' \in BOOLEAN
  BY <1>1 DEF Cancel, TypeOK, Actions
<1>4. UNCHANGED <<attempt, sawUserQuit, loadingSeen, launchAges, connectIn,
                  waitForServerUp, held, serverUp, serverKnown, wipe, steamProblems>>
  BY DEF Cancel, OnlyFate, server
<1>5. state' \in States /\ state' \in Ended /\ reason' \in Reasons
  BY <1>2 DEF States, Ended, Reasons
<1>6. /\ sawUserQuit' \in BOOLEAN /\ loadingSeen' \in BOOLEAN
      /\ held' \in 0 .. InServerConfirm
      /\ steamProblems' \in 0 .. SteamProblemRetries + 1
      /\ serverUp' \in BOOLEAN /\ serverKnown' \in BOOLEAN
  BY <1>1, <1>4 DEF TypeOK
<1> QED BY <1>2, <1>3, <1>4, <1>5, <1>6, MoveStep

\* The launcher's answer.
LEMMA LaunchAnswerStep == ASSUME IInv, LaunchOK \/ LaunchFailed PROVE IInv'
<1>1. TypeOK
  BY DEF IInv
<1>2. state \notin Ended /\ OnlyFate
  BY DEF LaunchOK, LaunchFailed
<1>3. UNCHANGED <<waitForServerUp, held, server, serverUp, serverKnown, wipe, steamProblems>>
  BY <1>2 DEF OnlyFate, server
<1>4. steamProblems <= SteamProblemRetries /\ steamProblems' = steamProblems
  BY <1>2, <1>3 DEF IInv, Budget
<1>5. CASE state = "launching" /\ RetryOrFail
  BY <1>3, <1>4, <1>5, RetryStep DEF Playing
<1>6. CASE ~(state = "launching" /\ RetryOrFail)
  <2>1. Ignore \/ (state = "launching" /\ MoveTo("connecting"))
    BY <1>6 DEF LaunchOK, LaunchFailed
  <2>2. held' \in 0 .. InServerConfirm /\ serverUp' \in BOOLEAN /\ serverKnown' \in BOOLEAN
    BY <1>1, <1>3 DEF TypeOK
  <2>3. CASE Ignore
    BY <1>1, <1>2, <1>3, <2>2, <2>3, IgnoreIsMove, MoveToStep DEF TypeOK
  <2>4. CASE state = "launching" /\ MoveTo("connecting")
    BY <1>2, <1>3, <2>2, <2>4, MoveToStep DEF States, Playing
  <2> QED BY <2>1, <2>3, <2>4
<1> QED BY <1>5, <1>6

\* The server goes down.
LEMMA ServerDownStep == ASSUME IInv, ServerDown PROVE IInv'
<1>1. TypeOK /\ state \notin Ended
  BY DEF IInv, ServerDown
<1>2. /\ UNCHANGED <<waitForServerUp, held, gaveUpWaiting, notedFresh, waited, steamProblems>>
      /\ UNCHANGED <<state, attempt, reason, closeRequested, sawUserQuit, loadingSeen,
                     launchAges, connectIn>>
      /\ action' = "none" /\ serverUp' = FALSE /\ serverKnown' = TRUE
  BY DEF ServerDown, Ignore, Quiet, standing
<1>3. /\ sawServerDown' \in BOOLEAN /\ haveTimer' \in BOOLEAN
      /\ sawServerDown => sawServerDown'
      /\ haveTimer' => haveTimer
      /\ state # "waiting_for_server_up" => UNCHANGED <<haveTimer, sawServerDown>>
  BY <1>1 DEF ServerDown, TypeOK
<1>4. TypeOK'
  BY <1>1, <1>2, <1>3 DEF TypeOK, Actions
<1>5. Budget' /\ Armed'
  BY <1>2, <1>3 DEF IInv, Budget, Armed, PastWipeWait
<1> QED BY <1>2, <1>3, <1>4, <1>5, QuietStep

\* The server answers.
LEMMA ServerUpStep ==
  ASSUME IInv, NEW age \in Ages, NEW queue \in BOOLEAN, ServerUp(age, queue)
  PROVE  IInv'
<1>1. TypeOK /\ state \notin Ended
  BY DEF IInv, ServerUp
<1>2. /\ UNCHANGED <<waitForServerUp, held, steamProblems>>
      /\ serverUp' = TRUE /\ serverKnown' = TRUE
  BY DEF ServerUp
<1>3. held' \in 0 .. InServerConfirm
  BY <1>1, <1>2 DEF TypeOK
<1>4. CASE state = "waiting_for_server_up"
  <2>1. WaitingServerUp(age)
    BY <1>4 DEF ServerUp
  <2>2. /\ action' = "none"
        /\ UNCHANGED <<state, attempt, reason, closeRequested, sawUserQuit, loadingSeen,
                       launchAges, sawServerDown, gaveUpWaiting, waited>>
        /\ notedFresh' = (notedFresh \/ (~sawServerDown /\ age = "fresh"))
    BY <2>1 DEF WaitingServerUp, Quiet, standing
  <2>3. connectIn' \in Nat /\ haveTimer' \in BOOLEAN
    <3>1. UNCHANGED <<connectIn, haveTimer>> \/ (connectIn' \in Jitter /\ haveTimer' = TRUE)
      BY <2>1 DEF WaitingServerUp
    <3>2. connectIn \in Nat /\ haveTimer \in BOOLEAN
      BY <1>1 DEF TypeOK
    <3>3. Jitter \subseteq Nat
      BY TimeAssumption DEF Jitter
    <3> QED BY <3>1, <3>2, <3>3
  <2>4. TypeOK'
    BY <1>1, <1>2, <2>2, <2>3 DEF TypeOK, Actions
  <2>5. Budget'
    BY <1>2, <2>2 DEF IInv, Budget
  <2>6. haveTimer' => haveTimer \/ sawServerDown \/ age = "fresh" \/ PastWipeWait
    BY <2>1 DEF WaitingServerUp
  <2>7. Armed'
    BY <1>2, <1>4, <2>2, <2>6 DEF IInv, Armed, PastWipeWait
  <2> QED BY <1>2, <1>4, <2>2, <2>4, <2>5, <2>7, QuietStep
<1>5. CASE state # "waiting_for_server_up"
  <2>1. wipe' = wipe /\ (Ignore \/ (state = "connecting" /\ MoveTo("queued")))
    BY <1>5 DEF ServerUp
  <2>2. CASE Ignore
    BY <1>1, <1>2, <1>3, <2>1, <2>2, IgnoreIsMove, MoveToStep DEF TypeOK
  <2>3. CASE state = "connecting" /\ MoveTo("queued")
    BY <1>1, <1>2, <1>3, <2>1, <2>3, MoveToStep DEF States, Playing
  <2> QED BY <2>1, <2>2, <2>3
<1> QED BY <1>4, <1>5

\* An end that leaves the game alone.
LEMMA QuietEndStep ==
  ASSUME IInv, state \notin Ended, NEW s \in Ended, NEW r \in Reasons, EndQuietly(s, r),
         UNCHANGED <<waitForServerUp, held, server, wipe, steamProblems>>
  PROVE  IInv'
<1>1. TypeOK
  BY DEF IInv
<1>2. /\ state' = s /\ reason' = r /\ action' = "none"
      /\ UNCHANGED <<attempt, closeRequested, sawUserQuit, loadingSeen,
                     launchAges, connectIn, serverUp, serverKnown>>
  BY DEF EndQuietly, server
<1>3. state' \in States /\ action' \in Actions
  BY <1>2 DEF States, Ended, Actions
<1>4. /\ closeRequested' \in BOOLEAN /\ sawUserQuit' \in BOOLEAN
      /\ loadingSeen' \in BOOLEAN /\ held' \in 0 .. InServerConfirm
      /\ serverUp' \in BOOLEAN /\ serverKnown' \in BOOLEAN
      /\ steamProblems' \in 0 .. SteamProblemRetries + 1
  BY <1>1, <1>2 DEF TypeOK
<1> QED BY <1>2, <1>3, <1>4, MoveStep

\* A failure that closes the game.
LEMMA FailStep ==
  ASSUME IInv, state \notin Ended, NEW r \in Reasons, Fail(r),
         held' \in 0 .. InServerConfirm,
         steamProblems' \in 0 .. SteamProblemRetries + 1,
         UNCHANGED <<waitForServerUp, server, wipe>>
  PROVE  IInv'
<1>1. TypeOK
  BY DEF IInv
<1>2. /\ state' = "failed" /\ reason' = r /\ action' = "close_game"
      /\ closeRequested' = TRUE
      /\ UNCHANGED <<attempt, sawUserQuit, loadingSeen, launchAges, connectIn,
                     serverUp, serverKnown>>
  BY DEF Fail, server
<1>3. state' \in States /\ state' \in Ended /\ action' \in Actions
  BY <1>2 DEF States, Ended, Actions
<1>4. /\ sawUserQuit' \in BOOLEAN /\ loadingSeen' \in BOOLEAN
      /\ serverUp' \in BOOLEAN /\ serverKnown' \in BOOLEAN
  BY <1>1, <1>2 DEF TypeOK
<1> QED BY <1>2, <1>3, <1>4, MoveStep

\* The game is gone.
LEMMA GameExitedStep ==
  ASSUME IInv, NEW silent \in BOOLEAN, GameExited(silent) PROVE IInv'
<1>1. TypeOK /\ state \notin Ended /\ OnlyFate
  BY DEF IInv, GameExited
<1>2. UNCHANGED <<waitForServerUp, held, server, serverUp, serverKnown, wipe, steamProblems>>
  BY <1>1 DEF OnlyFate, server
<1>3. /\ held' \in 0 .. InServerConfirm
      /\ serverUp' \in BOOLEAN /\ serverKnown' \in BOOLEAN
      /\ steamProblems' \in 0 .. SteamProblemRetries + 1
      /\ steamProblems' <= SteamProblemRetries
  BY <1>1, <1>2 DEF TypeOK, IInv, Budget
<1>4. CASE state \notin {"connecting", "queued", "in_server"}
  <2>1. Ignore
    BY <1>4 DEF GameExited
  <2> QED BY <1>1, <1>2, <1>3, <2>1, IgnoreIsMove, MoveToStep DEF TypeOK
<1>5. CASE state \in {"connecting", "queued", "in_server"}
  <2>1. \/ EndQuietly("done", "player_closed")
        \/ EndQuietly("failed", "lost_track")
        \/ RetryOrFail
    BY <1>5 DEF GameExited
  <2>2. CASE RetryOrFail
    BY <1>2, <1>3, <1>5, <2>2, RetryStep DEF Playing
  <2>3. ASSUME NEW s \in Ended, NEW r \in Reasons, EndQuietly(s, r) PROVE IInv'
    BY <1>1, <1>2, <1>3, <2>3, QuietEndStep
  <2> QED BY <2>1, <2>2, <2>3 DEF Ended, Reasons
<1> QED BY <1>4, <1>5

\* A line read on the way in.
LEMMA JoiningStep ==
  ASSUME IInv, NEW kind \in LogKinds, JoiningLog(kind),
         state \in {"launching", "connecting", "queued"},
         steamProblems' = IF kind = "steam_problem" THEN steamProblems + 1 ELSE steamProblems,
         held' \in 0 .. InServerConfirm,
         kind # "joined" => held' = held,
         UNCHANGED <<waitForServerUp, server, wipe>>
  PROVE  IInv'
<1>1. TypeOK /\ state \notin Ended /\ state \in Playing
  BY DEF IInv, Ended, Playing
<1>2. /\ serverUp' \in BOOLEAN /\ serverKnown' \in BOOLEAN
      /\ steamProblems <= SteamProblemRetries
      /\ steamProblems' \in 0 .. SteamProblemRetries + 1
  BY <1>1 DEF TypeOK, IInv, Budget, SteamProblemRetries, server
<1>3. CASE kind = "steam_problem"
  <2>1. \/ RetryOrFail /\ steamProblems < SteamProblemRetries
        \/ Fail("steam_problem")
    BY <1>1, <1>2, <1>3 DEF JoiningLog, TypeOK, SteamProblemRetries
  <2>2. CASE RetryOrFail /\ steamProblems < SteamProblemRetries
    BY <1>1, <1>2, <1>3, <2>2, RetryStep DEF TypeOK, SteamProblemRetries
  <2>3. CASE Fail("steam_problem")
    BY <1>1, <1>2, <2>3, FailStep DEF Reasons
  <2> QED BY <2>1, <2>2, <2>3
<1>4. CASE kind \in {"server_full", "disconnected"}
  BY <1>1, <1>2, <1>4, RetryStep DEF JoiningLog
<1>5. CASE kind = "rejected"
  BY <1>1, <1>2, <1>5, FailStep DEF JoiningLog, Reasons
<1>6. CASE kind = "loading"
  <2>1. /\ loadingSeen' = TRUE /\ action' = "none"
        /\ state' = state \/ (state = "queued" /\ state' = "connecting")
        /\ UNCHANGED <<attempt, reason, closeRequested, sawUserQuit, launchAges,
                       connectIn>>
    BY <1>6 DEF JoiningLog, Loading
  <2>2. /\ state' \in States /\ action' \in Actions
        /\ state' = state \/ (state \in Playing /\ state' \in Playing)
    BY <1>1, <2>1 DEF TypeOK, States, Actions, Playing
  <2>3. /\ reason' \in Reasons
        /\ closeRequested' \in BOOLEAN /\ sawUserQuit' \in BOOLEAN
        /\ steamProblems' = steamProblems
    BY <1>1, <1>6, <2>1 DEF TypeOK
  <2> QED BY <1>1, <1>2, <2>1, <2>2, <2>3, MoveStep
<1>7. CASE kind \notin {"steam_problem", "server_full", "disconnected", "rejected", "loading"}
  <2>1. Ignore \/ \E s \in {"connecting", "queued", "in_server"} : MoveTo(s)
    BY <1>7 DEF JoiningLog
  <2>2. CASE Ignore
    BY <1>1, <1>2, <1>7, <2>2, IgnoreIsMove, MoveToStep DEF TypeOK
  <2>3. ASSUME NEW s \in {"connecting", "queued", "in_server"}, MoveTo(s) PROVE IInv'
    BY <1>1, <1>2, <1>7, <2>3, MoveToStep DEF States, Playing
  <2> QED BY <2>1, <2>2, <2>3
<1> QED BY <1>3, <1>4, <1>5, <1>6, <1>7

\* A line of the game's log.
LEMMA LogEventStep ==
  ASSUME IInv, NEW kind \in LogKinds, LogEvent(kind) PROVE IInv'
<1> DEFINE joining == state \in {"launching", "connecting", "queued"}
           dropped == state = "in_server" /\ kind \in {"disconnected", "rejected"}
<1>1. TypeOK /\ state \notin Ended
  BY DEF IInv, LogEvent
<1>2. /\ UNCHANGED <<waitForServerUp, server, serverUp, serverKnown, wipe>>
      /\ held' = IF joining /\ kind = "joined" THEN 0 ELSE held
      /\ steamProblems' = IF joining /\ kind = "steam_problem"
                          THEN steamProblems + 1 ELSE steamProblems
  BY DEF LogEvent, server
<1>3. /\ held' \in 0 .. InServerConfirm
      /\ serverUp' \in BOOLEAN /\ serverKnown' \in BOOLEAN
      /\ steamProblems <= SteamProblemRetries
      /\ steamProblems' \in 0 .. SteamProblemRetries + 1
  BY <1>1, <1>2, TimeAssumption DEF TypeOK, IInv, Budget, SteamProblemRetries
<1>4. \/ EndQuietly("done", "player_left") /\ kind = "user_left"
      \/ UserQuit /\ kind = "user_quit"
      \/ RetryOrFail /\ dropped
      \/ JoiningLog(kind) /\ joining
      \/ Ignore /\ ~joining
  BY DEF LogEvent
<1>5. CASE EndQuietly("done", "player_left") /\ kind = "user_left"
  <2>1. steamProblems' = steamProblems /\ held' = held
    BY <1>2, <1>5
  <2> QED
    BY <1>1, <1>2, <1>3, <1>5, <2>1, QuietEndStep DEF Ended, Reasons
<1>6. CASE UserQuit /\ kind = "user_quit"
  <2>1. steamProblems' = steamProblems
    BY <1>2, <1>6
  <2>2. /\ sawUserQuit' \in BOOLEAN /\ action' \in Actions
        /\ UNCHANGED <<state, attempt, reason, closeRequested, loadingSeen,
                       launchAges, connectIn>>
    BY <1>1, <1>6 DEF UserQuit, TypeOK, Actions
  <2>3. /\ state' \in States /\ reason' \in Reasons
        /\ closeRequested' \in BOOLEAN /\ loadingSeen' \in BOOLEAN
    BY <1>1, <2>2 DEF TypeOK
  <2> QED BY <1>1, <1>2, <1>3, <2>1, <2>2, <2>3, MoveStep
<1>7. CASE RetryOrFail /\ dropped
  <2>1. steamProblems' = steamProblems /\ held' = held
    BY <1>2, <1>7
  <2> QED BY <1>2, <1>3, <1>7, <2>1, RetryStep DEF Playing
<1>8. CASE Ignore /\ ~joining
  BY <1>1, <1>2, <1>3, <1>8, IgnoreIsMove, MoveToStep DEF TypeOK
<1>9. CASE JoiningLog(kind) /\ joining
  BY <1>1, <1>2, <1>3, <1>9, JoiningStep
<1> QED BY <1>4, <1>5, <1>6, <1>7, <1>8, <1>9

\* The player presses join, or a schedule fires.
LEMMA StartStep == ASSUME IInv, Start PROVE IInv'
<1>1. /\ TypeOK /\ state \notin Ended
      /\ UNCHANGED <<waitForServerUp, held, server, serverUp, serverKnown, steamProblems>>
  BY DEF IInv, Start, server
<1>2. held' \in 0 .. InServerConfirm /\ serverUp' \in BOOLEAN /\ serverKnown' \in BOOLEAN
  BY <1>1 DEF TypeOK
<1>3. CASE state # "idle"
  <2>1. Ignore /\ wipe' = wipe
    BY <1>3 DEF Start
  <2> QED BY <1>1, <1>2, <2>1, IgnoreIsMove, MoveToStep DEF TypeOK
<1>4. CASE state = "idle" /\ ~waitForServerUp
  <2>1. BeginLaunch /\ wipe' = wipe
    BY <1>4 DEF Start
  <2>2. UNCHANGED <<waited, haveTimer, sawServerDown, gaveUpWaiting, notedFresh>>
    BY <2>1 DEF wipe
  <2>3. /\ haveTimer' \in BOOLEAN /\ sawServerDown' \in BOOLEAN
        /\ gaveUpWaiting' \in BOOLEAN /\ notedFresh' \in BOOLEAN
    BY <1>1, <2>2 DEF TypeOK
  <2>4. ~RateLimited
    BY <1>4, FS_EmptySet, CountAssumption DEF IInv, Untouched, RateLimited
  <2>5. attempt < MaxAttempts
    BY <1>4 DEF IInv, Budget
  <2> QED BY <1>1, <1>4, <2>1, <2>2, <2>3, <2>4, <2>5, LaunchStep
<1>5. CASE state = "idle" /\ waitForServerUp
  <2>1. /\ MoveTo("waiting_for_server_up") /\ waited' = 0
        /\ sawServerDown' = (serverKnown /\ ~serverUp)
        /\ UNCHANGED <<haveTimer, gaveUpWaiting, notedFresh>>
    BY <1>5 DEF Start
  <2>2. /\ state' = "waiting_for_server_up" /\ action' = "none"
        /\ UNCHANGED <<attempt, reason, closeRequested, sawUserQuit, loadingSeen,
                       launchAges, connectIn>>
    BY <2>1 DEF MoveTo
  <2>3. attempt = 0 /\ ~haveTimer /\ attempt < MaxAttempts
    BY <1>5, CountAssumption DEF IInv, Untouched
  <2>4. state' \in States /\ action' \in Actions /\ waited' \in 0 .. WipeWaitFallback
    BY <2>1, <2>2, TimeAssumption DEF States, Actions
  <2>5. TypeOK'
    BY <1>1, <2>1, <2>2, <2>4 DEF TypeOK
  <2>6. Budget' /\ Untouched' /\ Armed' /\ WipeLaunchExplained'
    BY <1>1, <1>5, <2>1, <2>2, <2>3
    DEF IInv, Budget, Untouched, Armed, WipeLaunchExplained, Playing, Ended
  <2>7. RateCap'
    BY <2>2 DEF IInv, RateCap
  <2> QED BY <2>5, <2>6, <2>7 DEF IInv
<1> QED BY <1>1, <1>3, <1>4, <1>5 DEF TypeOK

\* A tick while the job waits for the wipe.
LEMMA TickWaitingStep ==
  ASSUME IInv, TickWaiting, state \notin Ended,
         UNCHANGED <<waitForServerUp, held, server, steamProblems>>
  PROVE  IInv'
<1> DEFINE armed == haveTimer \/ GivesUpWaiting
<1>1. PICK left \in IF GivesUpWaiting THEN Jitter ELSE {connectIn} :
         LET due == armed /\ left = 0 /\ serverUp
         IN  /\ haveTimer' = (armed /\ ~due)
             /\ IF due /\ ~RateLimited THEN BeginLaunch
                ELSE Quiet /\ connectIn' = left
  BY DEF TickWaiting
<1>2. /\ TypeOK /\ state = "waiting_for_server_up" /\ attempt < MaxAttempts
      /\ gaveUpWaiting' = (gaveUpWaiting \/ GivesUpWaiting)
      /\ UNCHANGED <<sawServerDown, notedFresh, waited, serverUp, serverKnown>>
  BY DEF TickWaiting, IInv, Budget, server
<1>3. /\ haveTimer' \in BOOLEAN /\ sawServerDown' \in BOOLEAN
      /\ gaveUpWaiting' \in BOOLEAN /\ notedFresh' \in BOOLEAN
  BY <1>1, <1>2 DEF TypeOK
<1>4. armed /\ serverUp => sawServerDown \/ notedFresh \/ gaveUpWaiting'
  BY <1>2 DEF IInv, Armed, GivesUpWaiting
<1>5. CASE BeginLaunch /\ armed /\ serverUp /\ ~RateLimited
  BY <1>2, <1>3, <1>4, <1>5, LaunchStep
<1>6. CASE Quiet /\ connectIn' = left /\ (haveTimer' => armed)
  <2>1. /\ action' = "none"
        /\ UNCHANGED <<state, attempt, reason, closeRequested, sawUserQuit, loadingSeen,
                       launchAges>>
    BY <1>6 DEF Quiet, standing
  <2>2. connectIn' \in Nat
    <3>1. Jitter \subseteq Nat /\ connectIn \in Nat
      BY <1>2, TimeAssumption DEF Jitter, TypeOK
    <3> QED BY <1>1, <1>6, <3>1
  <2>3. TypeOK'
    BY <1>2, <1>3, <2>1, <2>2 DEF TypeOK, Actions
  <2>4. Budget'
    BY <2>1 DEF IInv, Budget
  <2>5. Armed'
    BY <1>2, <1>6, <2>1 DEF IInv, Armed, PastWipeWait, GivesUpWaiting
  <2> QED BY <1>2, <2>1, <2>3, <2>4, <2>5, QuietStep
<1> QED BY <1>1, <1>5, <1>6

\* A tick while the job backs off.
LEMMA TickRetryingStep ==
  ASSUME IInv, TickRetrying, state \notin Ended,
         UNCHANGED <<waitForServerUp, held, server, steamProblems>>
  PROVE  IInv'
<1> DEFINE restarting == waitForServerUp /\ serverKnown /\ ~serverUp
<1>1. /\ TypeOK /\ state = "retrying" /\ attempt < MaxAttempts /\ attempt > 0
      /\ UNCHANGED <<serverUp, serverKnown>>
  BY DEF TickRetrying, IInv, Budget, server
<1>2. \/ /\ restarting /\ MoveTo("waiting_for_server_up")
         /\ sawServerDown' = TRUE /\ waited' = 0
         /\ UNCHANGED <<gaveUpWaiting, notedFresh, haveTimer>>
      \/ ~RateLimited /\ BeginLaunch /\ wipe' = wipe
      \/ Ignore /\ wipe' = wipe
  BY DEF TickRetrying
<1>3. CASE /\ restarting /\ MoveTo("waiting_for_server_up")
           /\ sawServerDown' = TRUE /\ waited' = 0
           /\ UNCHANGED <<gaveUpWaiting, notedFresh, haveTimer>>
  <2>1. /\ state' = "waiting_for_server_up" /\ action' = "none"
        /\ UNCHANGED <<attempt, reason, closeRequested, sawUserQuit, loadingSeen,
                       launchAges, connectIn>>
    BY <1>3 DEF MoveTo
  <2>2. /\ state' \in States /\ action' \in Actions
        /\ sawServerDown' \in BOOLEAN /\ waited' \in 0 .. WipeWaitFallback
    BY <1>3, <2>1, TimeAssumption DEF States, Actions
  <2>3. TypeOK'
    BY <1>1, <1>3, <2>1, <2>2 DEF TypeOK
  <2>4. Budget'
    BY <1>1, <2>1 DEF IInv, Budget, Playing, Ended
  <2>5. Armed'
    BY <1>3, <2>1 DEF Armed
  <2> QED BY <1>3, <2>1, <2>3, <2>4, <2>5, QuietStep
<1>4. CASE ~RateLimited /\ BeginLaunch /\ wipe' = wipe
  <2>1. UNCHANGED <<waited, haveTimer, sawServerDown, gaveUpWaiting, notedFresh>>
    BY <1>4 DEF wipe
  <2>2. /\ haveTimer' \in BOOLEAN /\ sawServerDown' \in BOOLEAN
        /\ gaveUpWaiting' \in BOOLEAN /\ notedFresh' \in BOOLEAN
    BY <1>1, <2>1 DEF TypeOK
  <2>3. waitForServerUp => sawServerDown' \/ notedFresh' \/ gaveUpWaiting'
    BY <1>1, <2>1 DEF IInv, WipeLaunchExplained
  <2> QED BY <1>1, <1>4, <2>1, <2>2, <2>3, LaunchStep
<1>5. CASE Ignore /\ wipe' = wipe
  BY <1>1, <1>5, IgnoreIsMove, MoveToStep DEF TypeOK
<1> QED BY <1>2, <1>3, <1>4, <1>5

\* Any tick.
LEMMA TickStep == ASSUME IInv, Tick PROVE IInv'
<1>1. /\ TypeOK /\ state \notin Ended
      /\ UNCHANGED <<waitForServerUp, held, server, serverUp, serverKnown, steamProblems>>
  BY DEF IInv, Tick, server
<1>2. held' \in 0 .. InServerConfirm /\ serverUp' \in BOOLEAN /\ serverKnown' \in BOOLEAN
  BY <1>1 DEF TypeOK
<1>3. CASE TickWaiting
  BY <1>1, <1>3, TickWaitingStep
<1>4. CASE TickRetrying
  BY <1>1, <1>4, TickRetryingStep
<1>5. CASE Ignore /\ wipe' = wipe
  BY <1>1, <1>2, <1>5, IgnoreIsMove, MoveToStep DEF TypeOK
<1>6. CASE MoveTo("done") /\ wipe' = wipe
  BY <1>1, <1>2, <1>6, MoveToStep DEF States, Ended
<1> QED BY <1>3, <1>4, <1>5, <1>6 DEF Tick, TickInServer

\* Time passes.
LEMMA ElapseStep == ASSUME IInv, Elapse PROVE IInv'
<1>1. TypeOK /\ state \notin Ended
  BY DEF IInv, Elapse
<1>2. /\ UNCHANGED <<waitForServerUp, state, attempt, reason, closeRequested,
                     sawUserQuit, loadingSeen, haveTimer, serverUp, serverKnown,
                     sawServerDown, gaveUpWaiting, notedFresh, steamProblems>>
      /\ action' = "none"
      /\ launchAges' = {age + 1 : age \in launchAges} \ {Minute}
  BY DEF Elapse, server
<1>3. /\ connectIn' \in Nat
      /\ held' \in 0 .. InServerConfirm
      /\ waited' \in 0 .. WipeWaitFallback
      /\ PastWipeWait => PastWipeWait'
  BY <1>1, TimeAssumption DEF Elapse, TypeOK, PastWipeWait
<1>4. launchAges \in SUBSET (0 .. Minute - 1)
  BY <1>1 DEF TypeOK
<1>5. launchAges' \in SUBSET (0 .. Minute - 1) /\ Cardinality(launchAges') <= Cardinality(launchAges)
  BY <1>2, <1>4, AgeLaunches
<1>6. Cardinality(launchAges) \in Nat /\ Cardinality(launchAges') \in Nat
  BY <1>4, <1>5, AddLaunch
<1>7. RateCap'
  BY <1>5, <1>6, CountAssumption DEF IInv, RateCap
<1>8. TypeOK'
  BY <1>1, <1>2, <1>3, <1>5 DEF TypeOK, Actions
<1>9. Budget' /\ WipeLaunchExplained' /\ Armed'
  BY <1>2, <1>3 DEF IInv, Budget, WipeLaunchExplained, Armed
<1>10. Untouched'
  BY <1>2 DEF IInv, Untouched
<1> QED BY <1>7, <1>8, <1>9, <1>10 DEF IInv

\* A step that changes nothing.
LEMMA StutterStep == ASSUME IInv, UNCHANGED vars PROVE IInv'
BY DEF IInv, TypeOK, Budget, Untouched, Armed, RateCap, WipeLaunchExplained,
       PastWipeWait, vars, fate, standing, server, wipe

-----------------------------------------------------------------------------
(* The theorems.                                                           *)

\* No step of the job leaves the invariant.
LEMMA NextStep == ASSUME IInv, [Next]_vars PROVE IInv'
<1>1. CASE Start \/ Cancel \/ Tick \/ Elapse \/ ServerDown
  BY <1>1, StartStep, CancelStep, TickStep, ElapseStep, ServerDownStep
<1>2. CASE LaunchOK \/ LaunchFailed
  BY <1>2, LaunchAnswerStep
<1>3. CASE \E age \in Ages, queue \in BOOLEAN : ServerUp(age, queue)
  BY <1>3, ServerUpStep
<1>4. CASE \E silent \in BOOLEAN : GameExited(silent)
  BY <1>4, GameExitedStep
<1>5. CASE \E kind \in LogKinds : LogEvent(kind)
  BY <1>5, LogEventStep
<1>6. CASE Finished \/ UNCHANGED vars
  BY <1>6, StutterStep DEF Finished
<1> QED BY <1>1, <1>2, <1>3, <1>4, <1>5, <1>6 DEF Next

\* The invariant is inductive.
THEOREM Invariance == Spec => []IInv
<1>1. IInv /\ [Next]_vars => IInv'
  BY NextStep
<1> QED BY <1>1, InitIInv, PTL DEF Spec

\* The variables keep their types; in particular no job ever launches more
\* than MaxAttempts times (retryOrFail, state.go).
THEOREM TypeCorrect == Spec => []TypeOK
<1>1. IInv => TypeOK
  BY DEF IInv
<1> QED BY <1>1, Invariance, PTL

\* However the server flaps, at most MaxConnectsPerMinute launches fall in
\* any Minute (rateLimited, state.go).
THEOREM LaunchesAreCapped == Spec => []RateCap
<1>1. IInv => RateCap
  BY DEF IInv
<1> QED BY <1>1, Invariance, PTL

\* A wipe job never launches without one of its three reasons to believe
\* that the wipe is over (handleWaiting and handleRetrying, state.go).
THEOREM WipeLaunchesAreExplained == Spec => []WipeLaunchExplained
<1>1. IInv => WipeLaunchExplained
  BY DEF IInv
<1> QED BY <1>1, Invariance, PTL
=============================================================================
