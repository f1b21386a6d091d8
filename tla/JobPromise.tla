----------------------------- MODULE JobPromise -----------------------------
(***************************************************************************)
(* What one join job promises the PC it runs on and the phone that watches *)
(* it, with the nine states of internal/job/state.go seen as five stages.  *)
(*                                                                         *)
(* A job owns at most one copy of the game: between two launches it has    *)
(* ordered the first one closed.  It launches at most MaxAttempts times.   *)
(* It ends once and for good; it ends as won only after it has been in the *)
(* server for HoldTime without a break, and it ends without a close order  *)
(* only when it is won, when the game ended or was left at the PC, or when *)
(* it owned no game at the time.                                           *)
(***************************************************************************)
EXTENDS Naturals

CONSTANTS MaxAttempts, HoldTime

VARIABLES stage, launches, order, hold, outcome

vars == <<stage, launches, order, hold, outcome>>

Stages == {"pending", "playing", "holding", "backing_off", "ended"}

TypeOK ==
  /\ stage \in Stages
  /\ launches \in 0 .. MaxAttempts
  /\ order \in {"none", "launch_game", "close_game"}
  /\ hold \in 0 .. HoldTime
  /\ outcome \in {"open", "won", "lost"}

Init ==
  stage = "pending" /\ launches = 0 /\ order = "none" /\ hold = 0 /\ outcome = "open"

Move(to, command) ==
  /\ stage' = to /\ order' = command /\ hold' = 0
  /\ UNCHANGED <<launches, outcome>>

End(command, how) ==
  /\ stage' = "ended" /\ order' = command /\ hold' = 0 /\ outcome' = how
  /\ UNCHANGED launches

Launch ==
  /\ stage \in {"pending", "backing_off"}
  /\ launches < MaxAttempts
  /\ stage' = "playing" /\ order' = "launch_game" /\ launches' = launches + 1
  /\ UNCHANGED <<hold, outcome>>

Enter == stage = "playing" /\ Move("holding", "none")

Hold ==
  /\ stage = "holding" /\ hold < HoldTime
  /\ hold' = hold + 1 /\ order' = "none" /\ UNCHANGED <<stage, launches, outcome>>

\* The attempt is lost: close the game and try later, if a try is left.
Retry ==
  /\ stage \in {"playing", "holding"} /\ launches < MaxAttempts
  /\ Move("backing_off", "close_game")

\* The server is down: watch it again instead of launching.
WatchAgain == stage = "backing_off" /\ Move("pending", "none")

Win == stage = "holding" /\ hold = HoldTime /\ End("none", "won")

\* Refused, cancelled or out of attempts, with a game to close.
EndClosing == stage \in {"playing", "holding"} /\ End("close_game", "lost")

\* Left or closed at the PC, or cancelled when there was no game.
EndLeaving == stage # "ended" /\ End("none", "lost")

\* The last order has been carried out.
Settle == order' = "none" /\ UNCHANGED <<stage, launches, hold, outcome>>

Next ==
  \/ Launch \/ Enter \/ Hold \/ Retry \/ WatchAgain
  \/ Win \/ EndClosing \/ EndLeaving \/ Settle

LeaveBackoff == stage = "backing_off" /\ (Launch \/ WatchAgain \/ EndLeaving)

Spec == Init /\ [][Next]_vars /\ WF_vars(LeaveBackoff)
=============================================================================
