------------------------------ MODULE LaunchWait ------------------------------
(***************************************************************************)
(* Waiting for Rust to appear, which on wipe day means waiting for Steam   *)
(* to download gigabytes (internal/game/windows.go, steamwait.go,          *)
(* steamapp.go).                                                           *)
(*                                                                         *)
(* The watcher looks again and again: is the game there, is Steam, what    *)
(* does Steam's manifest say.  Time is counted in minutes, and there is    *)
(* one look a minute.  A clock, shared by all launches of a join, says for *)
(* how long the byte count has not moved; the deadline is moved whenever   *)
(* there is a reason to be patient.  What Steam does is as it pleases.     *)
(***************************************************************************)
EXTENDS Naturals

CONSTANTS
  Grace,       \* startupGrace, 3
  StallReport, \* 8
  NudgeAfter,  \* LaunchNudgeAfter, 2
  MaxNudges    \* MaxLaunchNudges, 3

ASSUME LaunchWaitAssumption ==
  /\ Grace \in Nat \ {0} /\ MaxNudges \in Nat
  /\ NudgeAfter \in Nat \ {0} /\ StallReport \in Nat /\ NudgeAfter < StallReport

VARIABLES
  manifest,   \* what Steam says: "unknown", "installed", "updating", "paused"
  steam,      \* Steam runs
  watching,   \* "waiting", "playing", "over", "gave up", "blames Steam"
  left,       \* minutes to the deadline
  steamSeen, nudges,
  stall,      \* the stall clock runs
  still,      \* for how long, StallReport at most
  idle,       \* history: minutes since bytes came or Steam did
  calm        \* history: those in which Steam's manifest said the same, too

wait == <<watching, left, steamSeen, nudges>>
launchPast == <<idle, calm>>
launchVars == <<manifest, steam, wait, stall, still, launchPast>>

Manifest == {"unknown", "installed", "updating", "paused"}
Enough == StallReport + Grace + MaxNudges + 1

LaunchFlags == steam \in BOOLEAN /\ steamSeen \in BOOLEAN /\ stall \in BOOLEAN

LaunchTypeOK ==
  /\ LaunchFlags /\ manifest \in Manifest
  /\ watching \in {"waiting", "playing", "over", "gave up", "blames Steam"}
  /\ left \in 0 .. Grace /\ nudges \in 0 .. MaxNudges /\ still \in 0 .. StallReport
  /\ idle \in 0 .. Grace /\ calm \in 0 .. Enough

LaunchInit ==
  /\ manifest \in Manifest /\ steam \in BOOLEAN
  /\ watching = "over" /\ left = 0 /\ steamSeen = FALSE /\ nudges = 0
  /\ stall = FALSE /\ still = 0 /\ idle = 0 /\ calm = 0

AtMost(n, most) == IF n > most THEN most ELSE n

-----------------------------------------------------------------------------
(* What there is to see.                                                   *)

\* parseAppManifest, whose update bits and byte counts all mean the same here.
Updating(m) == m \in {"updating", "paused"}

\* stallWatch.stalledFor: the reading, and whether bytes have come since the
\* last one.
StalledFor(m, moved) == 
  IF Updating(m) /\ stall /\ ~moved THEN AtMost(still + 1, StallReport) ELSE 0

NeedsPlayer(m, stalled) == Updating(m) /\ (m = "paused" \/ stalled >= StallReport)

ShouldNudgeLaunch(m, stalled) ==
  nudges < MaxNudges /\ m = "updating" /\ stalled >= NudgeAfter

\* Mutant: an update buys patience for as long as it is not paused.
JudgePatiently(m, stalled, past) ==
  IF m = "updating" THEN "extend"
  ELSE IF ~past THEN "waiting"
  ELSE IF NeedsPlayer(m, stalled) THEN "blames Steam" ELSE "gave up"

JudgeLaunchWait(m, stalled, past) ==
  IF Updating(m) /\ ~NeedsPlayer(m, stalled) THEN "extend"
  ELSE IF ~past THEN "waiting"
  ELSE IF NeedsPlayer(m, stalled) THEN "blames Steam" ELSE "gave up"

-----------------------------------------------------------------------------
(* The watcher.                                                            *)

\* Launch: a new watcher, the same stall clock.
Launches ==
  /\ watching \notin {"waiting", "playing"} /\ watching' = "waiting"
  /\ left' = Grace /\ steamSeen' = FALSE /\ nudges' = 0 /\ idle' = 0 /\ calm' = 0
  /\ UNCHANGED <<manifest, steam, stall, still>>

\* A minute passes; what Steam says at the end of it, and whether bytes came.
Minute(m, moved) ==
  /\ manifest' = m /\ steam' \in BOOLEAN
  /\ moved => Updating(m)

Counts(m, moved) ==
  LET news == (moved /\ m = "updating") \/ (steam' /\ ~steamSeen)
  IN /\ idle' = IF news THEN 0 ELSE AtMost(idle + 1, Grace)
     /\ calm' = IF news \/ m # manifest THEN 0 ELSE AtMost(calm + 1, Enough)

\* The rest of the loop when the game is not there and has not been.  The link
\* of a nudge may not open.
LooksForRust(m, moved, opens) ==
  LET stalled == StalledFor(m, moved)
      comes == steam' /\ ~steamSeen
      nudge == ShouldNudgeLaunch(m, stalled)
      now == IF comes \/ (nudge /\ opens) THEN Grace ELSE left - (IF left > 0 THEN 1 ELSE 0)
      verdict == JudgeLaunchWait(m, stalled, now = 0)
  IN /\ watching = "waiting" /\ Minute(m, moved) /\ Counts(m, moved)
     /\ stall' = Updating(m) /\ still' = stalled
     /\ steamSeen' = (steamSeen \/ steam')
     /\ nudges' = IF nudge THEN nudges + 1 ELSE nudges
     /\ left' = IF verdict = "extend" THEN Grace ELSE now
     /\ watching' = IF verdict = "extend" THEN "waiting" ELSE verdict

\* The game is there; the manifest is not read.
Appears ==
  /\ watching = "waiting" /\ watching' = "playing"
  /\ UNCHANGED <<manifest, steam, left, steamSeen, nudges, stall, still, launchPast>>

\* A minute in which nobody looks; the stall clock goes on.  The game is there
\* until it is not.
Elsewhere(m) ==
  /\ watching # "waiting" /\ Minute(m, FALSE)
  /\ still' = IF stall THEN AtMost(still + 1, StallReport) ELSE still
  /\ watching' \in (IF watching = "playing" THEN {"playing", "over"} ELSE {watching})
  /\ UNCHANGED <<left, steamSeen, nudges, stall, launchPast>>

LaunchNext ==
  \/ Launches \/ Appears
  \/ \E m \in Manifest :
       Elsewhere(m) \/ \E moved, opens \in BOOLEAN : LooksForRust(m, moved, opens)

LaunchSpec == LaunchInit /\ [][LaunchNext]_launchVars

-----------------------------------------------------------------------------
(* How long it waits.                                                      *)

\* "An update that is moving buys unlimited patience, an update that needs the
\* player does not" (judgeLaunchWait): no wait is given up within a grace of
\* bytes that came or of Steam, which may have been restarting; and none goes on
\* for longer than the stall, a grace and a minute for every nudge when nothing
\* moves and the manifest says the same, wherever the launch before has left the
\* stall clock.
WaitIsJust ==
  /\ watching \in {"gave up", "blames Steam"} => idle = Grace
  /\ watching = "waiting" => calm <= StallReport + Grace + MaxNudges

=============================================================================
