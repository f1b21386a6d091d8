------------------------------- MODULE MCParts -------------------------------
(***************************************************************************)
(* Five parts that share no state: how a PC is linked, the months for      *)
(* bringing a mate, the timeline on the phone, the agent's reading of      *)
(* Rust's log, and the wait for Rust to appear.  A behaviour follows one   *)
(* of them; the others rest in one of their initial states.                *)
(***************************************************************************)
EXTENDS Pairing, Referral, Timeline, LogTail, LaunchWait

VARIABLE part

PairRests ==
  /\ PairInit
  /\ entry = [r \in Code |-> [at |-> "new", by |-> CHOOSE a \in Holder : TRUE,
                              for |-> CHOOSE d \in Device : TRUE]]
RefRests == RefInit /\ mate = [w \in Worker |-> CHOOSE m \in Mate : TRUE]
TailRests == LogTailInit /\ ~there /\ \A f \in Session : content[f].length = 0
LaunchRests == LaunchInit /\ manifest = "unknown" /\ ~steam

MCInit ==
  \/ part = "pairing"
     /\ PairInit /\ RefRests /\ TimelineInit /\ TailRests /\ LaunchRests
  \/ part = "referral"
     /\ PairRests /\ RefInit /\ TimelineInit /\ TailRests /\ LaunchRests
  \/ part = "timeline"
     /\ PairRests /\ RefRests /\ TimelineInit /\ TailRests /\ LaunchRests
  \/ part = "tail"
     /\ PairRests /\ RefRests /\ TimelineInit /\ LogTailInit /\ LaunchRests
  \/ part = "launch"
     /\ PairRests /\ RefRests /\ TimelineInit /\ TailRests /\ LaunchInit

MCNext ==
  /\ UNCHANGED part
  /\ \/ part = "pairing" /\ PairNext
        /\ UNCHANGED <<refVars, timelineVars, logVars, launchVars>>
     \/ part = "referral" /\ RefNext
        /\ UNCHANGED <<pairVars, timelineVars, logVars, launchVars>>
     \/ part = "timeline" /\ TimelineNext
        /\ UNCHANGED <<pairVars, refVars, logVars, launchVars>>
     \/ part = "tail" /\ LogTailNext
        /\ UNCHANGED <<pairVars, refVars, timelineVars, launchVars>>
     \/ part = "launch" /\ LaunchNext
        /\ UNCHANGED <<pairVars, refVars, timelineVars, logVars>>

MCSpec ==
  /\ MCInit
  /\ [][MCNext]_<<part, pairVars, refVars, timelineVars, logVars, launchVars>>

=============================================================================
