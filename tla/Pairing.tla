------------------------------- MODULE Pairing -------------------------------
(***************************************************************************)
(* How a PC comes to belong to an account.                                 *)
(*                                                                         *)
(* The agent asks for a code, shows it and polls                           *)
(* (cmd/agent/pair.go, internal/relayclient/pair.go).  Somebody signed in  *)
(* types the code; the relay counts the PCs of the account, reads the      *)
(* code, claims the row with a token of its own making, and parks the      *)
(* token for the next poll (internal/store/devices.go), four statements    *)
(* with nothing to hold them together.  A poll reads the token and deletes *)
(* it, two statements again; the connection of a poll can break, and the   *)
(* agent polls anew while the relay is still at the old one.               *)
(***************************************************************************)
EXTENDS Naturals, FiniteSets

CONSTANTS
  Device,    \* pairings started, each a row and an agent that shows its code
  Holder,    \* accounts
  Code,      \* codes typed in; one that gets so far mints a token of its name
  Nobody

ASSUME PairingAssumption == Nobody \notin Holder \cup Code

VARIABLES
  agent,      \* "off", "polling", "paired", "failed"
  token,      \* the device token the agent has saved
  owner,      \* devices.account_id
  mark,       \* devices.token_hash since the claim; Nobody: claimed_at is 0
  revoked,    \* rows unlinked
  expired,    \* codes whose ten minutes are over
  reading,    \* the token a poll has read and not yet deleted
  adrift,     \* the same of an earlier poll, whose connection broke
  parked,     \* pending_tokens
  entry,      \* per code typed in: the next statement, account and row
  collected,  \* history: how often a row's token was given out
  overlapped, \* history: rows where two polls had read the token together
  raced       \* history: accounts and rows two entries were at together

polls == <<reading, adrift, overlapped>>
agents == <<agent, token, collected, polls>>
device == <<owner, mark, revoked>>
pairVars == <<agents, device, expired, parked, entry, raced>>

PairStatement == {"count", "code", "claim", "park"}

PairTypeOK ==
  /\ agent \in [Device -> {"off", "polling", "paired", "failed"}]
  /\ token \in [Device -> Code \cup {Nobody}]
  /\ owner \in [Device -> Holder \cup {Nobody}] /\ mark \in [Device -> Code \cup {Nobody}]
  /\ revoked \subseteq Device /\ expired \subseteq Device
  /\ parked \in [Device -> Code \cup {Nobody}]
  /\ entry \in [Code -> [at : PairStatement \cup {"new", "over"},
                          by : Holder, for : Device]]
  /\ reading \in [Device -> Code \cup {Nobody}] /\ adrift \in [Device -> Code \cup {Nobody}]
  /\ overlapped \subseteq Device
  /\ collected \in [Device -> Nat] /\ raced \subseteq Holder \cup Device

PairInit ==
  /\ agent = [d \in Device |-> "off"] /\ token = [d \in Device |-> Nobody]
  /\ owner = [d \in Device |-> Nobody] /\ mark = [d \in Device |-> Nobody]
  /\ revoked = {} /\ expired = {} /\ parked = [d \in Device |-> Nobody]
  /\ entry \in [Code -> [at : {"new"}, by : Holder, for : Device]]
  /\ reading = [d \in Device |-> Nobody] /\ adrift = [d \in Device |-> Nobody]
  /\ collected = [d \in Device |-> 0] /\ overlapped = {} /\ raced = {}

IsClaimed(d) == mark[d] # Nobody
Linked(a) == {d \in Device \ revoked : owner[d] = a}

-----------------------------------------------------------------------------
(* The PC.                                                                 *)

StartPairing(d) ==
  /\ agent[d] = "off" /\ agent' = [agent EXCEPT ![d] = "polling"]
  /\ UNCHANGED <<token, collected, polls, device, expired, parked, entry, raced>>

CodeExpires(d) ==
  /\ agent[d] # "off" /\ ~IsClaimed(d) /\ expired' = expired \cup {d}
  /\ UNCHANGED <<agents, device, parked, entry, raced>>

\* CollectPairingResult finds the code run out, or the token gone.
Refused(d) == IF IsClaimed(d) THEN parked[d] = Nobody ELSE d \in expired

\* The first half of CollectPairingResult, when it has more to say than "not
\* yet".  An error ends the pairing in WaitForPairing.
Poll(d) ==
  /\ agent[d] = "polling" /\ reading[d] = Nobody
  /\ \/ /\ IsClaimed(d) /\ parked[d] # Nobody
        /\ reading' = [reading EXCEPT ![d] = parked[d]]
        /\ overlapped' = overlapped \cup {e \in {d} : adrift[e] # Nobody}
        /\ UNCHANGED agent
     \/ /\ Refused(d)
        /\ agent' = [agent EXCEPT ![d] = "failed"]
        /\ UNCHANGED <<reading, overlapped>>
  /\ UNCHANGED <<token, collected, adrift, device, expired, parked, entry, raced>>

\* Mutation: the token is left for the next poll.
DeletesNothing(d) ==
  /\ collected' = [collected EXCEPT ![d] = IF @ < 3 THEN @ + 1 ELSE @]
  /\ UNCHANGED parked

\* The second half: whether a row went is not looked at.
Deletes(d) ==
  /\ parked' = [parked EXCEPT ![d] = Nobody]
  /\ collected' = [collected EXCEPT ![d] = @ + 1]

Collect(d) ==
  /\ agent[d] = "polling" /\ reading[d] # Nobody /\ Deletes(d)
  /\ agent' = [agent EXCEPT ![d] = "paired"] /\ token' = [token EXCEPT ![d] = reading[d]]
  /\ reading' = [reading EXCEPT ![d] = Nobody]
  /\ UNCHANGED <<adrift, overlapped, device, expired, entry, raced>>

\* A statement of the poll fails, the DELETE included.
PollBreaks(d) ==
  /\ agent[d] = "polling" /\ agent' = [agent EXCEPT ![d] = "failed"]
  /\ reading' = [reading EXCEPT ![d] = Nobody]
  /\ UNCHANGED <<token, collected, adrift, overlapped, device, expired, parked, entry,
                 raced>>

\* No answer at all does not end the pairing; the relay does not know that
\* nobody waits for it.  Bound: one poll of a row is lost like this at a time.
Lose(d) ==
  /\ reading[d] # Nobody /\ adrift[d] = Nobody
  /\ adrift' = [adrift EXCEPT ![d] = reading[d]] /\ reading' = [reading EXCEPT ![d] = Nobody]
  /\ UNCHANGED <<agent, token, collected, overlapped, device, expired, parked, entry,
                 raced>>

CollectLost(d) ==
  /\ adrift[d] # Nobody /\ adrift' = [adrift EXCEPT ![d] = Nobody]
  /\ Deletes(d) \/ UNCHANGED <<collected, parked>>
  /\ UNCHANGED <<agent, token, reading, overlapped, device, expired, entry, raced>>

-----------------------------------------------------------------------------
(* ClaimPairingCode.                                                       *)

Moves(r, to) == entry' = [entry EXCEPT ![r].at = to]

\* The requests that are under way for the account or the device of this one.
Others(r) == {q \in Code \ {r} : entry[q].at \in PairStatement}

Type(r) ==
  LET a == entry[r].by
      d == entry[r].for
  IN /\ entry[r].at = "new" /\ agent[d] # "off" /\ Moves(r, "count")
     /\ raced' = raced \cup {a : q \in {p \in Others(r) : entry[p].by = a}}
                       \cup {d : q \in {p \in Others(r) : entry[p].for = d}}
     /\ UNCHANGED <<agents, device, expired, parked>>

\* Mutant: a PC that was claimed but never collected its token is not counted.
CountPCsCollected(r) ==
  /\ entry[r].at = "count"
  /\ Moves(r, IF {d \in Linked(entry[r].by) : agent[d] = "paired"} = {} THEN "code" ELSE "over")
  /\ UNCHANGED <<agents, device, expired, parked, raced>>

CountPCs(r) ==
  /\ entry[r].at = "count"
  /\ Moves(r, IF Linked(entry[r].by) = {} THEN "code" ELSE "over")
  /\ UNCHANGED <<agents, device, expired, parked, raced>>

ReadCode(r) ==
  /\ entry[r].at = "code"
  /\ Moves(r, IF IsClaimed(entry[r].for) \/ entry[r].for \in expired THEN "over" ELSE "claim")
  /\ UNCHANGED <<agents, device, expired, parked, raced>>

\* The UPDATE asks that the device be unclaimed; whether it was is not looked at.
ClaimCode(r) ==
  LET d == entry[r].for
  IN /\ entry[r].at = "claim" /\ Moves(r, "park")
     /\ IF IsClaimed(d) THEN UNCHANGED <<owner, mark>>
        ELSE owner' = [owner EXCEPT ![d] = entry[r].by] /\ mark' = [mark EXCEPT ![d] = r]
     /\ UNCHANGED <<agents, revoked, expired, parked, raced>>

\* stashDeviceToken replaces; then handleClaimCode looks at the referral.
Park(r) ==
  /\ entry[r].at = "park" /\ Moves(r, "over")
  /\ parked' = [parked EXCEPT ![entry[r].for] = r]
  /\ UNCHANGED <<agents, device, expired, raced>>

Breaks(r) ==
  /\ entry[r].at \in PairStatement /\ Moves(r, "over")
  /\ UNCHANGED <<agents, device, expired, parked, raced>>

Unlink(d) ==
  /\ IsClaimed(d) /\ revoked' = revoked \cup {d}
  /\ UNCHANGED <<agents, owner, mark, expired, parked, entry, raced>>

PairNext ==
  \/ \E d \in Device :
       \/ StartPairing(d) \/ CodeExpires(d) \/ Unlink(d)
       \/ Poll(d) \/ Collect(d) \/ PollBreaks(d) \/ Lose(d) \/ CollectLost(d)
  \/ \E r \in Code :
       Type(r) \/ CountPCs(r) \/ ReadCode(r) \/ ClaimCode(r) \/ Park(r) \/ Breaks(r)

PairSpec == PairInit /\ [][PairNext]_pairVars

-----------------------------------------------------------------------------
(* What the code typed in is worth.                                        *)

\* "One PC per account" (ClaimPairingCode): a second one takes two codes typed
\* into the account at the same time.
OnePC == \A a \in Holder \ raced : Cardinality(Linked(a)) <= 1

\* The token an agent saved is the one its row knows, so that it can connect
\* (DeviceByToken), unless the same code was being typed twice; through lost
\* answers, failures at every statement and codes that expire meanwhile.  And
\* it leaves the relay once, unless a poll read it while an earlier one, whose
\* connection broke, had read it and was about to delete it.
TokenOpens ==
  \A d \in Device \ raced :
    /\ agent[d] = "paired" => token[d] = mark[d] /\ mark[d] # Nobody
    /\ d \notin overlapped => collected[d] <= 1

\* Documented ("exactly once", "can never be read again"): polls may overlap.
CollectedOnce == \A d \in Device \ raced : collected[d] <= 1

=============================================================================
